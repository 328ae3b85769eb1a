------------------------- MODULE WaveformPathProofs -------------------------
(***************************************************************************)
(* Why a device's frames pass the scheduler, and why its windows are exact,*)
(* for every rate, packet length and width of the word.                    *)
(*                                                                         *)
(* Times: the builder and the scheduler round the same times differently,  *)
(* but never by more than one (InStep, CutsAreTimed).                      *)
(*                                                                         *)
(* Windows: WindowsInv says that what was delivered of the active stream   *)
(* and what is retained of it are its frames in a row, an offset ahead of  *)
(* their indices (WellLaid).                                               *)
(***************************************************************************)
EXTENDS WaveformPath, EventSequenceProofs, SequenceTheorems, TLAPS

-----------------------------------------------------------------------------
(* Arithmetic.                                                             *)

\* A quotient is what its remainder makes it.
LEMMA Quotient ==
  ASSUME NEW x \in Nat, NEW r \in Nat \ {0}
  PROVE  /\ x \div r \in Nat
         /\ r * (x \div r) <= x /\ x < r * (x \div r) + r
         /\ x \div r <= x
OBVIOUS

\* Rounding two parts apart loses at most one.
LEMMA QuotientOfSum ==
  ASSUME NEW x \in Nat, NEW y \in Nat, NEW r \in Nat \ {0}
  PROVE  /\ x \div r + y \div r <= (x + y) \div r
         /\ (x + y) \div r <= x \div r + y \div r + 1
<1> DEFINE p == x \div r
           q == y \div r
           s == (x + y) \div r
<1>1. /\ p \in Nat /\ r * p <= x /\ x < r * p + r
  BY Quotient
<1>2. /\ q \in Nat /\ r * q <= y /\ y < r * q + r
  BY Quotient
<1>3. /\ s \in Nat /\ r * s <= x + y /\ x + y < r * s + r
  BY Quotient
<1> HIDE DEF p, q, s
<1>4. r * (p + q) <= x + y /\ x + y < r * (p + q + 2)
  BY <1>1, <1>2
<1>5. p + q < s + 1
  <2>1. r * (p + q) < r * (s + 1)
    BY <1>1, <1>2, <1>3, <1>4
  <2> QED BY <1>1, <1>2, <1>3, <2>1
<1>6. s < p + q + 2
  <2>1. r * s < r * (p + q + 2)
    BY <1>1, <1>2, <1>3, <1>4
  <2> QED BY <1>1, <1>2, <1>3, <2>1
<1> QED BY <1>1, <1>2, <1>3, <1>5, <1>6 DEF p, q, s

\* The time of a later frame is within the tolerance of the time reached from an
\* earlier one, and not before it.
LEMMA TimesAgree ==
  ASSUME NEW n \in Nat, NEW count \in Nat, NEW r \in Nat \ {0}
  PROVE  LET reached == FrameTime(n, r) + (count * NanosPerSecond) \div r IN
         /\ FrameTime(n, r) \in Nat /\ (count * NanosPerSecond) \div r \in Nat
         /\ FrameTime(n + count, r) \in Nat
         /\ reached <= FrameTime(n + count, r)
         /\ FrameTime(n + count, r) <= reached + TimestampTolerance
<1> DEFINE x == n * NanosPerSecond
           y == count * NanosPerSecond
<1>1. x \in Nat /\ y \in Nat
  BY WordAssumption
<1>2. (n + count) * NanosPerSecond = x + y
  BY WordAssumption
<1>3. x + y \in Nat
  BY <1>1
<1> HIDE DEF x, y
<1>4. x \div r \in Nat /\ y \div r \in Nat /\ (x + y) \div r \in Nat
  BY <1>1, <1>3, Quotient
<1>5. /\ x \div r + y \div r <= (x + y) \div r
      /\ (x + y) \div r <= x \div r + y \div r + 1
  BY <1>1, QuotientOfSum
<1>6. /\ FrameTime(n, r) = x \div r
      /\ (count * NanosPerSecond) \div r = y \div r
      /\ FrameTime(n + count, r) = (x + y) \div r
  BY <1>2 DEF FrameTime, x, y
<1> HIDE DEF x, y
<1> QED BY <1>4, <1>5, <1>6 DEF TimestampTolerance

\* Multiplying by the nanoseconds of a second keeps the order.
LEMMA ProductsAscend ==
  ASSUME NEW m \in Nat, NEW n \in Nat, m <= n
  PROVE  /\ m * NanosPerSecond \in Nat /\ n * NanosPerSecond \in Nat
         /\ m * NanosPerSecond <= n * NanosPerSecond
BY WordAssumption

\* A timestamp so many frames later exists where its product, its index and its
\* time fit their words.
LEMMA LaterExists ==
  ASSUME NEW start \in [index: Nat, time: Nat], NEW count \in Nat,
         NEW r \in Nat \ {0},
         Fits(count * NanosPerSecond), Fits(start.index + count),
         Fits(start.time + (count * NanosPerSecond) \div r)
  PROVE  Later(start, count, r)
           = Timestamp(start.index + count,
                       start.time + (count * NanosPerSecond) \div r)
<1>1. count * NanosPerSecond \in Nat
  BY WordAssumption
<1>2. (count * NanosPerSecond) \div r \in Nat
  BY <1>1, Quotient
<1> QED BY <1>2, PathAssumption DEF Later, FrameOffset

-----------------------------------------------------------------------------
(* The checks of a push.                                                   *)

\* A packet that is built has frames, and its frames have numbers.
LEMMA BuiltPackets ==
  ASSUME NEW b, NEW packet, NEW r, BuildOutcome(b, packet, r) = "Ok"
  PROVE  packet.count # 0 /\ Fits(b.next_index + packet.count)
BY DEF BuildOutcome

\* What the checks of the scheduler come to, for a frame that continues the
\* stream in number, time and rate.
LEMMA ContinuingFrames ==
  ASSUME NEW sched, NEW stream, NEW frame,
         sched.invalid # stream,
         Continues(sched, stream) => sched.rate = frame.rate,
         Continues(sched, stream) /\ sched.expected # None =>
           /\ frame.start.index = sched.expected.index
           /\ ~TimesDiffer(sched.expected, frame.start),
         AdvanceTimestamp(frame.start, Len(frame.samples), frame.rate) # None
  PROVE  /\ PushOutcome(sched, stream, frame)
              \in {"Ok", "WindowFrameCountOutOfRange", "OversizedInput"}
         /\ PushOutcome(sched, stream, frame) = "Ok" => WindowFrames(frame.rate) # 0
BY DEF PushOutcome

-----------------------------------------------------------------------------
(* Cutting windows.                                                        *)

Timestamps == [index: Nat, time: Nat]
PlacedFrames == [stream: Streams, at: Int]

Schedulers ==
  [active: Streams \cup {None}, invalid: Streams \cup {None},
   rate: Rates \cup {None}, origin: Timestamps \cup {None},
   expected: Timestamps \cup {None}, buffer_start: Timestamps \cup {None},
   samples: Seq(PlacedFrames)]

\* A timestamp counted from the origin of a stream that began at zero is the time
\* of its frame, and it is missing only where the product overflows.
LEMMA FromOrigin ==
  ASSUME NEW origin, origin = Timestamp(0, 0), NEW index \in Nat, Fits(index),
         NEW r \in Nat \ {0}
  PROVE  LET t == TimestampForFrameIndex(origin, index, r) IN
         /\ t # None => t \in Timestamps /\ t.index = index
         /\ t = None => ~Fits(index * NanosPerSecond)
<1>1. index * NanosPerSecond \in Nat
  BY WordAssumption
<1>2. /\ (index * NanosPerSecond) \div r \in Nat
      /\ (index * NanosPerSecond) \div r <= index * NanosPerSecond
  BY <1>1, Quotient
<1>3. TimestampForFrameIndex(origin, index, r) = Later(origin, index, r)
  BY DEF TimestampForFrameIndex, Timestamp
<1>4. /\ origin.index = 0 /\ origin.time = 0 /\ origin \in Timestamps
  BY DEF Timestamp, Timestamps
<1>5. CASE Fits(index * NanosPerSecond)
  <2>1. Fits((index * NanosPerSecond) \div r)
    BY <1>1, <1>2, <1>5, WordAssumption DEF Fits
  <2>2. Later(origin, index, r) = Timestamp(index, (index * NanosPerSecond) \div r)
    BY <1>2, <1>4, <1>5, <2>1, LaterExists DEF Timestamps
  <2>3. Timestamp(index, (index * NanosPerSecond) \div r) \in Timestamps
    BY <1>2 DEF Timestamp, Timestamps
  <2>4. None \notin Timestamps
    BY PathAssumption DEF Timestamps
  <2> QED BY <1>3, <2>2, <2>3, <2>4 DEF Timestamp
<1>6. CASE ~Fits(index * NanosPerSecond)
  BY <1>3, <1>6 DEF Later, FrameOffset
<1> QED BY <1>5, <1>6

\* The windows of a stream that began at zero are cut, or the product of its last
\* frame overflows; what is retained begins where its start says.
LEMMA CutsAreTimed ==
  ASSUME NEW sched \in Schedulers, sched.origin = Timestamp(0, 0), NEW stream,
         NEW samples \in Seq(PlacedFrames), NEW start \in Timestamps,
         NEW total \in Nat, Fits(total), start.index + Len(samples) = total,
         NEW r \in Nat \ {0}, WindowFrames(r) \in Nat \ {0},
         NEW expected \in Timestamps
  PROVE  LET result == Cut(sched, stream, start, samples, r, expected)
             after == result.scheduler
         IN  \/ /\ result.outcome = "Ok"
                /\ after \in Schedulers
                /\ after.active = sched.active /\ after.invalid = sched.invalid
                /\ after.rate = sched.rate /\ after.origin = sched.origin
                /\ after.expected = expected
                /\ after.samples # <<>> =>
                     /\ after.buffer_start # None
                     /\ after.buffer_start.index + Len(after.samples) = total
             \/ result.outcome = "CutOverflow" /\ ~Fits(total * NanosPerSecond)
<1> DEFINE w == WindowFrames(r)
           complete == Len(samples) \div w
           After(k) == SubSeq(samples, k * w + 1, Len(samples))
           StartOf(k) ==
             IF k = 0 THEN start
             ELSE TimestampForFrameIndex(sched.origin, start.index + k * w, r)
           failing == {k \in 1 .. complete : After(k) # <<>> /\ StartOf(k) = None}
           moved == IF After(complete) = <<>> THEN None ELSE StartOf(complete)
           result == Cut(sched, stream, start, samples, r, expected)
<1>1. /\ Len(samples) \in Nat /\ complete \in Nat /\ complete * w <= Len(samples)
      /\ complete * w \in Nat
  BY LenProperties, Quotient
<1>2. ASSUME NEW k \in 0 .. complete
      PROVE  /\ k * w \in Nat /\ k * w <= Len(samples)
             /\ After(k) \in Seq(PlacedFrames)
             /\ Len(After(k)) = Len(samples) - k * w
             /\ StartOf(k) # None =>
                  StartOf(k) \in Timestamps /\ StartOf(k).index = start.index + k * w
             /\ StartOf(k) = None => ~Fits(total * NanosPerSecond)
  <2>1. k * w \in Nat /\ k * w <= complete * w
    BY <1>1
  <2>2. k * w <= Len(samples)
    BY <1>1, <2>1
  <2>3. /\ After(k) \in Seq(PlacedFrames)
        /\ Len(After(k)) = Len(samples) - k * w
    <3>1. PICK i \in Nat, n \in Nat : i = k * w /\ n = Len(samples)
      BY <1>1, <2>1
    <3>2. \A m \in i + 1 .. n : samples[m] \in PlacedFrames
      BY <3>1, ElementOfSeq
    <3>3. i <= n /\ After(k) = SubSeq(samples, i + 1, n)
      BY <2>2, <3>1
    <3>4. /\ SubSeq(samples, i + 1, n) \in Seq(PlacedFrames)
          /\ Len(SubSeq(samples, i + 1, n)) = IF i + 1 <= n THEN n - (i + 1) + 1 ELSE 0
      BY <3>2, SubSeqProperties
    <3>5. Len(SubSeq(samples, i + 1, n)) = n - i
      BY <3>3, <3>4
    <3> HIDE DEF After, w
    <3> QED BY <3>1, <3>3, <3>4, <3>5
  <2>4. CASE k = 0
    BY <2>1, <2>2, <2>3, <2>4, PathAssumption DEF Timestamps
  <2>5. CASE k # 0
    <3>0. PICK i \in Nat, n \in Nat, at \in Nat :
            i = k * w /\ n = Len(samples) /\ at = start.index
      BY <1>1, <2>1 DEF Timestamps
    <3>1. /\ start.index + k * w \in Nat /\ start.index + k * w <= total
      <4>1. i <= n /\ at + n = total
        BY <2>2, <3>0
      <4>2. at + i \in Nat /\ at + i <= total
        BY <4>1
      <4> QED BY <3>0, <4>2
    <3>2. Fits(start.index + k * w)
      BY <3>1, WordAssumption DEF Fits
    <3>3. StartOf(k) = TimestampForFrameIndex(sched.origin, start.index + k * w, r)
      BY <2>5
    <3>4. (start.index + k * w) * NanosPerSecond <= total * NanosPerSecond
      BY <3>1, ProductsAscend
    <3>5. ~Fits((start.index + k * w) * NanosPerSecond)
            => ~Fits(total * NanosPerSecond)
      <4>1. PICK x \in Nat : x = start.index + k * w
        BY <3>1
      <4>2. PICK y \in Nat, z \in Nat : y = x * NanosPerSecond /\ z = total * NanosPerSecond
        BY WordAssumption
      <4>3. y <= z
        BY <3>4, <4>1, <4>2
      <4>4. ~Fits(y) => ~Fits(z)
        BY <4>3, WordAssumption DEF Fits
      <4> QED BY <4>1, <4>2, <4>4
    <3> QED
      BY <2>1, <2>2, <2>3, <3>1, <3>2, <3>3, <3>5, FromOrigin
  <2> QED BY <2>4, <2>5
<1>3. CASE failing = {}
  <2>1. result.outcome = "Ok"
        /\ result.scheduler = [sched EXCEPT !.buffer_start = moved,
                                            !.samples = After(complete),
                                            !.expected = expected]
    BY <1>3 DEF Cut
  <2>2. After(complete) \in Seq(PlacedFrames)
        /\ Len(After(complete)) = Len(samples) - complete * w
    <3>1. complete \in 0 .. complete
      BY <1>1
    <3> HIDE DEF After, StartOf, complete, w
    <3> QED BY <1>2, <3>1
  <2>3. After(complete) # <<>> =>
          /\ moved \in Timestamps
          /\ moved.index + Len(After(complete)) = total
    <3>1. After(complete) # <<>> => StartOf(complete) # None
      <4>1. StartOf(0) # None
        BY PathAssumption DEF Timestamps
      <4>2. ASSUME complete # 0, After(complete) # <<>>, StartOf(complete) = None
            PROVE  FALSE
        <5>1. complete \in 1 .. complete
          BY <1>1, <4>2
        <5>2. complete \in failing
          <6> HIDE DEF After, StartOf, complete
          <6> QED BY <4>2, <5>1
        <5> QED BY <1>3, <5>2
      <4> HIDE DEF After, StartOf, complete
      <4> QED BY <4>1, <4>2
    <3> HIDE DEF After, StartOf, complete, w
    <3> QED BY <1>1, <1>2, <2>2, <3>1 DEF Timestamps
  <2>4. moved \in Timestamps \cup {None}
    BY <2>3
  <2> HIDE DEF moved, After, complete, w, result
  <2>5. result.scheduler \in Schedulers
    BY <2>1, <2>2, <2>4 DEF Schedulers
  <2>6. /\ result.scheduler.active = sched.active
        /\ result.scheduler.invalid = sched.invalid
        /\ result.scheduler.rate = sched.rate
        /\ result.scheduler.origin = sched.origin
        /\ result.scheduler.expected = expected
        /\ result.scheduler.samples = After(complete)
        /\ result.scheduler.buffer_start = moved
    BY <2>1 DEF Schedulers
  <2>7. moved \in Timestamps => moved # None
    BY PathAssumption DEF Timestamps
  <2> QED BY <2>1, <2>3, <2>5, <2>6, <2>7 DEF result
<1>4. CASE failing # {}
  <2>1. result.outcome = "CutOverflow"
    BY <1>4 DEF Cut, Refused
  <2>2. PICK k \in 1 .. complete : StartOf(k) = None
    BY <1>4
  <2> HIDE DEF StartOf, complete, result
  <2>3. ~Fits(total * NanosPerSecond)
    BY <1>1, <1>2, <2>2
  <2> QED BY <2>1, <2>3 DEF result
<1> QED BY <1>3, <1>4

-----------------------------------------------------------------------------
(* The inductive invariant.                                                *)

BuilderOK ==
  /\ builder \in [next_position: Int \cup {None}, next_index: Nat,
                  previous_qpc: Int \cup {None}]
  /\ rate \in Rates

\* While nothing of a device's stream was refused, the scheduler expects the
\* frame that the builder numbers next, at its time or one before, and retains
\* the frames up to it.
InStep ==
  /\ scheduler \in Schedulers
  /\ scheduler.invalid = None
  /\ scheduler.active \in {None, DeviceStream}
  /\ scheduler.active = None => builder.next_index = 0
  /\ scheduler.active = DeviceStream =>
       /\ scheduler.rate = rate /\ scheduler.origin = Timestamp(0, 0)
       /\ scheduler.expected # None
       /\ scheduler.expected.index = builder.next_index
       /\ scheduler.expected.time <= FrameTime(builder.next_index, rate)
       /\ FrameTime(builder.next_index, rate)
            <= scheduler.expected.time + TimestampTolerance
       /\ scheduler.samples # <<>> =>
            /\ scheduler.buffer_start # None
            /\ scheduler.buffer_start.index + Len(scheduler.samples)
                 = builder.next_index

PathInv ==
  /\ BuilderOK
  /\ feed = "Device" /\ refusal = None => InStep
  /\ DeviceFramesAreAccepted

\* The stream of a device is one of the streams.
LEMMA DeviceStreamType == DeviceStream \in Streams /\ DeviceStream # None
BY PathAssumption DEF DeviceStream

\* Packets begin at numbered positions.
LEMMA PositionsAreNumbers ==
  ASSUME BuilderOK
  PROVE  Positions \subseteq Int
<1>1. CASE builder.next_position = None
  BY <1>1, PathAssumption DEF Positions
<1>2. CASE builder.next_position # None
  <2>1. builder.next_position \in Int /\ builder.next_position + 1 \in Int
    BY <1>2 DEF BuilderOK
  <2>2. Positions = {builder.next_position, builder.next_position + 1}
    BY <1>2 DEF Positions
  <2> QED BY <2>1, <2>2
<1> QED BY <1>1, <1>2

\* What a packet that is built gives the scheduler.
LEMMA BuiltFrames ==
  ASSUME BuilderOK, builder.next_index <= FrameLimit,
         NEW packet \in Packets(PacketFrames, Positions, {0, 1}),
         BuildOutcome(builder, packet, rate) = "Ok"
  PROVE  LET frame == BuiltFrame(builder, packet, rate, DeviceStream)
             n == builder.next_index
             ahead == AdvanceTimestamp(frame.start, Len(frame.samples), frame.rate)
         IN  /\ packet.count \in Nat
             /\ frame.rate = rate /\ frame.start = Timestamp(n, FrameTime(n, rate))
             /\ frame.start \in Timestamps
             /\ frame.samples \in Seq(PlacedFrames)
             /\ Len(frame.samples) = packet.count
             /\ Fits(n + packet.count)
             /\ ahead \in Timestamps /\ ahead.index = n + packet.count
             /\ ahead.time <= FrameTime(n + packet.count, rate)
             /\ FrameTime(n + packet.count, rate) <= ahead.time + TimestampTolerance
<1> DEFINE frame == BuiltFrame(builder, packet, rate, DeviceStream)
           n == builder.next_index
           count == packet.count
           offset == (count * NanosPerSecond) \div rate
<1>1. /\ count \in Nat /\ n \in Nat /\ rate \in Nat \ {0} /\ rate \in Rates
      /\ count \in PacketFrames
  BY PathAssumption DEF Packets, BuilderOK
<1>2. packet.position \in Int
  BY PositionsAreNumbers DEF Packets
<1>3. Fits(n + count)
  BY BuiltPackets
<1>4. /\ frame.start = Timestamp(n, FrameTime(n, rate)) /\ frame.rate = rate
      /\ frame.samples = SampleFrames(DeviceStream, packet.position, count)
  BY DEF BuiltFrame, Frame
<1>5. /\ frame.samples \in Seq(PlacedFrames) /\ Len(frame.samples) = count
  <2>1. SampleFrames(DeviceStream, packet.position, count)
          \in [1 .. count -> PlacedFrames]
    BY <1>1, <1>2, DeviceStreamType DEF SampleFrames, PlacedFrames
  <2> HIDE DEF frame, count
  <2> QED BY <1>1, <1>4, <2>1
<1> HIDE DEF frame, n, count
<1>6. /\ FrameTime(n, rate) \in Nat /\ offset \in Nat
      /\ FrameTime(n + count, rate) \in Nat
      /\ FrameTime(n, rate) + offset <= FrameTime(n + count, rate)
      /\ FrameTime(n + count, rate) <= FrameTime(n, rate) + offset + TimestampTolerance
  BY <1>1, TimesAgree
<1>7. /\ Fits(count * NanosPerSecond)
      /\ Fits(FrameTime(n, rate) + offset)
  <2>1. /\ Fits(count * NanosPerSecond)
        /\ Fits(FrameTime(FrameLimit + count, rate))
    BY <1>1, RangeAssumption
  <2>2. /\ FrameTime(FrameLimit + count, rate) \in Nat
        /\ FrameTime(n + count, rate) <= FrameTime(FrameLimit + count, rate)
    <3> DEFINE more == FrameLimit - n
    <3>1. /\ more \in Nat /\ n + count \in Nat
          /\ (n + count) + more = FrameLimit + count
      BY <1>1, PathAssumption DEF n
    <3> HIDE DEF more
    <3>2. /\ FrameTime(n + count, rate) \in Nat
          /\ (more * NanosPerSecond) \div rate \in Nat
          /\ FrameTime((n + count) + more, rate) \in Nat
          /\ FrameTime(n + count, rate) + (more * NanosPerSecond) \div rate
               <= FrameTime((n + count) + more, rate)
      BY <1>1, <3>1, TimesAgree
    <3> QED BY <3>1, <3>2
  <2> HIDE DEF offset
  <2> QED BY <1>6, <2>1, <2>2, WordAssumption DEF Fits
<1>8. frame.start \in Timestamps
  BY <1>1, <1>4, <1>6 DEF Timestamp, Timestamps
<1>9. AdvanceTimestamp(frame.start, Len(frame.samples), frame.rate)
        = Timestamp(n + count, FrameTime(n, rate) + offset)
  <2>1. frame.start.index = n /\ frame.start.time = FrameTime(n, rate)
    BY <1>4 DEF Timestamp
  <2> QED
    BY <1>1, <1>3, <1>4, <1>5, <1>7, <1>8, <2>1, LaterExists
    DEF AdvanceTimestamp, Timestamps
<1> HIDE DEF offset
<1>10. /\ Timestamp(n + count, FrameTime(n, rate) + offset) \in Timestamps
       /\ Timestamp(n + count, FrameTime(n, rate) + offset).index = n + count
       /\ Timestamp(n + count, FrameTime(n, rate) + offset).time
            = FrameTime(n, rate) + offset
  BY <1>1, <1>6 DEF Timestamp, Timestamps
<1> QED
  BY <1>1, <1>3, <1>4, <1>5, <1>6, <1>8, <1>9, <1>10 DEF frame, n, count

\* A packet that the scheduler takes keeps the two in step; one it does not take
\* was too long, or its windows cannot be timed.
LEMMA TakenFrames ==
  ASSUME BuilderOK, InStep, builder.next_index <= FrameLimit,
         NEW packet \in Packets(PacketFrames, Positions, {0, 1}),
         BuildOutcome(builder, packet, rate) = "Ok",
         NEW result,
         result = Push(scheduler, DeviceStream,
                       BuiltFrame(builder, packet, rate, DeviceStream)),
         scheduler' = result.scheduler,
         builder'.next_index = builder.next_index + packet.count,
         rate' = rate
  PROVE  \/ result.outcome = "Ok" /\ InStep'
         \/ result.outcome \in {"OversizedInput", "WindowFrameCountOutOfRange"}
         \/ /\ result.outcome = "CutOverflow"
            /\ ~Fits((builder.next_index + packet.count) * NanosPerSecond)
<1> DEFINE frame == BuiltFrame(builder, packet, rate, DeviceStream)
           n == builder.next_index
           total == n + packet.count
           ahead == AdvanceTimestamp(frame.start, Len(frame.samples), frame.rate)
           answer == PushOutcome(scheduler, DeviceStream, frame)
           begun == IF Continues(scheduler, DeviceStream) THEN scheduler
                    ELSE Begun(scheduler, DeviceStream, frame)
           start == IF begun.samples = <<>> THEN frame.start ELSE begun.buffer_start
           samples == begun.samples \o frame.samples
<1>1. /\ packet.count \in Nat
      /\ frame.rate = rate /\ frame.start = Timestamp(n, FrameTime(n, rate))
      /\ frame.start \in Timestamps
      /\ frame.samples \in Seq(PlacedFrames) /\ Len(frame.samples) = packet.count
      /\ Fits(total)
      /\ ahead \in Timestamps /\ ahead.index = total
      /\ ahead.time <= FrameTime(total, rate)
      /\ FrameTime(total, rate) <= ahead.time + TimestampTolerance
  BY BuiltFrames
<1>2. /\ n \in Nat /\ total \in Nat /\ rate \in Nat \ {0} /\ rate \in Rates
  BY <1>1, PathAssumption DEF BuilderOK
<1>3. frame.start.index = n /\ frame.start.time = FrameTime(n, rate)
  BY <1>1 DEF Timestamp
<1>4. None \notin Timestamps
  BY PathAssumption DEF Timestamps
<1>5. Continues(scheduler, DeviceStream) <=> scheduler.active = DeviceStream
  BY DEF Continues
<1> HIDE DEF frame, ahead
<1>6. /\ answer \in {"Ok", "WindowFrameCountOutOfRange", "OversizedInput"}
      /\ answer = "Ok" => WindowFrames(rate) # 0
  <2>1. scheduler.invalid # DeviceStream
    BY DeviceStreamType DEF InStep
  <2>2. scheduler.active = DeviceStream =>
          /\ scheduler.rate = frame.rate
          /\ frame.start.index = scheduler.expected.index
          /\ ~TimesDiffer(scheduler.expected, frame.start)
    <3> SUFFICES ASSUME scheduler.active = DeviceStream
                 PROVE  /\ scheduler.rate = frame.rate
                        /\ frame.start.index = scheduler.expected.index
                        /\ ~TimesDiffer(scheduler.expected, frame.start)
      OBVIOUS
    <3>1. scheduler.expected \in Timestamps
      BY DEF InStep, Schedulers
    <3>2. scheduler.expected.time \in Nat /\ frame.start.time \in Nat
      BY <1>1, <3>1 DEF Timestamps
    <3>3. /\ scheduler.expected.time <= frame.start.time
          /\ frame.start.time <= scheduler.expected.time + TimestampTolerance
      BY <1>3 DEF InStep, n
    <3> QED
      BY <1>1, <1>3, <3>2, <3>3
      DEF InStep, TimesDiffer, Apart, TimestampTolerance
  <2>3. AdvanceTimestamp(frame.start, Len(frame.samples), frame.rate) # None
    BY <1>1, <1>4 DEF ahead
  <2> HIDE DEF answer
  <2> QED
    BY <1>1, <1>5, <2>1, <2>2, <2>3, ContinuingFrames DEF answer
<1>7. CASE answer # "Ok"
  <2>1. answer \in {"WindowFrameCountOutOfRange", "OversizedInput"}
    BY <1>6, <1>7
  <2> HIDE DEF answer
  <2>2. result.outcome = answer
    BY <2>1 DEF Push, answer, frame, Invalidating, Refused
  <2> QED BY <2>1, <2>2
<1>8. CASE answer = "Ok"
  <2>1. result = Cut(begun, DeviceStream, start, samples, rate, ahead)
    <3>1. Push(scheduler, DeviceStream, frame)
            = Cut(begun, DeviceStream, start, samples, frame.rate, ahead)
      BY <1>8 DEF Push, Invalidating, ahead
    <3> HIDE DEF start, samples, begun, answer
    <3> QED BY <1>1, <3>1 DEF frame
  <2>2. WindowFrames(rate) \in Nat \ {0}
    <3>1. WindowFrames(rate) # 0
      BY <1>6, <1>8
    <3>2. WindowDuration * rate \in Nat /\ NanosPerSecond \div 2 \in Nat
      BY <1>2, SchedulerAssumption, WordAssumption
    <3>3. WindowFrames(rate) \in Nat
      BY <3>2, WordAssumption, Quotient DEF WindowFrames
    <3> QED BY <3>1, <3>3
  <2>3. /\ begun \in Schedulers /\ begun.origin = Timestamp(0, 0)
        /\ begun.active = DeviceStream /\ begun.invalid = None /\ begun.rate = rate
        /\ begun.samples # <<>> =>
             /\ begun.buffer_start # None
             /\ begun.buffer_start.index + Len(begun.samples) = n
    <3>1. CASE scheduler.active = DeviceStream
      BY <1>5, <3>1 DEF InStep, n
    <3>2. CASE scheduler.active # DeviceStream
      <4>1. n = 0 /\ scheduler \in Schedulers
        BY <3>2 DEF InStep, n
      <4>2. FrameTime(0, rate) = 0
        BY <1>2, WordAssumption DEF FrameTime
      <4>3. begun = Begun(scheduler, DeviceStream, frame)
        BY <1>5, <3>2
      <4>4. begun = [active |-> DeviceStream, invalid |-> None, rate |-> rate,
                     origin |-> Timestamp(0, 0), expected |-> None,
                     buffer_start |-> None, samples |-> <<>>]
        <5>1. PICK half : half = [scheduler EXCEPT !.rate = None, !.origin = None,
                                                  !.expected = None]
          OBVIOUS
        <5>2. half = [active |-> scheduler.active, invalid |-> scheduler.invalid,
                      rate |-> None, origin |-> None, expected |-> None,
                      buffer_start |-> scheduler.buffer_start,
                      samples |-> scheduler.samples]
          BY <4>1, <5>1 DEF Schedulers
        <5>3. PICK c : c = Cleared(scheduler)
          OBVIOUS
        <5>4. c = [half EXCEPT !.buffer_start = None, !.samples = <<>>]
          BY <5>1, <5>3 DEF Cleared
        <5>5. c = [active |-> scheduler.active, invalid |-> scheduler.invalid,
                   rate |-> None, origin |-> None, expected |-> None,
                   buffer_start |-> None, samples |-> <<>>]
          BY <5>2, <5>4
        <5>6. Begun(scheduler, DeviceStream, frame)
                = [c EXCEPT !.active = DeviceStream, !.invalid = None,
                            !.rate = frame.rate, !.origin = frame.start]
          BY <5>3 DEF Begun
        <5>7. frame.rate = rate /\ frame.start = Timestamp(0, 0)
          BY <1>1, <4>1, <4>2
        <5> QED BY <4>3, <5>5, <5>6, <5>7
      <4>5. Timestamp(0, 0) \in Timestamps
        BY DEF Timestamp, Timestamps
      <4> HIDE DEF begun
      <4> QED BY <1>2, <4>4, <4>5, DeviceStreamType DEF Schedulers
    <3> QED BY <3>1, <3>2
  <2> HIDE DEF begun
  <2>4. /\ samples \in Seq(PlacedFrames)
        /\ Len(samples) = Len(begun.samples) + packet.count
        /\ begun.samples \in Seq(PlacedFrames)
    BY <1>1, <2>3, ConcatProperties DEF Schedulers
  <2>5. start \in Timestamps /\ start.index + Len(samples) = total
    <3>1. CASE begun.samples = <<>>
      BY <1>1, <1>2, <1>3, <2>4, <3>1
    <3>2. CASE begun.samples # <<>>
      <4>1. start = begun.buffer_start /\ start \in Timestamps
        BY <2>3, <3>2 DEF Schedulers
      <4>2. start.index \in Nat /\ Len(begun.samples) \in Nat
        BY <2>4, <4>1, LenProperties DEF Timestamps
      <4> QED BY <1>1, <1>2, <2>3, <2>4, <3>2, <4>1, <4>2
    <3> QED BY <3>1, <3>2
  <2> HIDE DEF start, samples
  <2>6. \/ /\ result.outcome = "Ok"
           /\ result.scheduler \in Schedulers
           /\ result.scheduler.active = DeviceStream
           /\ result.scheduler.invalid = None
           /\ result.scheduler.rate = rate
           /\ result.scheduler.origin = Timestamp(0, 0)
           /\ result.scheduler.expected = ahead
           /\ result.scheduler.samples # <<>> =>
                /\ result.scheduler.buffer_start # None
                /\ result.scheduler.buffer_start.index
                     + Len(result.scheduler.samples) = total
        \/ result.outcome = "CutOverflow" /\ ~Fits(total * NanosPerSecond)
    <3> HIDE DEF total
    <3>1. LET after == Cut(begun, DeviceStream, start, samples, rate, ahead).scheduler
          IN  \/ /\ Cut(begun, DeviceStream, start, samples, rate, ahead).outcome = "Ok"
                 /\ after \in Schedulers
                 /\ after.active = begun.active /\ after.invalid = begun.invalid
                 /\ after.rate = begun.rate /\ after.origin = begun.origin
                 /\ after.expected = ahead
                 /\ after.samples # <<>> =>
                      /\ after.buffer_start # None
                      /\ after.buffer_start.index + Len(after.samples) = total
              \/ /\ Cut(begun, DeviceStream, start, samples, rate, ahead).outcome
                      = "CutOverflow"
                 /\ ~Fits(total * NanosPerSecond)
      BY <1>1, <1>2, <2>2, <2>3, <2>4, <2>5, CutsAreTimed
    <3> QED BY <2>1, <2>3, <3>1
  <2>7. CASE result.outcome = "Ok"
    <3>1. InStep'
      BY <1>1, <1>2, <1>4, <2>6, <2>7, DeviceStreamType DEF InStep, total, n
    <3> QED BY <2>7, <3>1
  <2> QED BY <2>6, <2>7
<1> QED BY <1>7, <1>8

\* A packet of a device, built or not.
LEMMA PacketsKeepPath ==
  ASSUME PathInv, DevicePacket
  PROVE  PathInv'
<1> USE DEF PathInv
<1>1. PICK packet \in Packets(PacketFrames, Positions, {0, 1}) :
        LET frame  == BuiltFrame(builder, packet, rate, DeviceStream)
            result == Push(scheduler, DeviceStream, frame)
        IN  /\ built' = BuildOutcome(builder, packet, rate)
            /\ builder' = Built(builder, packet, rate)
            /\ IF built' = "Ok"
                 THEN /\ scheduler' = result.scheduler
                      /\ Records(DeviceStream, result, Encoded(result.windows))
                 ELSE UNCHANGED <<scheduler, refusal>>
  BY DEF DevicePacket
<1>2. builder.next_index <= FrameLimit /\ UNCHANGED <<feed, rate>> /\ feed = "Device"
  BY DEF DevicePacket
<1>3. builder.next_index \in Nat /\ builder \in [next_position: Int \cup {None},
                        next_index: Nat, previous_qpc: Int \cup {None}]
  BY DEF BuilderOK
<1>4. packet.count \in Nat /\ packet.qpc \in Int
  <2>1. packet.count \in PacketFrames /\ packet.qpc \in {0, 1}
    BY DEF Packets
  <2>2. PacketFrames \subseteq Nat
    BY PathAssumption
  <2>3. packet.qpc \in Int
    BY <2>1
  <2> QED BY <2>1, <2>2, <2>3
<1>5. packet.position \in Int
  BY PositionsAreNumbers DEF Packets
<1>6. CASE built' # "Ok"
  <2>1. builder'.next_index = builder.next_index /\ BuilderOK'
    BY <1>1, <1>2, <1>3, <1>4, <1>5, <1>6 DEF Built, BuilderOK
  <2>2. UNCHANGED <<scheduler, refusal>>
    BY <1>1, <1>6
  <2> QED
    BY <1>2, <2>1, <2>2 DEF InStep, DeviceFramesAreAccepted, Schedulers
<1>7. CASE built' = "Ok"
  <2> DEFINE result == Push(scheduler, DeviceStream,
                            BuiltFrame(builder, packet, rate, DeviceStream))
             total == builder.next_index + packet.count
  <2>1. builder'.next_index = total /\ BuilderOK'
    <3>1. builder' = [builder EXCEPT
                        !.next_position = packet.position + packet.count,
                        !.next_index = @ + packet.count,
                        !.previous_qpc = packet.qpc]
      BY <1>1, <1>3, <1>7 DEF Built
    <3>2. packet.position + packet.count \in Int /\ total \in Nat
      BY <1>3, <1>4, <1>5
    <3> QED BY <1>2, <1>3, <1>4, <3>1, <3>2 DEF BuilderOK
  <2>2. /\ scheduler' = result.scheduler
        /\ refusal' = IF refusal = None /\ result.outcome # "Ok"
                      THEN result.outcome ELSE refusal
    BY <1>1, <1>7 DEF Records
  <2>3. BuildOutcome(builder, packet, rate) = "Ok"
    BY <1>1, <1>7
  <2> HIDE DEF result
  <2>4. CASE refusal = None
    <3>1. \/ result.outcome = "Ok" /\ InStep'
          \/ result.outcome \in {"OversizedInput", "WindowFrameCountOutOfRange"}
          \/ result.outcome = "CutOverflow" /\ ~Fits(total * NanosPerSecond)
      BY <1>2, <2>1, <2>2, <2>3, <2>4, TakenFrames DEF result
    <3> HIDE DEF total
    <3>2. DeviceFramesAreAccepted'
      BY <2>1, <2>2, <2>4, <3>1, RefusalAssumption
      DEF DeviceFramesAreAccepted, Untimely
    <3>3. refusal' = None => InStep'
      BY <2>2, <2>4, <3>1, RefusalAssumption DEF Untimely
    <3> QED BY <2>1, <3>2, <3>3
  <2>5. CASE refusal # None
    <3>1. refusal' = refusal
      BY <2>2, <2>5
    <3>2. /\ total \in Nat /\ builder.next_index <= total
      BY <1>3, <1>4
    <3>3. ~Fits(builder.next_index * NanosPerSecond) => ~Fits(total * NanosPerSecond)
      <4> HIDE DEF total
      <4> QED BY <1>3, <3>2, ProductsAscend, WordAssumption DEF Fits
    <3> HIDE DEF total
    <3> QED
      BY <1>2, <2>1, <2>5, <3>1, <3>3 DEF DeviceFramesAreAccepted
  <2> QED BY <2>4, <2>5
<1> QED BY <1>6, <1>7

\* The path begins in step.
LEMMA PathBegins ==
  ASSUME Init
  PROVE  PathInv
<1>1. BuilderOK
  BY DEF Init, NewBuilder, BuilderOK
<1>2. InStep
  BY DeviceStreamType, EmptySeq
  DEF Init, NewScheduler, NewBuilder, InStep, Schedulers
<1> QED
  BY <1>1, <1>2, RefusalAssumption
  DEF Init, PathInv, DeviceFramesAreAccepted, Untimely

\* A step keeps the device's frames in step.
LEMMA StepsKeepPath ==
  ASSUME PathInv, [Next]_vars
  PROVE  PathInv'
<1>1. CASE LibraryFrame
  BY <1>1 DEF LibraryFrame, PathInv, BuilderOK, DeviceFramesAreAccepted
<1>2. CASE UNCHANGED vars
  BY <1>2 DEF vars, PathInv, BuilderOK, InStep, DeviceFramesAreAccepted, Schedulers
<1> QED BY <1>1, <1>2, PacketsKeepPath DEF Next

\* The frames of a device are accepted, whatever the rate, the packets' lengths
\* and the width of the word: the scheduler's rounding never refuses what the
\* builder accepted.
THEOREM DeviceFramesPass == Spec => []DeviceFramesAreAccepted
<1>1. Init => PathInv
  BY PathBegins
<1>2. PathInv /\ [Next]_vars => PathInv'
  BY StepsKeepPath
<1>3. PathInv => DeviceFramesAreAccepted
  BY DEF PathInv
<1> QED BY <1>1, <1>2, <1>3, PTL DEF Spec

-----------------------------------------------------------------------------
(* Sample frames.                                                          *)

\* Sample frames are a sequence of placed frames, from a position on.
LEMMA FramesAreTyped ==
  ASSUME NEW stream \in Streams, NEW position \in Int, NEW count \in Nat
  PROVE  /\ SampleFrames(stream, position, count) \in Seq(PlacedFrames)
         /\ Len(SampleFrames(stream, position, count)) = count
         /\ \A i \in 1 .. count : SampleFrames(stream, position, count)[i]
                                    = [stream |-> stream, at |-> position + i - 1]
<1>1. SampleFrames(stream, position, count) \in [1 .. count -> PlacedFrames]
  BY DEF SampleFrames, PlacedFrames
<1>2. \A i \in 1 .. count : SampleFrames(stream, position, count)[i]
                              = [stream |-> stream, at |-> position + i - 1]
  BY DEF SampleFrames
<1> QED BY <1>1, <1>2

\* The frames from a position on, and those that follow them, are those up to the
\* end of both.
LEMMA FramesJoin ==
  ASSUME NEW stream \in Streams, NEW position \in Int, NEW m \in Nat, NEW n \in Nat
  PROVE  SampleFrames(stream, position, m) \o SampleFrames(stream, position + m, n)
           = SampleFrames(stream, position, m + n)
<1> DEFINE s == SampleFrames(stream, position, m)
           t == SampleFrames(stream, position + m, n)
           u == SampleFrames(stream, position, m + n)
<1>1. /\ s \in Seq(PlacedFrames) /\ Len(s) = m
      /\ \A i \in 1 .. m : s[i] = [stream |-> stream, at |-> position + i - 1]
  BY FramesAreTyped
<1>2. /\ t \in Seq(PlacedFrames) /\ Len(t) = n
      /\ \A i \in 1 .. n : t[i] = [stream |-> stream, at |-> position + m + i - 1]
  BY FramesAreTyped
<1>3. /\ u \in Seq(PlacedFrames) /\ Len(u) = m + n
      /\ \A i \in 1 .. m + n : u[i] = [stream |-> stream, at |-> position + i - 1]
  BY FramesAreTyped
<1> HIDE DEF s, t, u
<1>4. /\ s \o t \in Seq(PlacedFrames) /\ Len(s \o t) = m + n
      /\ \A i \in 1 .. m + n : (s \o t)[i] = IF i <= m THEN s[i] ELSE t[i - m]
  <2>1. PICK a \in Seq(PlacedFrames), b \in Seq(PlacedFrames) : a = s /\ b = t
    BY <1>1, <1>2
  <2>2. /\ a \o b \in Seq(PlacedFrames) /\ Len(a \o b) = Len(a) + Len(b)
        /\ \A i \in 1 .. Len(a) + Len(b) :
             (a \o b)[i] = IF i <= Len(a) THEN a[i] ELSE b[i - Len(a)]
    BY ConcatProperties
  <2>3. Len(a) = m /\ Len(b) = n
    BY <1>1, <1>2, <2>1
  <2> QED BY <2>1, <2>2, <2>3
<1>5. ASSUME NEW i \in 1 .. m + n PROVE (s \o t)[i] = u[i]
  <2>1. CASE i <= m
    BY <1>1, <1>3, <1>4, <2>1
  <2>2. CASE i > m
    <3>1. PICK k \in 1 .. n : k = i - m
      BY <2>2
    <3>2. (s \o t)[i] = t[k]
      BY <1>4, <2>2, <3>1
    <3>3. PICK x \in Int : x = position + m + k - 1
      OBVIOUS
    <3>4. t[k] = [stream |-> stream, at |-> x]
      BY <1>2, <3>3
    <3>5. position + i - 1 = x
      BY <3>1, <3>3
    <3>6. u[i] = [stream |-> stream, at |-> x]
      BY <1>3, <3>5
    <3> QED BY <3>2, <3>4, <3>6
  <2>3. i <= m \/ i > m
    OBVIOUS
  <2> QED BY <2>1, <2>2, <2>3
<1>6. s \o t = u
  BY <1>3, <1>4, <1>5, SeqEqual
<1> QED BY <1>6 DEF s, t, u

\* Two sequences put together.
Joins(s, t, u) == s \o t = u

\* The same, with every place and length named.
LEMMA FramesAppend ==
  ASSUME NEW stream \in Streams, NEW place \in Int, NEW rest \in Nat, NEW count \in Nat,
         NEW middle \in Int, middle = place + rest,
         NEW total \in Nat, total = rest + count
  PROVE  Joins(SampleFrames(stream, place, rest), SampleFrames(stream, middle, count),
               SampleFrames(stream, place, total))
<1>1. SampleFrames(stream, place, rest) \o SampleFrames(stream, place + rest, count)
        = SampleFrames(stream, place, rest + count)
  BY FramesJoin
<1> QED BY <1>1 DEF Joins

\* What lies between two places of a sequence.
Section(s, i, j) == SubSeq(s, i + 1, j)

\* A section of the frames from a position on are the frames from the section's
\* place on.
LEMMA FramesCut ==
  ASSUME NEW stream \in Streams, NEW position \in Int, NEW count \in Nat,
         NEW i \in Nat, NEW j \in Nat, i <= j, j <= count,
         NEW place \in Int, place = position + i, NEW length \in Nat, length = j - i
  PROVE  Section(SampleFrames(stream, position, count), i, j)
           = SampleFrames(stream, place, length)
<1> DEFINE s == SampleFrames(stream, position, count)
           t == SubSeq(s, i + 1, j)
           u == SampleFrames(stream, place, length)
<1>1. /\ s \in Seq(PlacedFrames) /\ Len(s) = count
      /\ \A k \in 1 .. count : s[k] = [stream |-> stream, at |-> position + k - 1]
  BY FramesAreTyped
<1>2. /\ u \in Seq(PlacedFrames) /\ Len(u) = j - i
      /\ \A k \in 1 .. j - i : u[k] = [stream |-> stream, at |-> position + i + k - 1]
  BY FramesAreTyped
<1> HIDE DEF s, u
<1>3. \A k \in i + 1 .. j : s[k] \in PlacedFrames
  BY <1>1, ElementOfSeq
<1>4. /\ t \in Seq(PlacedFrames) /\ Len(t) = j - i
      /\ \A k \in 1 .. j - i : t[k] = s[i + k]
  <2>1. /\ t \in Seq(PlacedFrames)
        /\ Len(t) = IF i + 1 <= j THEN j - (i + 1) + 1 ELSE 0
        /\ \A k \in 1 .. j - (i + 1) + 1 : t[k] = s[i + 1 + k - 1]
    BY <1>3, SubSeqProperties
  <2> HIDE DEF t
  <2> QED BY <2>1
<1> HIDE DEF t
<1>5. ASSUME NEW k \in 1 .. j - i PROVE t[k] = u[k]
  <2>1. i + k \in 1 .. count /\ position + (i + k) - 1 = position + i + k - 1
    OBVIOUS
  <2> QED BY <1>1, <1>2, <1>4, <2>1
<1>6. t = u
  BY <1>2, <1>4, <1>5, SeqEqual
<1> QED BY <1>6 DEF s, t, u, Section

\* Windows that lie one after the other, put together.
LEMMA WindowsJoin ==
  ASSUME NEW stream \in Streams, NEW position \in Int, NEW w \in Nat, NEW count \in Nat,
         NEW windows \in Seq(Seq(PlacedFrames)), Len(windows) = count,
         \A k \in 1 .. count :
           windows[k] = SampleFrames(stream, position + (k - 1) * w, w)
  PROVE  FlattenSeq(windows) = SampleFrames(stream, position, count * w)
<1> DEFINE f == [k \in 1 .. count |-> SampleFrames(stream, position, k * w)]
           flatten == CHOOSE g : g = [i \in 1 .. count |->
                        IF i = 1 THEN windows[i] ELSE g[i - 1] \o windows[i]]
<1>1. ASSUME NEW k \in 1 .. count
      PROVE  f[k] = IF k = 1 THEN windows[k] ELSE f[k - 1] \o windows[k]
  <2>1. CASE k = 1
    BY <2>1
  <2>2. CASE k # 1
    <3>1. PICK m \in 1 .. count : m = k - 1
      BY <2>2
    <3>2. m * w \in Nat /\ m * w + w = k * w
      BY <3>1
    <3>3. f[k] = SampleFrames(stream, position, m * w + w)
      BY <3>2
    <3>4. f[m] = SampleFrames(stream, position, m * w)
      OBVIOUS
    <3>5. windows[k] = SampleFrames(stream, position + m * w, w)
      BY <3>1
    <3>6. PICK n \in Nat : n = m * w
      BY <3>2
    <3> HIDE DEF f
    <3>7. SampleFrames(stream, position, n) \o SampleFrames(stream, position + n, w)
            = SampleFrames(stream, position, n + w)
      BY <3>6, FramesJoin
    <3>8. f[k] = f[m] \o windows[k]
      BY <3>3, <3>4, <3>5, <3>6, <3>7
    <3> QED BY <2>2, <3>1, <3>8
  <2> QED BY <2>1, <2>2
<1>2. f = [i \in 1 .. count |-> IF i = 1 THEN windows[i] ELSE f[i - 1] \o windows[i]]
  BY <1>1
<1>3. flatten = [i \in 1 .. count |->
                  IF i = 1 THEN windows[i] ELSE flatten[i - 1] \o windows[i]]
  BY <1>2
<1>4. CASE count = 0
  <2>1. FlattenSeq(windows) = windows /\ windows = <<>>
    BY <1>4 DEF FlattenSeq
  <2>2. SampleFrames(stream, position, 0) = <<>>
    BY DEF SampleFrames
  <2> QED BY <1>4, <2>1, <2>2
<1>5. CASE count # 0
  <2> DEFINE T == {n \in Nat : n + 1 <= count => flatten[n + 1] = f[n + 1]}
  <2>1. FlattenSeq(windows) = flatten[count]
    BY <1>5 DEF FlattenSeq
  <2> HIDE DEF f, flatten
  <2>2. 0 \in T
    <3> SUFFICES ASSUME 1 <= count PROVE flatten[1] = f[1]
      OBVIOUS
    <3>1. 1 \in 1 .. count
      OBVIOUS
    <3>2. flatten[1] = windows[1]
      BY <1>3, <3>1
    <3>3. f[1] = windows[1]
      BY <1>1, <3>1
    <3> QED BY <3>2, <3>3
  <2>3. ASSUME NEW n \in T PROVE n + 1 \in T
    <3> SUFFICES ASSUME n + 1 + 1 <= count
                 PROVE  flatten[n + 1 + 1] = f[n + 1 + 1]
      OBVIOUS
    <3>1. PICK k \in 1 .. count : k = n + 1 + 1 /\ k - 1 = n + 1 /\ k # 1
      OBVIOUS
    <3>2. flatten[k - 1] = f[k - 1]
      BY <3>1
    <3>3. flatten[k] = flatten[k - 1] \o windows[k] /\ f[k] = f[k - 1] \o windows[k]
      BY <1>1, <1>3, <3>1
    <3> QED BY <3>1, <3>2, <3>3
  <2>4. count - 1 \in T
    <3>1. T \in SUBSET Nat /\ \A n \in T : n + 1 \in T
      BY <2>3
    <3>2. count - 1 \in Nat
      BY <1>5
    <3> HIDE DEF T
    <3> QED BY <2>2, <3>1, <3>2, NumberInduction
  <2>5. flatten[count] = f[count]
    BY <1>5, <2>4
  <2> QED BY <1>5, <2>1, <2>5 DEF f
<1> QED BY <1>4, <1>5

-----------------------------------------------------------------------------
(* What a cut gives and keeps.                                             *)

Windows == [stream: Streams, start: Timestamps, samples: Seq(PlacedFrames)]

\* A window holds the frames from a place on, under their number.
Holds(window, stream, index, offset, r) ==
  /\ window.samples = SampleFrames(stream, index + offset, WindowFrames(r))
  /\ window.start.index = index

\* A timestamp is the one of its frame in a stream that began at zero.
OnTime(t, r) == t.time = FrameTime(t.index, r)

\* A timestamp counted from an origin has the index it was asked for, and the
\* time of its frame if the origin was the beginning.
LEMMA CountedFromOrigin ==
  ASSUME NEW origin \in Timestamps, NEW index \in Nat, origin.index <= index,
         NEW r \in Nat \ {0},
         TimestampForFrameIndex(origin, index, r) # None
  PROVE  LET t == TimestampForFrameIndex(origin, index, r) IN
         /\ t \in Timestamps /\ t.index = index
         /\ origin = Timestamp(0, 0) => OnTime(t, r)
<1> DEFINE frames == index - origin.index
           time == (frames * NanosPerSecond) \div r
<1>1. origin.index \in Nat /\ origin.time \in Nat /\ frames \in Nat
  BY DEF Timestamps
<1>2. frames * NanosPerSecond \in Nat
  <2> HIDE DEF frames
  <2> QED BY <1>1, WordAssumption
<1>3. time \in Nat
  <2>1. PICK x \in Nat : x = frames * NanosPerSecond
    BY <1>2
  <2> HIDE DEF frames
  <2> QED BY <2>1, Quotient
<1>4. TimestampForFrameIndex(origin, index, r)
        = Timestamp(origin.index + frames, origin.time + time)
  BY DEF TimestampForFrameIndex, Later, FrameOffset
<1>5. origin.index + frames = index
  BY <1>1
<1>6. Timestamp(index, origin.time + time) \in Timestamps
  <2> HIDE DEF time
  <2> QED BY <1>1, <1>3 DEF Timestamps, Timestamp
<1>7. ASSUME origin = Timestamp(0, 0) PROVE origin.time + time = FrameTime(index, r)
  <2>1. origin.time = 0 /\ frames = index
    BY <1>7 DEF Timestamp
  <2>2. time = FrameTime(index, r)
    BY <2>1 DEF FrameTime
  <2> HIDE DEF time
  <2> QED BY <1>3, <2>1, <2>2
<1> HIDE DEF time, frames
<1> QED BY <1>4, <1>5, <1>6, <1>7 DEF Timestamp, OnTime

\* Windows cut from contiguous frames: so many of them, one after the other and
\* each labelled with the number of its first frame, and a rest that follows.
CutGives(sched, stream, start, offset, r, expected, result, complete, rest, moved) ==
  LET w == WindowFrames(r)
      timely == sched.origin = Timestamp(0, 0) /\ OnTime(start, r)
  IN  /\ rest < w
      /\ result.scheduler = [sched EXCEPT
           !.buffer_start = moved,
           !.samples = SampleFrames(stream, start.index + complete * w + offset, rest),
           !.expected = expected]
      /\ rest # 0 =>
           /\ moved \in Timestamps
           /\ moved.index = start.index + complete * w
           /\ timely => OnTime(moved, r)
      /\ result.windows \in Seq(Windows) /\ Len(result.windows) = complete
      /\ \A k \in 1 .. complete :
           /\ Holds(result.windows[k], stream, start.index + (k - 1) * w, offset, r)
           /\ timely => OnTime(result.windows[k].start, r)

CutInto(sched, stream, start, offset, count, r, expected, result) ==
  \E complete \in Nat, rest \in Nat, moved \in Timestamps \cup {None} :
    /\ complete * WindowFrames(r) + rest = count
    /\ CutGives(sched, stream, start, offset, r, expected, result,
                complete, rest, moved)

\* A cut that is not refused gives the windows and the rest of its frames.
LEMMA CutsAreContiguous ==
  ASSUME NEW sched, sched.origin \in Timestamps, NEW stream \in Streams,
         NEW start \in Timestamps, sched.origin.index <= start.index,
         NEW offset \in Int, NEW count \in Nat, NEW r \in Nat \ {0},
         WindowFrames(r) \in Nat \ {0}, NEW expected,
         NEW samples, samples = SampleFrames(stream, start.index + offset, count),
         NEW result, result = Cut(sched, stream, start, samples, r, expected),
         result.outcome = "Ok"
  PROVE  CutInto(sched, stream, start, offset, count, r, expected, result)
<1> DEFINE w == WindowFrames(r)
           complete == Len(samples) \div w
           After(k) == SubSeq(samples, k * w + 1, Len(samples))
           StartOf(k) ==
             IF k = 0 THEN start
             ELSE TimestampForFrameIndex(sched.origin, start.index + k * w, r)
           failing == {k \in 1 .. complete : After(k) # <<>> /\ StartOf(k) = None}
           moved == IF After(complete) = <<>> THEN None ELSE StartOf(complete)
           rest == count - complete * w
           Window(k) == [stream |-> stream, start |-> StartOf(k - 1),
                         samples |-> SubSeq(samples, (k - 1) * w + 1, k * w)]
<1>1. failing = {}
  BY DEF Cut, Refused
<1>2. /\ result.windows = [k \in 1 .. complete |-> Window(k)]
      /\ result.scheduler = [sched EXCEPT !.buffer_start = moved,
                                          !.samples = After(complete),
                                          !.expected = expected]
  BY <1>1 DEF Cut
<1>3. start.index \in Nat /\ sched.origin.index \in Nat
  BY DEF Timestamps
<1>4. PICK from \in Int : from = start.index + offset
  BY <1>3
<1>5. /\ samples = SampleFrames(stream, from, count)
      /\ samples \in Seq(PlacedFrames) /\ Len(samples) = count
  BY <1>4, FramesAreTyped
<1> HIDE DEF w
<1>6. w \in Nat \ {0}
  BY DEF w
<1>7. /\ complete \in Nat /\ w * complete <= count /\ count < w * complete + w
  BY <1>5, <1>6, Quotient
<1> HIDE DEF complete
<1>8. complete * w \in Nat /\ complete * w <= count /\ rest \in Nat /\ rest < w
      /\ complete * w + rest = count
  BY <1>6, <1>7
<1>9. ASSUME NEW k \in 0 .. complete
      PROVE  /\ k * w \in Nat /\ k * w <= count
             /\ After(k) = SampleFrames(stream, from + k * w, count - k * w)
             /\ After(k) \in Seq(PlacedFrames) /\ Len(After(k)) = count - k * w
  <2>1. k * w \in Nat /\ k * w <= complete * w
    BY <1>6, <1>7
  <2>2. PICK i \in Nat : i = k * w
    BY <2>1
  <2>3. i <= count
    BY <1>8, <2>1, <2>2
  <2>4. PICK place \in Int, length \in Nat : place = from + i /\ length = count - i
    BY <2>3
  <2>5. After(k) = SampleFrames(stream, from + i, count - i)
    <3>1. Section(SampleFrames(stream, from, count), i, count)
            = SampleFrames(stream, place, length)
      BY <2>3, <2>4, FramesCut
    <3> QED BY <1>5, <2>2, <2>4, <3>1 DEF Section
  <2>6. from + i \in Int /\ count - i \in Nat
    BY <1>4, <2>3
  <2>7. /\ SampleFrames(stream, from + i, count - i) \in Seq(PlacedFrames)
        /\ Len(SampleFrames(stream, from + i, count - i)) = count - i
    BY <2>6, FramesAreTyped
  <2> HIDE DEF After
  <2> QED BY <2>2, <2>3, <2>5, <2>7
<1>10. ASSUME NEW k \in 0 .. complete, StartOf(k) # None
       PROVE  /\ StartOf(k) \in Timestamps /\ StartOf(k).index = start.index + k * w
              /\ sched.origin = Timestamp(0, 0) /\ OnTime(start, r)
                   => OnTime(StartOf(k), r)
  <2>1. CASE k = 0
    BY <1>3, <1>6, <2>1
  <2>2. CASE k # 0
    <3>1. PICK i \in Nat : i = k * w
      BY <1>9
    <3>2. start.index + i \in Nat /\ sched.origin.index <= start.index + i
      BY <1>3
    <3>3. StartOf(k) = TimestampForFrameIndex(sched.origin, start.index + i, r)
      BY <2>2, <3>1
    <3> HIDE DEF StartOf
    <3> QED BY <1>10, <3>1, <3>2, <3>3, CountedFromOrigin
  <2> QED BY <2>1, <2>2
<1>11. StartOf(0) # None /\ None \notin Timestamps
  BY PathAssumption DEF Timestamps
<1>12. ASSUME NEW k \in 0 .. complete, After(k) # <<>>
       PROVE  StartOf(k) # None
  <2>1. CASE k = 0
    BY <1>11, <2>1
  <2>2. CASE k # 0
    <3>1. k \in 1 .. complete
      BY <1>7, <2>2
    <3> HIDE DEF After, StartOf
    <3> QED BY <1>1, <1>12, <3>1
  <2> QED BY <2>1, <2>2
<1>13. rest # 0 =>
         /\ moved \in Timestamps
         /\ moved.index = start.index + complete * w
         /\ sched.origin = Timestamp(0, 0) /\ OnTime(start, r) => OnTime(moved, r)
  <2> SUFFICES ASSUME rest # 0
               PROVE  /\ moved \in Timestamps
                      /\ moved.index = start.index + complete * w
                      /\ sched.origin = Timestamp(0, 0) /\ OnTime(start, r)
                           => OnTime(moved, r)
    OBVIOUS
  <2>1. complete \in 0 .. complete
    BY <1>7
  <2>2. Len(After(complete)) # 0
    <3> HIDE DEF After
    <3> QED BY <1>9, <2>1
  <2>3. After(complete) # <<>>
    <3> HIDE DEF After
    <3> QED BY <2>2
  <2>4. moved = StartOf(complete)
    BY <2>3
  <2>5. StartOf(complete) # None
    <3> HIDE DEF After, StartOf
    <3> QED BY <1>12, <2>1, <2>3
  <2> HIDE DEF StartOf, moved
  <2> QED BY <1>10, <2>1, <2>4, <2>5
<1>14. ASSUME NEW k \in 1 .. complete
       PROVE  /\ Window(k) \in Windows
              /\ Holds(Window(k), stream, start.index + (k - 1) * w, offset, r)
              /\ sched.origin = Timestamp(0, 0) /\ OnTime(start, r)
                   => OnTime(Window(k).start, r)
  <2>1. PICK m \in 0 .. complete : m = k - 1 /\ k = m + 1 /\ m < complete
    BY <1>7
  <2>2. PICK i \in Nat : i = m * w
    BY <1>9
  <2>3. k * w = i + w /\ (k - 1) * w = i /\ k \in 0 .. complete
    BY <1>6, <2>1, <2>2
  <2>4. i + w <= count
    BY <1>9, <2>3
  <2>5. After(m) # <<>>
    <3>1. Len(After(m)) = count - i
      <4> HIDE DEF After
      <4> QED BY <1>9, <2>2
    <3>2. Len(After(m)) # 0
      <4> HIDE DEF After
      <4> QED BY <1>6, <2>4, <3>1
    <3> HIDE DEF After
    <3> QED BY <3>2
  <2>6. /\ StartOf(m) \in Timestamps /\ StartOf(m).index = start.index + i
        /\ sched.origin = Timestamp(0, 0) /\ OnTime(start, r) => OnTime(StartOf(m), r)
    <3> HIDE DEF After, StartOf
    <3> QED BY <1>10, <1>12, <2>2, <2>5
  <2>7. SubSeq(samples, (k - 1) * w + 1, k * w)
          = SampleFrames(stream, from + i, w)
    <3>1. PICK j \in Nat : j = i + w
      BY <1>6
    <3>2. i <= j /\ j <= count /\ j - i = w
      BY <1>6, <2>4, <3>1
    <3>3. PICK place \in Int : place = from + i
      OBVIOUS
    <3>4. Section(SampleFrames(stream, from, count), i, j)
            = SampleFrames(stream, place, w)
      BY <1>6, <3>2, <3>3, FramesCut
    <3> QED BY <1>5, <2>3, <3>1, <3>3, <3>4 DEF Section
  <2>8. from + i = start.index + i + offset
        /\ start.index + i + offset \in Int
    BY <1>3, <1>4
  <2>9. SampleFrames(stream, start.index + i + offset, w) \in Seq(PlacedFrames)
    BY <1>6, <2>8, FramesAreTyped
  <2>10. Window(k) = [stream |-> stream, start |-> StartOf(m),
                      samples |-> SampleFrames(stream, start.index + i + offset, w)]
    BY <2>1, <2>7, <2>8
  <2> HIDE DEF Window, StartOf
  <2> QED
    BY <2>3, <2>6, <2>9, <2>10 DEF Windows, Holds, w
<1>15. /\ result.windows \in Seq(Windows) /\ Len(result.windows) = complete
       /\ \A k \in 1 .. complete : result.windows[k] = Window(k)
  <2>1. [k \in 1 .. complete |-> Window(k)] \in [1 .. complete -> Windows]
    <3> HIDE DEF Window
    <3> QED BY <1>14
  <2> HIDE DEF Window
  <2> QED BY <1>2, <1>7, <2>1
<1>16. result.scheduler = [sched EXCEPT
         !.buffer_start = moved,
         !.samples = SampleFrames(stream, start.index + complete * w + offset, rest),
         !.expected = expected]
  <2>1. complete \in 0 .. complete
    BY <1>7
  <2>2. from + complete * w = start.index + complete * w + offset
    BY <1>3, <1>4, <1>8
  <2>3. After(complete)
          = SampleFrames(stream, from + complete * w, rest)
    <3> HIDE DEF After
    <3> QED BY <1>9, <2>1
  <2> HIDE DEF After, moved, rest
  <2> QED BY <1>2, <2>2, <2>3
<1>17. moved \in Timestamps \cup {None}
  <2>1. complete \in 0 .. complete
    BY <1>7
  <2>2. After(complete) = <<>> \/ StartOf(complete) \in Timestamps
    <3> HIDE DEF After, StartOf
    <3> QED BY <1>10, <1>12, <2>1
  <2> HIDE DEF After, StartOf
  <2> QED BY <2>2
<1> HIDE DEF Window, After, StartOf, moved, rest, failing
<1>18. CutGives(sched, stream, start, offset, r, expected, result, complete, rest, moved)
  BY <1>8, <1>13, <1>14, <1>15, <1>16 DEF CutGives, w
<1> QED BY <1>7, <1>8, <1>17, <1>18 DEF w, CutInto

-----------------------------------------------------------------------------
(* How the windows of a stream lie.                                        *)

NumberedWindows == [number: Nat, window: Windows]

\* A scheduler has the fields of one.
Formed(sc) ==
  sc = [active |-> sc.active, invalid |-> sc.invalid, rate |-> sc.rate,
        origin |-> sc.origin, expected |-> sc.expected,
        buffer_start |-> sc.buffer_start, samples |-> sc.samples]

\* Windows numbered from a number on.
Numbered(windows, number) ==
  [k \in DOMAIN windows |-> [number |-> number + k - 1, window |-> windows[k]]]

\* Windows given of a stream follow one another from the stream's first index.
Follow(given, stream, first, offset, r) ==
  \A k \in 1 .. Len(given) :
    Holds(given[k].window, stream, first + (k - 1) * WindowFrames(r), offset, r)

\* They bear the times of their frames, and consecutive numbers.
Punctual(given, r) ==
  \A k \in 1 .. Len(given) :
    OnTime(given[k].window.start, r) /\ given[k].number = k - 1

\* What was given of the active stream, and the rest that is retained, are its
\* frames from its origin to the one expected; the device's positions are ahead
\* of the frames' numbers by the offset.
Laid(sc, given, offset, rest) ==
  LET reached == sc.origin.index + Len(given) * WindowFrames(sc.rate)
  IN  /\ sc.rate \in Rates /\ WindowFrames(sc.rate) \in Nat \ {0}
      /\ sc.origin \in Timestamps /\ sc.expected \in Timestamps
      /\ rest < WindowFrames(sc.rate)
      /\ sc.samples = SampleFrames(sc.active, reached + offset, rest)
      /\ sc.expected.index = reached + rest
      /\ rest # 0 => sc.buffer_start \in Timestamps /\ sc.buffer_start.index = reached
      /\ Follow(given, sc.active, sc.origin.index, offset, sc.rate)

\* Whatever the rest.
WellLaid(sc, given, offset) == \E rest \in Nat : Laid(sc, given, offset, rest)

\* The windows given and the retained rest bear the times of their frames.
Timed(sc, given, r) ==
  /\ sc.samples # <<>> => OnTime(sc.buffer_start, r)
  /\ Punctual(given, r)

\* Windows not yet numbered, likewise.
Succeed(windows, stream, first, offset, r) ==
  \A k \in 1 .. Len(windows) :
    Holds(windows[k], stream, first + (k - 1) * WindowFrames(r), offset, r)
AllOnTime(windows, r) == \A k \in 1 .. Len(windows) : OnTime(windows[k].start, r)

\* The index after windows that begin at the first.
IsAfter(reached, first, given, r) == reached = first + Len(given) * WindowFrames(r)

\* Windows put, numbered, after those given.
Extends(along, given, windows, number) == along = given \o Numbered(windows, number)

\* Numbered windows put after those given before follow on them, in place, time
\* and number.
LEMMA WindowsFollow ==
  ASSUME NEW base \in Seq(NumberedWindows), NEW windows \in Seq(Windows),
         NEW number \in Nat,
         NEW stream, NEW first \in Int, NEW offset, NEW r,
         WindowFrames(r) \in Nat \ {0},
         NEW reached \in Int, IsAfter(reached, first, base, r),
         Follow(base, stream, first, offset, r),
         Succeed(windows, stream, reached, offset, r),
         NEW along, Extends(along, base, windows, number)
  PROVE  /\ along \in Seq(NumberedWindows) /\ Len(along) = Len(base) + Len(windows)
         /\ Follow(along, stream, first, offset, r)
         /\ Punctual(base, r) /\ number = Len(base) /\ AllOnTime(windows, r)
              => Punctual(along, r)
<1> DEFINE w == WindowFrames(r)
<1>1. PICK m \in Nat, complete \in Nat : m = Len(base) /\ complete = Len(windows)
  BY LenProperties
<1>2. /\ DOMAIN windows = 1 .. complete
      /\ \A k \in 1 .. complete : windows[k] \in Windows
  BY <1>1, ElementOfSeq
<1>30. PICK sent : sent = Numbered(windows, number)
  OBVIOUS
<1>3. /\ sent \in Seq(NumberedWindows) /\ Len(sent) = complete
      /\ \A k \in 1 .. complete :
           sent[k].number = number + k - 1 /\ sent[k].window = windows[k]
  <2>1. \A k \in 1 .. complete :
          [number |-> number + k - 1, window |-> windows[k]] \in NumberedWindows
    BY <1>2 DEF NumberedWindows
  <2>2. sent = [k \in 1 .. complete |->
                 [number |-> number + k - 1, window |-> windows[k]]]
    BY <1>2, <1>30 DEF Numbered
  <2>3. sent \in [1 .. complete -> NumberedWindows]
    BY <2>1, <2>2
  <2>4. \A k \in 1 .. complete :
          sent[k] = [number |-> number + k - 1, window |-> windows[k]]
    BY <2>2
  <2> QED BY <2>3, <2>4
<1>4. /\ along \in Seq(NumberedWindows) /\ Len(along) = m + complete
      /\ \A k \in 1 .. m + complete : along[k] = IF k <= m THEN base[k] ELSE sent[k - m]
  <2>1. along = base \o sent
    BY <1>30 DEF Extends
  <2>2. /\ base \o sent \in Seq(NumberedWindows)
        /\ Len(base \o sent) = Len(base) + Len(sent)
        /\ \A k \in 1 .. Len(base) + Len(sent) :
             (base \o sent)[k] = IF k <= Len(base) THEN base[k] ELSE sent[k - Len(base)]
    BY <1>3, ConcatProperties
  <2>3. Len(base) = m /\ Len(sent) = complete
    BY <1>1, <1>3
  <2> QED BY <2>1, <2>2, <2>3
<1>5. ASSUME NEW k \in 1 .. m + complete, k <= m PROVE k \in 1 .. m /\ along[k] = base[k]
  BY <1>4, <1>5
<1>6. ASSUME NEW k \in 1 .. m + complete, ~(k <= m)
      PROVE  \E j \in 1 .. complete : k = m + j /\ along[k] = sent[j]
  <2>1. PICK j \in 1 .. complete : j = k - m
    BY <1>6
  <2>2. along[k] = sent[k - m]
    BY <1>4, <1>6
  <2>3. along[k] = sent[j]
    BY <2>1, <2>2
  <2>4. k = m + j
    BY <2>1
  <2> QED BY <2>3, <2>4
<1>7. Follow(along, stream, first, offset, r)
  <2> SUFFICES ASSUME NEW k \in 1 .. m + complete
               PROVE  Holds(along[k].window, stream, first + (k - 1) * w, offset, r)
    BY <1>4 DEF Follow
  <2>1. CASE k <= m
    BY <1>1, <1>5, <2>1 DEF Follow
  <2>2. CASE ~(k <= m)
    <3>1. PICK j \in 1 .. complete : k = m + j /\ along[k] = sent[j]
      BY <1>6, <2>2
    <3>2. Holds(windows[j], stream, reached + (j - 1) * w, offset, r)
      BY <1>1 DEF Succeed
    <3>3. reached + (j - 1) * w = first + (k - 1) * w
      <4>1. PICK v \in Nat : v = w
        OBVIOUS
      <4>2. reached = first + m * v
        BY <1>1, <4>1 DEF IsAfter
      <4> HIDE DEF w
      <4>3. (k - 1) * v = m * v + (j - 1) * v
        <5>1. PICK i \in Nat : i = j - 1
          OBVIOUS
        <5>2. k = m + j
          BY <3>1
        <5>3. k - 1 = m + i
          BY <5>1, <5>2
        <5>4. (m + i) * v = m * v + i * v
          OBVIOUS
        <5> QED BY <5>1, <5>3, <5>4
      <4>4. PICK x \in Int, y \in Int, z \in Int :
              x = m * v /\ y = (j - 1) * v /\ z = (k - 1) * v
        OBVIOUS
      <4>5. reached = first + x /\ z = x + y
        BY <4>2, <4>3, <4>4
      <4>6. reached + y = first + z
        BY <4>5
      <4> QED BY <4>1, <4>4, <4>6
    <3> HIDE DEF w
    <3> QED BY <1>3, <3>1, <3>2, <3>3
  <2> QED BY <2>1, <2>2
<1>8. ASSUME Punctual(base, r), number = m, AllOnTime(windows, r)
      PROVE  Punctual(along, r)
  <2> SUFFICES ASSUME NEW k \in 1 .. m + complete
               PROVE  OnTime(along[k].window.start, r) /\ along[k].number = k - 1
    BY <1>4 DEF Punctual
  <2>1. CASE k <= m
    BY <1>1, <1>5, <1>8, <2>1 DEF Punctual
  <2>2. CASE ~(k <= m)
    <3>1. PICK j \in 1 .. complete : k = m + j /\ along[k] = sent[j]
      BY <1>6, <2>2
    <3>2. number + j - 1 = k - 1
      BY <1>8, <3>1
    <3> QED BY <1>3, <1>8, <3>1, <3>2, <1>1 DEF AllOnTime
  <2> QED BY <2>1, <2>2
<1> QED BY <1>1, <1>4, <1>7, <1>8

\* A cut of frames that follow on the windows given.
ReadyToCut(sched, stream, r, base, offset, start, reached, count, expected, first,
           samples, result) ==
  /\ Formed(sched) /\ stream \in Streams /\ sched.active = stream
  /\ r \in Rates /\ sched.rate = r /\ WindowFrames(r) \in Nat \ {0}
  /\ sched.origin \in Timestamps /\ base \in Seq(NumberedWindows)
  /\ offset \in Int /\ Follow(base, stream, sched.origin.index, offset, r)
  /\ start \in Timestamps /\ reached \in Nat /\ start.index = reached
  /\ IsAfter(reached, sched.origin.index, base, r)
  /\ count \in Nat /\ expected \in Timestamps /\ expected.index = reached + count
  /\ first \in Int /\ first = reached + offset
  /\ samples = SampleFrames(stream, first, count)
  /\ result = Cut(sched, stream, start, samples, r, expected)
  /\ result.outcome = "Ok"

\* What it leaves: the windows given with those of the cut.
IsLaid(sched, stream, r, base, offset, start, result, along, number) ==
  /\ Formed(result.scheduler) /\ result.scheduler.active = stream
  /\ result.scheduler.invalid = sched.invalid
  /\ along \in Seq(NumberedWindows) /\ result.windows \in Seq(Windows)
  /\ Len(along) = Len(base) + Len(result.windows)
  /\ WellLaid(result.scheduler, along, offset)
  /\ sched.origin = Timestamp(0, 0) /\ OnTime(start, r)
       /\ Punctual(base, r) /\ number = Len(base)
       => Timed(result.scheduler, along, r)

\* An accepted cut leaves what is given and retained laid in a row.
LEMMA CutsLay ==
  ASSUME NEW sched, NEW stream, NEW r, NEW base, NEW offset, NEW start, NEW reached,
         NEW count, NEW expected, NEW first, NEW samples, NEW result,
         ReadyToCut(sched, stream, r, base, offset, start, reached, count, expected,
                    first, samples, result),
         NEW number \in Nat, NEW along, Extends(along, base, result.windows, number)
  PROVE  IsLaid(sched, stream, r, base, offset, start, result, along, number)
<1> USE DEF ReadyToCut
<1> DEFINE w == WindowFrames(r)
           after == result.scheduler
<1>1. PICK m \in Nat, origin \in Nat : m = Len(base) /\ origin = sched.origin.index
  BY LenProperties DEF Timestamps
<1>2. PICK v \in Nat : v = w
  OBVIOUS
<1>3. reached = origin + m * v /\ r \in Nat \ {0}
  BY <1>1, <1>2, PathAssumption DEF IsAfter
<1>4. PICK complete \in Nat, rest \in Nat, moved \in Timestamps \cup {None} :
        /\ complete * w + rest = count
        /\ CutGives(sched, stream, start, offset, r, expected, result,
                    complete, rest, moved)
  <2>1. m * v \in Nat
    OBVIOUS
  <2>2. origin <= reached
    BY <1>3, <2>1
  <2>3. sched.origin.index <= start.index
    BY <1>1, <2>2
  <2>4. CutInto(sched, stream, start, offset, count, r, expected, result)
    BY <1>3, <2>3, CutsAreContiguous
  <2> QED BY <2>4 DEF CutInto
<1>5. PICK windows \in Seq(Windows) : windows = result.windows
  BY <1>4 DEF CutGives
<1>6. /\ Len(windows) = complete /\ Succeed(windows, stream, reached, offset, r)
      /\ sched.origin = Timestamp(0, 0) /\ OnTime(start, r) => AllOnTime(windows, r)
  <2>1. Len(windows) = complete
    BY <1>4, <1>5 DEF CutGives
  <2>2. Succeed(windows, stream, reached, offset, r)
    BY <1>4, <1>5, <2>1 DEF CutGives, Succeed
  <2>3. sched.origin = Timestamp(0, 0) /\ OnTime(start, r) => AllOnTime(windows, r)
    BY <1>4, <1>5, <2>1 DEF CutGives, AllOnTime
  <2> QED BY <2>1, <2>2, <2>3
<1>8. /\ along \in Seq(NumberedWindows) /\ Len(along) = Len(base) + complete
      /\ Follow(along, stream, origin, offset, r)
      /\ Punctual(base, r) /\ number = Len(base) /\ AllOnTime(windows, r)
           => Punctual(along, r)
  <2>1. IsAfter(reached, origin, base, r)
    BY <1>1
  <2>2. Follow(base, stream, origin, offset, r)
    BY <1>1
  <2>3. Extends(along, base, windows, number)
    BY <1>5
  <2> HIDE DEF after, IsLaid
  <2>4. /\ along \in Seq(NumberedWindows) /\ Len(along) = Len(base) + Len(windows)
        /\ Follow(along, stream, origin, offset, r)
        /\ Punctual(base, r) /\ number = Len(base) /\ AllOnTime(windows, r)
             => Punctual(along, r)
    BY <1>6, <2>1, <2>2, <2>3, WindowsFollow
  <2> QED BY <1>6, <2>4
<1>9. PICK total \in Nat : total = complete * w
  BY <1>2
<1>10. PICK place \in Nat : place = reached + total
  OBVIOUS
<1>11. /\ rest < w
       /\ after = [sched EXCEPT
            !.buffer_start = moved,
            !.samples = SampleFrames(stream, place + offset, rest),
            !.expected = expected]
       /\ rest # 0 =>
            /\ moved \in Timestamps /\ moved.index = place
            /\ sched.origin = Timestamp(0, 0) /\ OnTime(start, r) => OnTime(moved, r)
  BY <1>1, <1>4, <1>9, <1>10 DEF CutGives
<1>12. PICK kept : kept = SampleFrames(stream, place + offset, rest)
  OBVIOUS
<1> HIDE DEF after, IsLaid
<1>13. after = [active |-> stream, invalid |-> sched.invalid, rate |-> r,
                origin |-> sched.origin, expected |-> expected,
                buffer_start |-> moved, samples |-> kept]
  <2>1. after = [sched EXCEPT !.buffer_start = moved, !.samples = kept,
                              !.expected = expected]
    BY <1>11, <1>12
  <2> QED BY <2>1 DEF Formed
<1>14. Formed(after)
  BY <1>13 DEF Formed
<1>15. place = origin + Len(along) * v
  <2>1. PICK n \in Nat : n = m + complete
    OBVIOUS
  <2>2. n * v = m * v + complete * v
    BY <2>1
  <2>3. total = complete * v
    BY <1>2, <1>9
  <2>4. PICK x \in Nat, z \in Nat : x = m * v /\ z = n * v
    OBVIOUS
  <2>5. z = x + total /\ reached = origin + x
    BY <1>3, <2>2, <2>3, <2>4
  <2>6. place = origin + z
    BY <1>10, <2>5
  <2>7. Len(along) = n
    BY <1>1, <1>8, <2>1
  <2> QED BY <2>4, <2>6, <2>7
<1>16. Laid(after, along, offset, rest)
  <2>1. expected.index = place + rest
    <3>1. count = total + rest
      BY <1>4, <1>9
    <3>2. expected.index = reached + count
      BY <1>1
    <3> QED BY <1>10, <3>1, <3>2
  <2>2. /\ after.active = stream /\ after.rate = r /\ after.origin = sched.origin
        /\ after.expected = expected /\ after.buffer_start = moved
        /\ after.samples = SampleFrames(stream, place + offset, rest)
    BY <1>12, <1>13
  <2>3. sched.origin.index + Len(along) * WindowFrames(r) = place
    BY <1>1, <1>2, <1>15
  <2>4. Follow(along, stream, sched.origin.index, offset, r)
    BY <1>1, <1>8
  <2> QED BY <1>11, <2>1, <2>2, <2>3, <2>4 DEF Laid
<1>17. ASSUME sched.origin = Timestamp(0, 0), OnTime(start, r), Punctual(base, r),
              number = Len(base)
       PROVE  Timed(after, along, r)
  <2>1. Punctual(along, r)
    BY <1>6, <1>8, <1>17
  <2>2. kept # <<>> => rest # 0
    BY <1>12 DEF SampleFrames
  <2>3. after.samples = kept /\ after.buffer_start = moved
    BY <1>13
  <2> QED BY <1>11, <1>17, <2>1, <2>2, <2>3 DEF Timed
<1>18. after.active = stream /\ after.invalid = sched.invalid
  BY <1>13
<1>19. WellLaid(after, along, offset)
  BY <1>16 DEF WellLaid
<1> QED BY <1>5, <1>6, <1>8, <1>14, <1>17, <1>18, <1>19 DEF after, IsLaid

-----------------------------------------------------------------------------
(* A push that is accepted.                                                *)

\* What a push starts from: the scheduler as it is, or begun for a new stream.
StartsFrom(sched, stream, frame) ==
  IF Continues(sched, stream) THEN sched ELSE Begun(sched, stream, frame)

\* A push that is accepted, and the windows that those of a push follow.
Accepts(sched, stream, frame, result) ==
  result = Push(sched, stream, frame) /\ result.outcome = "Ok"
Precedes(base, sched, stream, given) ==
  base = IF Continues(sched, stream) THEN given ELSE <<>>

\* What an accepted push was checked for, and that it cuts.
LEMMA AcceptedPushes ==
  ASSUME NEW sched, NEW stream, NEW frame,
         Push(sched, stream, frame).outcome = "Ok"
  PROVE  LET begun == StartsFrom(sched, stream, frame)
             ahead == AdvanceTimestamp(frame.start, Len(frame.samples), frame.rate)
         IN  /\ sched.invalid # stream /\ WindowFrames(frame.rate) # 0
             /\ Continues(sched, stream) =>
                  /\ sched.rate = frame.rate
                  /\ sched.expected # None => frame.start.index = sched.expected.index
             /\ ahead # None
             /\ Push(sched, stream, frame)
                  = Cut(begun, stream,
                        IF begun.samples = <<>> THEN frame.start ELSE begun.buffer_start,
                        begun.samples \o frame.samples, frame.rate, ahead)
<1> DEFINE answer == PushOutcome(sched, stream, frame)
<1>1. answer = "Ok"
  <2> SUFFICES ASSUME answer # "Ok" PROVE FALSE
    OBVIOUS
  <2> HIDE DEF answer
  <2>1. Push(sched, stream, frame).outcome = answer
    <3>1. CASE answer \in Invalidating
      BY <3>1 DEF Push, answer, Refused
    <3>2. CASE answer \notin Invalidating
      BY <3>2 DEF Push, answer, Refused
    <3> QED BY <3>1, <3>2
  <2> QED BY <2>1
<1>2. /\ sched.invalid # stream /\ WindowFrames(frame.rate) # 0
      /\ Continues(sched, stream) =>
           /\ sched.rate = frame.rate
           /\ sched.expected # None => frame.start.index = sched.expected.index
      /\ AdvanceTimestamp(frame.start, Len(frame.samples), frame.rate) # None
  BY <1>1 DEF PushOutcome
<1> QED BY <1>1, <1>2 DEF Push, Invalidating, StartsFrom

\* The end of a frame that exists.
LEMMA FrameEnds ==
  ASSUME NEW start \in Timestamps, NEW count \in Nat, NEW r \in Nat \ {0},
         AdvanceTimestamp(start, count, r) # None
  PROVE  /\ AdvanceTimestamp(start, count, r) \in Timestamps
         /\ AdvanceTimestamp(start, count, r).index = start.index + count
<1>1. PICK x \in Nat : x = count * NanosPerSecond
  BY WordAssumption
<1>2. PICK y \in Nat : y = x \div r
  BY Quotient
<1>3. AdvanceTimestamp(start, count, r) = Timestamp(start.index + count, start.time + y)
  BY <1>1, <1>2 DEF AdvanceTimestamp, Later, FrameOffset
<1> QED BY <1>3 DEF Timestamps, Timestamp

\* A push of frames that follow on the windows given.
ReadyToPush(sched, stream, frame, offset, count, given) ==
  /\ Formed(sched) /\ stream \in Streams
  /\ frame.rate \in Rates /\ frame.start \in Timestamps
  /\ offset \in Int /\ count \in Nat
  /\ frame.samples = SampleFrames(stream, frame.start.index + offset, count)
  /\ given \in Seq(NumberedWindows)
  /\ Continues(sched, stream) => WellLaid(sched, given, offset)

\* What it leaves when it is accepted: the windows given with those of the push.
KeepsLaid(sched, stream, frame, offset, given, result, base, along, number) ==
  /\ Formed(result.scheduler) /\ result.scheduler.active = stream
  /\ result.scheduler.invalid # stream
  /\ along \in Seq(NumberedWindows) /\ result.windows \in Seq(Windows)
  /\ Len(along) = Len(base) + Len(result.windows)
  /\ WellLaid(result.scheduler, along, offset)
  /\ StartsFrom(sched, stream, frame).origin = Timestamp(0, 0)
       /\ OnTime(frame.start, frame.rate) /\ number = Len(base)
       /\ (Continues(sched, stream) => Timed(sched, given, frame.rate))
       => Timed(result.scheduler, along, frame.rate)

\* An accepted push does, whether it continues the stream or begins another one.
LEMMA PushesLay ==
  ASSUME NEW sched, NEW stream, NEW frame, NEW offset, NEW count, NEW given,
         ReadyToPush(sched, stream, frame, offset, count, given),
         NEW result, Accepts(sched, stream, frame, result), NEW number \in Nat,
         NEW base, Precedes(base, sched, stream, given),
         NEW along, Extends(along, base, result.windows, number)
  PROVE  KeepsLaid(sched, stream, frame, offset, given, result, base, along, number)
<1> USE DEF ReadyToPush
<1> DEFINE begun == StartsFrom(sched, stream, frame)
           start == IF begun.samples = <<>> THEN frame.start ELSE begun.buffer_start
           samples == begun.samples \o frame.samples
           ahead == AdvanceTimestamp(frame.start, count, frame.rate)
<1>1. PICK r \in Rates : r = frame.rate /\ r \in Nat \ {0}
  BY PathAssumption
<1>2. PICK at \in Nat : at = frame.start.index
  BY DEF Timestamps
<1>3. /\ frame.samples = SampleFrames(stream, at + offset, count)
      /\ frame.samples \in Seq(PlacedFrames) /\ Len(frame.samples) = count
  <2>1. PICK place \in Int : place = at + offset
    OBVIOUS
  <2>2. /\ SampleFrames(stream, place, count) \in Seq(PlacedFrames)
        /\ Len(SampleFrames(stream, place, count)) = count
    BY FramesAreTyped
  <2> QED BY <1>2, <2>1, <2>2
<1>4. /\ sched.invalid # stream /\ WindowFrames(r) # 0
      /\ Continues(sched, stream) =>
           /\ sched.rate = r
           /\ sched.expected # None => at = sched.expected.index
      /\ ahead # None
      /\ result = Cut(begun, stream, start, samples, r, ahead)
  <2> HIDE DEF begun
  <2> QED BY <1>1, <1>2, <1>3, AcceptedPushes DEF begun, Accepts
<1>5. ahead \in Timestamps /\ ahead.index = at + count
  BY <1>1, <1>2, <1>4, FrameEnds
<1>6. WindowFrames(r) \in Nat \ {0}
  <2>1. PICK x \in Nat : x = WindowDuration * r + NanosPerSecond \div 2
    BY <1>1, SchedulerAssumption, WordAssumption
  <2>2. x \div NanosPerSecond \in Nat
    BY WordAssumption, Quotient
  <2> QED BY <1>4, <2>1, <2>2 DEF WindowFrames
<1> HIDE DEF ahead
<1>7. /\ Formed(begun) /\ begun.active = stream /\ begun.invalid # stream
      /\ begun.rate = r /\ begun.origin \in Timestamps
      /\ base \in Seq(NumberedWindows)
      /\ Follow(base, stream, begun.origin.index, offset, r)
      /\ \E rest \in Nat, reached \in Nat :
           /\ IsAfter(reached, begun.origin.index, base, r)
           /\ begun.samples = SampleFrames(stream, reached + offset, rest)
           /\ at = reached + rest
           /\ rest # 0 => begun.buffer_start \in Timestamps
                          /\ begun.buffer_start.index = reached
  <2>1. CASE Continues(sched, stream)
    <3>1. begun = sched /\ base = given /\ sched.active = stream /\ sched.rate = r
      BY <1>4, <2>1 DEF StartsFrom, Precedes, Continues
    <3>2. PICK rest \in Nat : Laid(sched, given, offset, rest)
      BY <2>1 DEF WellLaid
    <3>3. PICK reached : reached = sched.origin.index + Len(given) * WindowFrames(r)
      OBVIOUS
    <3>4. /\ sched.origin \in Timestamps /\ sched.expected \in Timestamps
          /\ sched.samples = SampleFrames(stream, reached + offset, rest)
          /\ sched.expected.index = reached + rest
          /\ rest # 0 => sched.buffer_start \in Timestamps
                         /\ sched.buffer_start.index = reached
          /\ Follow(given, stream, sched.origin.index, offset, r)
      BY <3>1, <3>2, <3>3 DEF Laid
    <3>5. reached \in Nat
      <4>1. PICK o \in Nat, m \in Nat, v \in Nat :
              o = sched.origin.index /\ m = Len(given) /\ v = WindowFrames(r)
        BY <1>6, <3>4, LenProperties DEF Timestamps
      <4>2. o + m * v \in Nat
        OBVIOUS
      <4> QED BY <3>3, <4>1, <4>2
    <3>6. at = reached + rest
      <4>1. sched.expected # None
        BY <3>4, PathAssumption DEF Timestamps
      <4> QED BY <1>4, <2>1, <3>4, <4>1
    <3>7. IsAfter(reached, sched.origin.index, given, r)
      BY <3>3 DEF IsAfter
    <3> HIDE DEF begun
    <3> QED BY <1>4, <3>1, <3>4, <3>5, <3>6, <3>7
  <2>2. CASE ~Continues(sched, stream)
    <3>1. begun = [active |-> stream, invalid |-> None, rate |-> r,
                   origin |-> frame.start, expected |-> None,
                   buffer_start |-> None, samples |-> <<>>]
      BY <1>1, <2>2 DEF StartsFrom, Begun, Cleared, Formed
    <3>2. base = <<>> /\ Len(base) = 0 /\ base \in Seq(NumberedWindows)
      BY <2>2, EmptySeq DEF Precedes
    <3> HIDE DEF begun
    <3>3. Formed(begun)
      BY <3>1 DEF Formed
    <3>4. stream # None
      BY PathAssumption
    <3>5. Follow(base, stream, begun.origin.index, offset, r)
      BY <3>2 DEF Follow
    <3>6. begun.samples = SampleFrames(stream, at + offset, 0)
      BY <3>1 DEF SampleFrames
    <3>7. IsAfter(at, begun.origin.index, base, r)
      BY <1>2, <1>6, <3>1, <3>2 DEF IsAfter
    <3>8. begun.active = stream /\ begun.invalid = None /\ begun.rate = r
          /\ begun.origin = frame.start
      BY <3>1
    <3> QED BY <3>2, <3>3, <3>4, <3>5, <3>6, <3>7, <3>8
  <2> QED BY <2>1, <2>2
<1>8. PICK rest \in Nat, reached \in Nat :
        /\ IsAfter(reached, begun.origin.index, base, r)
        /\ begun.samples = SampleFrames(stream, reached + offset, rest)
        /\ at = reached + rest
        /\ rest # 0 => begun.buffer_start \in Timestamps
                       /\ begun.buffer_start.index = reached
  BY <1>7
<1>9. PICK place \in Int, total \in Nat : place = reached + offset /\ total = rest + count
  OBVIOUS
<1>10. samples = SampleFrames(stream, place, total)
  <2> HIDE DEF begun
  <2>1. PICK s, t : s = begun.samples /\ t = frame.samples
    OBVIOUS
  <2>2. PICK middle \in Int : middle = place + rest
    OBVIOUS
  <2>3. at + offset = middle
    BY <1>8, <1>9, <2>2
  <2>4. s = SampleFrames(stream, place, rest)
    BY <1>8, <1>9, <2>1
  <2>5. t = SampleFrames(stream, middle, count)
    BY <1>3, <2>1, <2>3
  <2>6. Joins(SampleFrames(stream, place, rest), SampleFrames(stream, middle, count),
               SampleFrames(stream, place, total))
    BY <1>9, <2>2, FramesAppend
  <2>7. s \o t = SampleFrames(stream, place, total)
    BY <2>4, <2>5, <2>6 DEF Joins
  <2> QED BY <2>1, <2>7
<1>11. (begun.samples = <<>>) <=> (rest = 0)
  <2>1. /\ SampleFrames(stream, place, rest) \in Seq(PlacedFrames)
        /\ Len(SampleFrames(stream, place, rest)) = rest
    BY FramesAreTyped
  <2> HIDE DEF begun
  <2> QED BY <1>8, <1>9, <2>1
<1>12. start \in Timestamps /\ start.index = reached
  <2> HIDE DEF begun
  <2>1. CASE rest = 0
    <3>1. start = frame.start
      BY <1>11, <2>1
    <3>2. at = reached
      BY <1>8, <2>1
    <3> QED BY <1>2, <3>1, <3>2
  <2>2. CASE rest # 0
    <3>1. start = begun.buffer_start
      BY <1>11, <2>2
    <3> QED BY <1>8, <2>2, <3>1
  <2> QED BY <2>1, <2>2
<1>13. StartsFrom(sched, stream, frame).origin = Timestamp(0, 0)
         /\ OnTime(frame.start, frame.rate) /\ number = Len(base)
         /\ (Continues(sched, stream) => Timed(sched, given, frame.rate))
         => begun.origin = Timestamp(0, 0) /\ OnTime(start, r) /\ Punctual(base, r)
  <2> SUFFICES ASSUME OnTime(frame.start, r),
                      Continues(sched, stream) => Timed(sched, given, r)
               PROVE  OnTime(start, r) /\ Punctual(base, r)
    BY <1>1
  <2>1. CASE Continues(sched, stream)
    BY <2>1 DEF StartsFrom, Precedes, Timed
  <2>2. CASE ~Continues(sched, stream)
    <3>1. base = <<>> /\ Len(base) = 0
      BY <2>2 DEF Precedes
    <3>2. begun.samples = <<>>
      BY <2>2 DEF StartsFrom, Begun, Cleared, Formed
    <3> QED BY <3>1, <3>2 DEF Punctual
  <2> QED BY <2>1, <2>2
<1> HIDE DEF begun, start, samples
<1>14. /\ Formed(result.scheduler) /\ result.scheduler.active = stream
       /\ result.scheduler.invalid = begun.invalid
       /\ along \in Seq(NumberedWindows)
       /\ result.windows \in Seq(Windows) /\ Len(along) = Len(base) + Len(result.windows)
       /\ WellLaid(result.scheduler, along, offset)
       /\ begun.origin = Timestamp(0, 0) /\ OnTime(start, r)
            /\ Punctual(base, r) /\ number = Len(base)
            => Timed(result.scheduler, along, r)
  <2>1. start.index = reached /\ IsAfter(reached, begun.origin.index, base, r)
    BY <1>8, <1>12
  <2>2. ahead.index = reached + total
    BY <1>5, <1>8, <1>9
  <2>3. place = reached + offset /\ samples = SampleFrames(stream, place, total)
    BY <1>9, <1>10
  <2>4. result = Cut(begun, stream, start, samples, r, ahead)
    BY <1>4
  <2>5. Formed(begun) /\ begun.active = stream /\ begun.rate = r
        /\ begun.origin \in Timestamps /\ base \in Seq(NumberedWindows)
        /\ Follow(base, stream, begun.origin.index, offset, r)
    BY <1>7
  <2>6. start \in Timestamps /\ ahead \in Timestamps
    BY <1>5, <1>12
  <2>7. r \in Rates
    BY <1>1
  <2>8. result.outcome = "Ok"
    BY DEF Accepts
  <2>9. ReadyToCut(begun, stream, r, base, offset, start, reached, total, ahead,
                   place, samples, result)
    BY <1>6, <2>1, <2>2, <2>3, <2>4, <2>5, <2>6, <2>7, <2>8 DEF ReadyToCut
  <2>10. IsLaid(begun, stream, r, base, offset, start, result, along, number)
    BY <2>9, CutsLay
  <2> QED BY <2>10 DEF IsLaid
<1> QED BY <1>1, <1>7, <1>13, <1>14 DEF KeepsLaid

\* A scheduler with another buffer and expectation, as a cut leaves it.
Moved(sched, from, rest, expected) ==
  [sched EXCEPT !.buffer_start = from, !.samples = rest, !.expected = expected]
IsCutFrom(result, sched) ==
  \E from, rest, expected :
    /\ result.outcome \in {"Ok", "CutOverflow"}
    /\ result.scheduler = Moved(sched, from, rest, expected)

\* A cut changes the buffer and the expectation only.
LEMMA CutsShape ==
  ASSUME NEW sched, Formed(sched), NEW stream, NEW start, NEW samples, NEW r,
         NEW expected, NEW result, result = Cut(sched, stream, start, samples, r, expected)
  PROVE  IsCutFrom(result, sched)
<1> DEFINE w == WindowFrames(r)
           complete == Len(samples) \div w
           After(k) == SubSeq(samples, k * w + 1, Len(samples))
           StartOf(k) ==
             IF k = 0 THEN start
             ELSE TimestampForFrameIndex(sched.origin, start.index + k * w, r)
           failing == {k \in 1 .. complete : After(k) # <<>> /\ StartOf(k) = None}
           moved == IF After(complete) = <<>> THEN None ELSE StartOf(complete)
           first == CHOOSE k \in failing : \A j \in failing : k <= j
<1>1. CASE failing = {}
  <2>1. PICK from, rest : from = moved /\ rest = After(complete)
    OBVIOUS
  <2>2. result.outcome = "Ok"
        /\ result.scheduler = [sched EXCEPT !.buffer_start = moved,
                                            !.samples = After(complete),
                                            !.expected = expected]
    BY <1>1 DEF Cut
  <2> HIDE DEF failing, moved, After, complete
  <2>3. result.scheduler = Moved(sched, from, rest, expected)
    BY <2>1, <2>2 DEF Moved
  <2> QED BY <2>2, <2>3 DEF IsCutFrom
<1>2. CASE failing # {}
  <2>2. result.outcome = "CutOverflow"
        /\ result.scheduler = [sched EXCEPT !.buffer_start = StartOf(first - 1),
                                            !.samples = After(first)]
    BY <1>2 DEF Cut, Refused
  <2> HIDE DEF failing, first, After, StartOf
  <2>0. PICK rest, ahead : rest = After(first) /\ ahead = sched.expected
    OBVIOUS
  <2>1. PICK from : from = StartOf(first - 1)
    OBVIOUS
  <2>3. result.scheduler = [sched EXCEPT !.buffer_start = from, !.samples = rest]
    BY <2>0, <2>1, <2>2
  <2>4. result.scheduler = Moved(sched, from, rest, ahead)
    BY <2>0, <2>3 DEF Moved, Formed
  <2> QED BY <2>2, <2>4 DEF IsCutFrom
<1> QED BY <1>1, <1>2

\* What a push leaves of the scheduler: cut for the stream, invalidated, or as
\* it was.
LEMMA PushesShape ==
  ASSUME NEW sched, Formed(sched), NEW stream \in Streams, NEW frame,
         NEW result, result = Push(sched, stream, frame)
  PROVE  \/ /\ result.outcome \in {"Ok", "CutOverflow"}
            /\ Formed(result.scheduler) /\ result.scheduler.active = stream
            /\ result.scheduler.invalid # stream
         \/ /\ result.outcome \in Invalidating
            /\ Formed(result.scheduler) /\ result.scheduler.active = stream
            /\ result.scheduler.invalid = stream /\ result.scheduler.expected = None
         \/ /\ result.outcome \notin {"Ok", "CutOverflow"}
            /\ result.scheduler = sched /\ result.windows = <<>>
<1> DEFINE answer == PushOutcome(sched, stream, frame)
           begun == StartsFrom(sched, stream, frame)
           start == IF begun.samples = <<>> THEN frame.start ELSE begun.buffer_start
           samples == begun.samples \o frame.samples
           ahead == AdvanceTimestamp(frame.start, Len(frame.samples), frame.rate)
<1>1. CASE answer = "Ok"
  <2>1. result = Cut(begun, stream, start, samples, frame.rate, ahead)
    <3> HIDE DEF ahead
    <3> QED BY <1>1 DEF Push, Invalidating, StartsFrom, ahead
  <2>2. sched.invalid # stream
    BY <1>1 DEF PushOutcome
  <2>3. Formed(begun) /\ begun.active = stream /\ begun.invalid # stream
    <3>1. CASE Continues(sched, stream)
      BY <2>2, <3>1 DEF StartsFrom, Continues
    <3>2. CASE ~Continues(sched, stream)
      <4>1. begun = [active |-> stream, invalid |-> None, rate |-> frame.rate,
                     origin |-> frame.start, expected |-> None,
                     buffer_start |-> None, samples |-> <<>>]
        BY <3>2 DEF StartsFrom, Begun, Cleared, Formed
      <4> HIDE DEF begun
      <4> QED BY <4>1, PathAssumption DEF Formed
    <3> QED BY <3>1, <3>2
  <2> HIDE DEF begun, start, samples, ahead
  <2>4. IsCutFrom(result, begun)
    BY <2>1, <2>3, CutsShape
  <2>5. PICK from, rest, expected :
          /\ result.outcome \in {"Ok", "CutOverflow"}
          /\ result.scheduler = Moved(begun, from, rest, expected)
    BY <2>4 DEF IsCutFrom
  <2>6. result.scheduler = [active |-> begun.active, invalid |-> begun.invalid,
          rate |-> begun.rate, origin |-> begun.origin, expected |-> expected,
          buffer_start |-> from, samples |-> rest]
    BY <2>3, <2>5 DEF Formed, Moved
  <2>7. Formed(result.scheduler)
    BY <2>6 DEF Formed
  <2> QED BY <2>3, <2>5, <2>6, <2>7
<1>2. CASE answer \in Invalidating
  <2>1. result = Refused(Invalidated(sched, stream), answer)
    BY <1>2 DEF Push, Invalidating
  <2> HIDE DEF answer
  <2>2. result.outcome = answer /\ result.scheduler = Invalidated(sched, stream)
    BY <2>1 DEF Refused
  <2>3. Invalidated(sched, stream) =
          [active |-> stream, invalid |-> stream, rate |-> None, origin |-> None,
           expected |-> None, buffer_start |-> None, samples |-> <<>>]
    <3>1. PICK a, i, r, o, e, b, held :
            sched = [active |-> a, invalid |-> i, rate |-> r, origin |-> o,
                     expected |-> e, buffer_start |-> b, samples |-> held]
      BY DEF Formed
    <3>2. PICK half : half = [sched EXCEPT !.rate = None, !.origin = None,
                                           !.expected = None]
      OBVIOUS
    <3>3. half = [active |-> a, invalid |-> i, rate |-> None, origin |-> None,
                  expected |-> None, buffer_start |-> b, samples |-> held]
      BY <3>1, <3>2
    <3>4. Cleared(sched) = [half EXCEPT !.buffer_start = None, !.samples = <<>>]
      BY <3>2 DEF Cleared
    <3>5. Cleared(sched) =
            [active |-> a, invalid |-> i, rate |-> None, origin |-> None,
             expected |-> None, buffer_start |-> None, samples |-> <<>>]
      BY <3>3, <3>4
    <3>6. PICK c : c = Cleared(sched)
      OBVIOUS
    <3>7. Invalidated(sched, stream) = [c EXCEPT !.active = stream, !.invalid = stream]
      BY <3>6 DEF Invalidated
    <3>8. c = [active |-> a, invalid |-> i, rate |-> None, origin |-> None,
               expected |-> None, buffer_start |-> None, samples |-> <<>>]
      BY <3>5, <3>6
    <3> QED BY <3>7, <3>8
  <2>4. Formed(Invalidated(sched, stream))
    BY <2>3 DEF Formed
  <2> QED BY <1>2, <2>2, <2>3, <2>4
<1>3. CASE answer \notin Invalidating \cup {"Ok"}
  <2>1. answer # "CutOverflow"
    BY DEF PushOutcome
  <2>2. result = Refused(sched, answer)
    BY <1>3 DEF Push
  <2> HIDE DEF answer
  <2> QED BY <1>3, <2>1, <2>2 DEF Refused
<1> QED BY <1>1, <1>2, <1>3

\* A cut retains frames, and gives so many windows.
LEMMA CutsRetain ==
  ASSUME NEW sched, Formed(sched), NEW stream, NEW start, NEW samples \in Seq(PlacedFrames),
         NEW r, WindowFrames(r) \in Nat \ {0},
         NEW expected, NEW result, result = Cut(sched, stream, start, samples, r, expected)
  PROVE  result.scheduler.samples \in Seq(PlacedFrames) /\ Len(result.windows) \in Nat
<1> DEFINE w == WindowFrames(r)
           complete == Len(samples) \div w
           After(k) == SubSeq(samples, k * w + 1, Len(samples))
           StartOf(k) ==
             IF k = 0 THEN start
             ELSE TimestampForFrameIndex(sched.origin, start.index + k * w, r)
           failing == {k \in 1 .. complete : After(k) # <<>> /\ StartOf(k) = None}
           moved == IF After(complete) = <<>> THEN None ELSE StartOf(complete)
           first == CHOOSE k \in failing : \A j \in failing : k <= j
           Window(k) == [stream |-> stream, start |-> StartOf(k - 1),
                         samples |-> SubSeq(samples, (k - 1) * w + 1, k * w)]
<1>1. complete \in Nat
  BY LenProperties, Quotient
<1>2. ASSUME NEW k \in Nat PROVE After(k) \in Seq(PlacedFrames)
  <2>1. PICK i \in Nat : i = k * w
    OBVIOUS
  <2>2. PICK n \in Nat : n = Len(samples)
    BY LenProperties
  <2>3. \A m \in i + 1 .. n : samples[m] \in PlacedFrames
    BY <2>1, <2>2, ElementOfSeq
  <2>4. SubSeq(samples, i + 1, n) \in Seq(PlacedFrames)
    BY <2>3, SubSeqProperties
  <2> QED BY <2>1, <2>2, <2>4
<1>3. CASE failing = {}
  <2>1. /\ result.windows = [k \in 1 .. complete |-> Window(k)]
        /\ result.scheduler = [sched EXCEPT !.buffer_start = moved,
                                            !.samples = After(complete),
                                            !.expected = expected]
    BY <1>3 DEF Cut
  <2> HIDE DEF failing, moved, After, complete, Window
  <2>2. PICK from, rest : from = moved /\ rest = After(complete)
    OBVIOUS
  <2>3. result.scheduler.samples = rest
    BY <2>1, <2>2 DEF Formed
  <2>4. result.windows \in Seq({Window(k) : k \in 1 .. complete})
    BY <1>1, <2>1
  <2> QED BY <1>1, <1>2, <2>2, <2>3, <2>4, LenProperties
<1>4. CASE failing # {}
  <2>1. /\ result.windows = <<>>
        /\ result.scheduler = [sched EXCEPT !.buffer_start = StartOf(first - 1),
                                            !.samples = After(first)]
    BY <1>4 DEF Cut, Refused
  <2>2. first \in Nat
    <3>1. failing \in SUBSET Nat
      BY <1>1
    <3> HIDE DEF failing
    <3>2. \E k \in failing : \A j \in failing : k <= j
      BY <1>4, <3>1, LeastNumber
    <3> QED BY <3>1, <3>2
  <2> HIDE DEF failing, first, After, StartOf
  <2>3. PICK from, rest : from = StartOf(first - 1) /\ rest = After(first)
    OBVIOUS
  <2>4. result.scheduler.samples = rest
    BY <2>1, <2>3 DEF Formed
  <2> QED BY <1>2, <2>1, <2>2, <2>3, <2>4
<1> QED BY <1>3, <1>4

\* So does a push.
LEMMA PushesRetain ==
  ASSUME NEW sched, Formed(sched), sched.samples \in Seq(PlacedFrames),
         NEW stream, NEW frame, frame.samples \in Seq(PlacedFrames), frame.rate \in Rates,
         NEW result, result = Push(sched, stream, frame)
  PROVE  result.scheduler.samples \in Seq(PlacedFrames) /\ Len(result.windows) \in Nat
<1> DEFINE answer == PushOutcome(sched, stream, frame)
           begun == StartsFrom(sched, stream, frame)
           start == IF begun.samples = <<>> THEN frame.start ELSE begun.buffer_start
           samples == begun.samples \o frame.samples
           ahead == AdvanceTimestamp(frame.start, Len(frame.samples), frame.rate)
<1>0. <<>> \in Seq(PlacedFrames) /\ Len(<<>>) \in Nat
  BY EmptySeq
<1>1. CASE answer = "Ok"
  <2>1. result = Cut(begun, stream, start, samples, frame.rate, ahead)
    <3> HIDE DEF ahead
    <3> QED BY <1>1 DEF Push, Invalidating, StartsFrom, ahead
  <2>2. WindowFrames(frame.rate) \in Nat \ {0}
    <3>1. WindowFrames(frame.rate) # 0
      BY <1>1 DEF PushOutcome
    <3>2. PICK r \in Nat \ {0} : r = frame.rate
      BY PathAssumption
    <3>3. WindowDuration * r \in Nat /\ NanosPerSecond \div 2 \in Nat
      BY SchedulerAssumption, WordAssumption
    <3>4. PICK x \in Nat : x = WindowDuration * r + NanosPerSecond \div 2
      BY <3>3
    <3>5. WindowFrames(r) \in Nat
      BY <3>4, WordAssumption, Quotient DEF WindowFrames
    <3> QED BY <3>1, <3>2, <3>5
  <2>3. Formed(begun) /\ begun.samples \in Seq(PlacedFrames)
    <3>1. CASE Continues(sched, stream)
      BY <3>1 DEF StartsFrom
    <3>2. CASE ~Continues(sched, stream)
      <4>1. begun = [active |-> stream, invalid |-> None, rate |-> frame.rate,
                     origin |-> frame.start, expected |-> None,
                     buffer_start |-> None, samples |-> <<>>]
        BY <3>2 DEF StartsFrom, Begun, Cleared, Formed
      <4> HIDE DEF begun
      <4> QED BY <1>0, <4>1 DEF Formed
    <3> QED BY <3>1, <3>2
  <2> HIDE DEF begun, start, ahead
  <2>4. samples \in Seq(PlacedFrames)
    BY <2>3, ConcatProperties
  <2> HIDE DEF samples
  <2> QED BY <2>1, <2>2, <2>3, <2>4, CutsRetain
<1>2. CASE answer \in Invalidating
  <2>1. result = Refused(Invalidated(sched, stream), answer)
    BY <1>2 DEF Push, Invalidating
  <2> HIDE DEF answer
  <2>2. result.windows = <<>> /\ result.scheduler = Invalidated(sched, stream)
    BY <2>1 DEF Refused
  <2>3. Invalidated(sched, stream).samples = <<>>
    <3>1. PICK c : c = Cleared(sched)
      OBVIOUS
    <3>2. c.samples = <<>>
      BY <3>1 DEF Cleared, Formed
    <3>3. Invalidated(sched, stream) = [c EXCEPT !.active = stream, !.invalid = stream]
      BY <3>1 DEF Invalidated
    <3>4. Invalidated(sched, stream).samples = c.samples
      BY <3>3
    <3> QED BY <3>2, <3>4
  <2> QED BY <1>0, <2>2, <2>3
<1>3. CASE answer \notin Invalidating \cup {"Ok"}
  <2>1. result = Refused(sched, answer)
    BY <1>3 DEF Push
  <2> HIDE DEF answer
  <2> QED BY <1>0, <2>1 DEF Refused
<1> QED BY <1>1, <1>2, <1>3

-----------------------------------------------------------------------------
(* The windows are exact.                                                  *)

\* The active stream lost nothing and was not invalidated.
Intact ==
  /\ scheduler.active # None /\ scheduler.invalid # scheduler.active
  /\ scheduler.active \notin overflowed

\* Library users give positions that are the indices; a device's positions are
\* ahead of them by the offset, until its builder refuses a packet.
Placed(offset) ==
  /\ feed = "Library" => offset = 0
  /\ feed = "Device" /\ built = "Ok" =>
       /\ builder.next_position \in Nat
       /\ builder.next_position = builder.next_index + offset

ShapeInv ==
  /\ Formed(scheduler) /\ scheduler.active \in Streams \cup {None}
  /\ scheduler.samples \in Seq(PlacedFrames)
  /\ scheduler.active = None \/ scheduler.invalid = scheduler.active
       => scheduler.expected = None

LaidInv ==
  Intact => /\ delivered \in Seq(NumberedWindows)
            /\ \E offset \in Int : WellLaid(scheduler, delivered, offset) /\ Placed(offset)

\* Of a device of which nothing was refused, the windows are numbered in a row
\* and timed by their frames.
NumberedInv ==
  feed = "Device" /\ refusal = None =>
    /\ overflowed = {}
    /\ scheduler.active = None => sequence = 0
    /\ scheduler.active # None =>
         sequence = Len(delivered) /\ Timed(scheduler, delivered, rate)

WindowsInv ==
  /\ builder.next_position \in Nat \cup {None} /\ sequence \in Nat
  /\ ShapeInv /\ LaidInv /\ NumberedInv

\* Nothing put before numbered windows.
LEMMA NothingBefore ==
  ASSUME NEW windows \in Seq(Windows), NEW number \in Nat
  PROVE  Extends(Numbered(windows, number), <<>>, windows, number)
<1>1. PICK n \in Nat : n = Len(windows)
  BY LenProperties
<1>2. DOMAIN windows = 1 .. n
  BY <1>1
<1>3. \A k \in 1 .. n : windows[k] \in Windows
  BY <1>1, ElementOfSeq
<1>4. Numbered(windows, number) \in [1 .. n -> NumberedWindows]
  BY <1>2, <1>3 DEF Numbered, NumberedWindows
<1>5. PICK s \in Seq(NumberedWindows) : s = Numbered(windows, number)
  BY <1>4
<1>6. <<>> \o s = s
  BY ConcatEmptySeq
<1> QED BY <1>5, <1>6 DEF Extends

\* A push as both feeds make it, of frames that follow on what was given if the
\* active stream is intact.
WindowPush(stream, frame, offset, count, result) ==
  /\ ShapeInv /\ sequence \in Nat /\ stream \in Streams
  /\ frame.rate \in Rates /\ frame.start \in Timestamps
  /\ offset \in Int /\ count \in Nat
  /\ frame.samples = SampleFrames(stream, frame.start.index + offset, count)
  /\ Intact => /\ delivered \in Seq(NumberedWindows)
               /\ WellLaid(scheduler, delivered, offset)
  /\ result = Push(scheduler, stream, frame)
  /\ scheduler' = result.scheduler
  /\ Records(stream, result, Encoded(result.windows))

\* From the beginning of time, with nothing lost and the windows numbered in a row.
Timely(stream, frame) ==
  /\ overflowed = {}
  /\ StartsFrom(scheduler, stream, frame).origin = Timestamp(0, 0)
  /\ OnTime(frame.start, frame.rate)
  /\ Continues(scheduler, stream) =>
       sequence = Len(delivered) /\ Timed(scheduler, delivered, frame.rate)
  /\ ~Continues(scheduler, stream) => sequence = 0

\* Such a push keeps what is known of the windows.
LEMMA PushesKeepWindows ==
  ASSUME NEW stream, NEW frame, NEW offset, NEW count, NEW result,
         WindowPush(stream, frame, offset, count, result)
  PROVE  /\ ShapeInv'
         /\ Intact' => /\ delivered' \in Seq(NumberedWindows)
                       /\ WellLaid(scheduler', delivered', offset)
         /\ sequence + Len(result.windows) \in Nat
         /\ result.outcome = "Ok" /\ Timely(stream, frame)
              => /\ overflowed' = {} /\ scheduler'.active # None
                 /\ sequence + Len(result.windows) = Len(delivered')
                 /\ Timed(scheduler', delivered', frame.rate)
<1> USE DEF WindowPush, Timely
<1>0. scheduler' = result.scheduler
  OBVIOUS
<1>1. Encoded(result.windows) = Numbered(result.windows, sequence)
  BY DEF Encoded, Numbered
<1>2. \/ /\ result.outcome \in {"Ok", "CutOverflow"}
         /\ Formed(result.scheduler) /\ result.scheduler.active = stream
         /\ result.scheduler.invalid # stream
      \/ /\ result.outcome \in Invalidating
         /\ Formed(result.scheduler) /\ result.scheduler.active = stream
         /\ result.scheduler.invalid = stream /\ result.scheduler.expected = None
      \/ /\ result.outcome \notin {"Ok", "CutOverflow"}
         /\ result.scheduler = scheduler /\ result.windows = <<>>
  BY PushesShape DEF ShapeInv
<1>3. stream # None
  BY PathAssumption
<1>10. scheduler'.samples \in Seq(PlacedFrames) /\ Len(result.windows) \in Nat
  <2>1. PICK first \in Int : first = frame.start.index + offset
    BY DEF Timestamps
  <2>2. frame.samples \in Seq(PlacedFrames)
    BY <2>1, FramesAreTyped
  <2>3. result = Push(scheduler, stream, frame) /\ frame.rate \in Rates
        /\ Formed(scheduler) /\ scheduler.samples \in Seq(PlacedFrames)
    BY DEF ShapeInv
  <2>4. result.scheduler.samples \in Seq(PlacedFrames) /\ Len(result.windows) \in Nat
    <3> HIDE DEF WindowPush
    <3> QED BY <2>2, <2>3, PushesRetain
  <2> QED BY <1>0, <2>4
<1>4. ShapeInv'
  BY <1>2, <1>3, <1>10 DEF ShapeInv
<1>5. overflowed' = IF result.outcome = "CutOverflow" THEN overflowed \cup {stream}
                    ELSE overflowed
  BY DEF Records
<1>6. delivered' = IF Continues(scheduler, stream)
                   THEN delivered \o Numbered(result.windows, sequence)
                   ELSE IF result.scheduler.active = stream
                   THEN Numbered(result.windows, sequence) ELSE delivered
  BY <1>1 DEF Records
<1>7. CASE result.outcome = "Ok"
  <2>1. result.scheduler.active = stream /\ result.scheduler.invalid # stream
    BY <1>2, <1>7 DEF Invalidating
  <2>2. ASSUME stream \notin overflowed
        PROVE  /\ delivered' \in Seq(NumberedWindows)
               /\ WellLaid(scheduler', delivered', offset)
               /\ StartsFrom(scheduler, stream, frame).origin = Timestamp(0, 0)
                    /\ OnTime(frame.start, frame.rate)
                    /\ (Continues(scheduler, stream) =>
                          sequence = Len(delivered)
                            /\ Timed(scheduler, delivered, frame.rate))
                    /\ (~Continues(scheduler, stream) => sequence = 0)
                    => /\ sequence + Len(result.windows) = Len(delivered')
                       /\ Timed(scheduler', delivered', frame.rate)
    <3>1. Accepts(scheduler, stream, frame, result)
      BY <1>7 DEF Accepts
    <3>2. CASE Continues(scheduler, stream)
      <4>1. scheduler.invalid # stream
        BY <1>7, AcceptedPushes
      <4>2. Intact
        BY <1>3, <2>2, <3>2, <4>1 DEF Intact, Continues
      <4>3. Precedes(delivered, scheduler, stream, delivered)
        BY <3>2 DEF Precedes
      <4>4. Extends(delivered', delivered, result.windows, sequence)
        BY <1>6, <3>2 DEF Extends
      <4>5. ReadyToPush(scheduler, stream, frame, offset, count, delivered)
        BY <4>2 DEF ReadyToPush, ShapeInv
      <4>6. KeepsLaid(scheduler, stream, frame, offset, delivered, result, delivered,
                      delivered', sequence)
        BY <3>1, <4>3, <4>4, <4>5, PushesLay
      <4> QED
        BY <1>0, <3>2, <4>6 DEF KeepsLaid
    <3>3. CASE ~Continues(scheduler, stream)
      <4>1. PICK given \in Seq(NumberedWindows) : given = <<>> /\ Len(given) = 0
        BY EmptySeq
      <4>2. Precedes(given, scheduler, stream, given)
        BY <3>3, <4>1 DEF Precedes
      <4>3. ReadyToPush(scheduler, stream, frame, offset, count, given)
        BY <3>3 DEF ReadyToPush, ShapeInv
      <4>4. result.windows \in Seq(Windows)
        <5>1. PICK x : x = given \o Numbered(result.windows, sequence)
          OBVIOUS
        <5>2. Extends(x, given, result.windows, sequence)
          BY <5>1 DEF Extends
        <5>3. KeepsLaid(scheduler, stream, frame, offset, given, result, given, x, sequence)
          BY <3>1, <4>2, <4>3, <5>2, PushesLay
        <5> QED BY <5>3 DEF KeepsLaid
      <4>5. delivered' = Numbered(result.windows, sequence)
        BY <1>6, <2>1, <3>3
      <4>6. Extends(delivered', given, result.windows, sequence)
        BY <4>1, <4>4, <4>5, NothingBefore
      <4>7. KeepsLaid(scheduler, stream, frame, offset, given, result, given,
                      delivered', sequence)
        BY <3>1, <4>2, <4>3, <4>6, PushesLay
      <4>8. Len(result.windows) \in Nat
        BY <4>4, LenProperties
      <4> QED
        BY <1>0, <3>3, <4>1, <4>7, <4>8 DEF KeepsLaid
    <3> QED BY <3>2, <3>3
  <2>3. overflowed' = overflowed
    BY <1>5, <1>7
  <2>4. Intact' => stream \notin overflowed
    BY <2>1, <2>3 DEF Intact
  <2>5. sequence + Len(result.windows) \in Nat
    BY <1>10
  <2> QED BY <1>3, <1>4, <2>1, <2>2, <2>3, <2>4, <2>5
<1>8. CASE result.outcome = "CutOverflow"
  <2>1. ~Intact'
    BY <1>2, <1>5, <1>8 DEF Intact, Invalidating
  <2> QED BY <1>4, <1>8, <1>10, <2>1
<1>9. CASE result.outcome \notin {"Ok", "CutOverflow"}
  <2>1. ASSUME Intact'
        PROVE  /\ delivered' \in Seq(NumberedWindows)
               /\ WellLaid(scheduler', delivered', offset)
    <3>1. result.scheduler = scheduler /\ result.windows = <<>>
      BY <1>2, <1>9, <2>1 DEF Intact
    <3>2. Intact
      BY <1>5, <1>9, <2>1, <3>1 DEF Intact
    <3>3. Numbered(result.windows, sequence) = <<>>
      BY <3>1 DEF Numbered
    <3>4. delivered' = delivered
      <4>1. delivered \o <<>> = delivered
        BY <3>2, ConcatEmptySeq
      <4>2. CASE Continues(scheduler, stream)
        BY <1>6, <3>3, <4>1, <4>2
      <4>3. CASE ~Continues(scheduler, stream)
        BY <1>6, <3>1, <4>3 DEF Continues
      <4> QED BY <4>2, <4>3
    <3> QED BY <3>1, <3>2, <3>4
  <2> QED BY <1>4, <1>9, <1>10, <2>1
<1> QED BY <1>7, <1>8, <1>9

\* Packets begin at places that can be counted.
LEMMA PositionsAreCounted ==
  ASSUME builder.next_position \in Nat \cup {None}
  PROVE  Positions \subseteq Nat
<1>1. CASE builder.next_position = None
  BY <1>1, PathAssumption DEF Positions
<1>2. CASE builder.next_position # None
  <2>1. builder.next_position \in Nat /\ builder.next_position + 1 \in Nat
    BY <1>2
  <2>2. Positions = {builder.next_position, builder.next_position + 1}
    BY <1>2 DEF Positions
  <2> QED BY <2>1, <2>2
<1> QED BY <1>1, <1>2

\* A packet that is built follows the one before it.
LEMMA BuiltPacketsFollow ==
  ASSUME NEW b, NEW packet, NEW r, BuildOutcome(b, packet, r) = "Ok"
  PROVE  b.next_position # None => packet.position = b.next_position
BY DEF BuildOutcome

\* The push of a built packet: its frame, and how far its position is ahead.
DevicePush(frame, offset, count, result) ==
  /\ WindowPush(DeviceStream, frame, offset, count, result)
  /\ frame.rate = rate /\ frame.start.index = builder.next_index
  /\ frame.start = Timestamp(builder.next_index, FrameTime(builder.next_index, rate))
  /\ builder'.next_index = builder.next_index + count
  /\ builder'.next_position = builder'.next_index + offset
  /\ builder'.next_position \in Nat

\* The push of a built packet is of the kind that keeps the windows.
LEMMA BuiltPacketsArePushed ==
  ASSUME PathInv, WindowsInv, feed = "Device", built = "Ok",
         builder.next_index <= FrameLimit,
         NEW packet \in Packets(PacketFrames, Positions, {0, 1}),
         BuildOutcome(builder, packet, rate) = "Ok",
         NEW result,
         result = Push(scheduler, DeviceStream,
                       BuiltFrame(builder, packet, rate, DeviceStream)),
         scheduler' = result.scheduler,
         Records(DeviceStream, result, Encoded(result.windows)),
         builder' = Built(builder, packet, rate)
  PROVE  \E frame : \E offset \in Int :
           /\ frame = BuiltFrame(builder, packet, rate, DeviceStream)
           /\ DevicePush(frame, offset, packet.count, result)
<1>0. BuilderOK
  BY DEF PathInv
<1>1. PICK frame : frame = BuiltFrame(builder, packet, rate, DeviceStream)
  OBVIOUS
<1>2. PICK n \in Nat, count \in Nat, position \in Nat :
        n = builder.next_index /\ count = packet.count /\ position = packet.position
  <2>1. Positions \subseteq Nat
    BY PositionsAreCounted DEF WindowsInv
  <2>2. packet.position \in Nat
    BY <2>1 DEF Packets
  <2>3. packet.count \in Nat
    BY PathAssumption DEF Packets
  <2> QED BY <1>0, <2>2, <2>3 DEF BuilderOK
<1>3. PICK offset \in Int : offset = position - n
  OBVIOUS
<1>4. frame.rate = rate /\ frame.start = Timestamp(n, FrameTime(n, rate))
      /\ frame.start \in Timestamps
  BY <1>0, <1>1, <1>2, BuiltFrames
<1>5. frame.start.index = n
  BY <1>4 DEF Timestamp
<1>6. frame.samples = SampleFrames(DeviceStream, frame.start.index + offset, count)
  <2>1. frame.samples = SampleFrames(DeviceStream, position, count)
    BY <1>1, <1>2 DEF BuiltFrame, Frame
  <2>2. n + offset = position
    BY <1>3
  <2> QED BY <1>5, <2>1, <2>2
<1>7. /\ builder'.next_index = n + count
      /\ builder'.next_position = position + count
  <2>1. builder' = [builder EXCEPT
                      !.next_position = packet.position + packet.count,
                      !.next_index = @ + packet.count,
                      !.previous_qpc = packet.qpc]
    BY <1>0 DEF Built, BuilderOK
  <2> QED BY <1>0, <1>2, <2>1 DEF BuilderOK
<1>8. Intact => /\ delivered \in Seq(NumberedWindows)
                /\ WellLaid(scheduler, delivered, offset)
  <2> SUFFICES ASSUME Intact
               PROVE  /\ delivered \in Seq(NumberedWindows)
                      /\ WellLaid(scheduler, delivered, offset)
    OBVIOUS
  <2>1. delivered \in Seq(NumberedWindows)
    BY DEF WindowsInv, LaidInv
  <2>2. PICK before \in Int : WellLaid(scheduler, delivered, before) /\ Placed(before)
    BY DEF WindowsInv, LaidInv
  <2>3. builder.next_position \in Nat /\ builder.next_position = n + before
    BY <1>2, <2>2 DEF Placed
  <2>4. builder.next_position # None
    BY <2>3, PathAssumption
  <2>5. packet.position = builder.next_position
    BY <2>4, BuiltPacketsFollow
  <2>6. before = offset
    BY <1>2, <1>3, <2>3, <2>5
  <2> QED BY <2>1, <2>2, <2>6
<1>9. WindowPush(DeviceStream, frame, offset, count, result)
  <2>1. ShapeInv /\ sequence \in Nat
    BY DEF WindowsInv
  <2>2. rate \in Rates
    BY <1>0 DEF BuilderOK
  <2> QED
    BY <1>1, <1>4, <1>6, <1>8, <2>1, <2>2, DeviceStreamType DEF WindowPush
<1>10. /\ builder'.next_position = builder'.next_index + offset
       /\ builder'.next_position \in Nat
  BY <1>3, <1>7
<1>11. DevicePush(frame, offset, count, result)
  BY <1>2, <1>4, <1>5, <1>7, <1>9, <1>10 DEF DevicePush
<1> QED BY <1>1, <1>2, <1>11

\* Of a device of which nothing was refused, a push comes at its time.
LEMMA DevicePushesAreTimely ==
  ASSUME PathInv, WindowsInv, feed = "Device", refusal = None,
         NEW frame, NEW offset, NEW count, NEW result,
         DevicePush(frame, offset, count, result)
  PROVE  Timely(DeviceStream, frame)
<1>1. /\ InStep /\ overflowed = {}
      /\ scheduler.active = None => sequence = 0
      /\ scheduler.active # None =>
           sequence = Len(delivered) /\ Timed(scheduler, delivered, rate)
  BY DEF PathInv, WindowsInv, NumberedInv
<1>2. Continues(scheduler, DeviceStream) <=> scheduler.active = DeviceStream
  BY DEF Continues
<1>3. /\ scheduler.active \in {None, DeviceStream} /\ DeviceStream # None
      /\ scheduler.active = None => builder.next_index = 0
      /\ scheduler.active = DeviceStream => scheduler.origin = Timestamp(0, 0)
      /\ scheduler \in Schedulers
  BY <1>1, DeviceStreamType DEF InStep
<1>4. /\ frame.rate = rate
      /\ frame.start = Timestamp(builder.next_index, FrameTime(builder.next_index, rate))
  BY DEF DevicePush
<1>5. OnTime(frame.start, frame.rate)
  BY <1>4 DEF OnTime, Timestamp
<1>6. StartsFrom(scheduler, DeviceStream, frame).origin = Timestamp(0, 0)
  <2>1. CASE Continues(scheduler, DeviceStream)
    BY <1>2, <1>3, <2>1 DEF StartsFrom
  <2>2. CASE ~Continues(scheduler, DeviceStream)
    <3>1. builder.next_index = 0
      BY <1>2, <1>3, <2>2
    <3>2. FrameTime(0, rate) = 0
      <4>1. rate \in Nat \ {0}
        BY PathAssumption DEF PathInv, BuilderOK
      <4> QED BY <4>1, WordAssumption DEF FrameTime
    <3>3. StartsFrom(scheduler, DeviceStream, frame) = Begun(scheduler, DeviceStream, frame)
      BY <2>2 DEF StartsFrom
    <3>4. Begun(scheduler, DeviceStream, frame).origin = frame.start
      BY <1>3 DEF Begun, Cleared, Schedulers
    <3> QED BY <1>4, <3>1, <3>2, <3>3, <3>4
  <2> QED BY <2>1, <2>2
<1>7. /\ Continues(scheduler, DeviceStream) =>
           sequence = Len(delivered) /\ Timed(scheduler, delivered, frame.rate)
      /\ ~Continues(scheduler, DeviceStream) => sequence = 0
  BY <1>1, <1>2, <1>3, <1>4
<1> QED BY <1>1, <1>5, <1>6, <1>7 DEF Timely

\* A packet of a device, built or not, keeps what is known of the windows.
LEMMA PacketsKeepWindows ==
  ASSUME PathInv, WindowsInv, DevicePacket
  PROVE  WindowsInv'
<1>0. BuilderOK
  BY DEF PathInv
<1>1. PICK packet \in Packets(PacketFrames, Positions, {0, 1}) :
        LET frame  == BuiltFrame(builder, packet, rate, DeviceStream)
            result == Push(scheduler, DeviceStream, frame)
        IN  /\ built' = BuildOutcome(builder, packet, rate)
            /\ builder' = Built(builder, packet, rate)
            /\ IF built' = "Ok"
                 THEN /\ scheduler' = result.scheduler
                      /\ outcome' = result.outcome
                      /\ sequence' = sequence + Len(result.windows)
                      /\ Records(DeviceStream, result, Encoded(result.windows))
                 ELSE UNCHANGED <<scheduler, outcome, sequence, delivered, refusal,
                                  overflowed>>
  BY DEF DevicePacket
<1>2. /\ builder.next_index <= FrameLimit /\ feed = "Device" /\ built = "Ok"
      /\ UNCHANGED <<feed, rate>>
  BY DEF DevicePacket
<1>3. packet.count \in Nat /\ packet.position \in Nat
  <2>1. Positions \subseteq Nat
    BY PositionsAreCounted DEF WindowsInv
  <2>2. packet.position \in Nat
    BY <2>1 DEF Packets
  <2> QED BY <2>2, PathAssumption DEF Packets
<1>4. CASE built' # "Ok"
  <2>1. builder'.next_position \in Nat \cup {None}
    <3>1. builder'.next_position
            \in {builder.next_position, packet.position + packet.count}
      BY <1>0, <1>1, <1>4 DEF Built, BuilderOK
    <3>2. packet.position + packet.count \in Nat
      BY <1>3
    <3> QED BY <3>1, <3>2 DEF WindowsInv
  <2>2. UNCHANGED <<scheduler, sequence, delivered, refusal, overflowed>>
    BY <1>1, <1>4
  <2>3. \A offset : Placed(offset) => Placed(offset)'
    BY <1>2, <1>4 DEF Placed
  <2>4. ShapeInv'
    BY <2>2 DEF WindowsInv, ShapeInv
  <2>5. NumberedInv'
    BY <1>2, <2>2 DEF WindowsInv, NumberedInv, Timed
  <2>6. LaidInv'
    <3> SUFFICES ASSUME Intact'
                 PROVE  /\ delivered' \in Seq(NumberedWindows)
                        /\ \E offset \in Int :
                             WellLaid(scheduler', delivered', offset) /\ Placed(offset)'
      BY DEF LaidInv, WellLaid
    <3>1. Intact
      BY <2>2 DEF Intact
    <3>2. delivered \in Seq(NumberedWindows)
      BY <3>1 DEF WindowsInv, LaidInv
    <3>3. PICK offset \in Int : WellLaid(scheduler, delivered, offset) /\ Placed(offset)
      BY <3>1 DEF WindowsInv, LaidInv
    <3> QED BY <2>2, <2>3, <3>2, <3>3
  <2> QED BY <2>1, <2>2, <2>4, <2>5, <2>6 DEF WindowsInv
<1>5. CASE built' = "Ok"
  <2>1. PICK result : result = Push(scheduler, DeviceStream,
                                    BuiltFrame(builder, packet, rate, DeviceStream))
    OBVIOUS
  <2>2. /\ scheduler' = result.scheduler
        /\ sequence' = sequence + Len(result.windows)
        /\ Records(DeviceStream, result, Encoded(result.windows))
    BY <1>1, <1>5, <2>1
  <2>3. BuildOutcome(builder, packet, rate) = "Ok" /\ builder' = Built(builder, packet, rate)
    BY <1>1, <1>5
  <2>4. PICK count \in Nat : count = packet.count
    BY <1>3
  <2>5. PICK frame : \E offset \in Int :
          /\ frame = BuiltFrame(builder, packet, rate, DeviceStream)
          /\ DevicePush(frame, offset, count, result)
    BY <1>2, <2>1, <2>2, <2>3, <2>4, BuiltPacketsArePushed
  <2>6. PICK offset \in Int : DevicePush(frame, offset, count, result)
    BY <2>5
  <2>7. WindowPush(DeviceStream, frame, offset, count, result)
    BY <2>6 DEF DevicePush
  <2>8. /\ ShapeInv'
        /\ Intact' => /\ delivered' \in Seq(NumberedWindows)
                      /\ WellLaid(scheduler', delivered', offset)
        /\ sequence + Len(result.windows) \in Nat
        /\ result.outcome = "Ok" /\ Timely(DeviceStream, frame)
             => /\ overflowed' = {} /\ scheduler'.active # None
                /\ sequence + Len(result.windows) = Len(delivered')
                /\ Timed(scheduler', delivered', frame.rate)
    BY <2>7, PushesKeepWindows
  <2>9. Placed(offset)'
    BY <1>2, <2>6 DEF Placed, DevicePush
  <2>10. LaidInv'
    <3> SUFFICES ASSUME Intact'
                 PROVE  /\ delivered' \in Seq(NumberedWindows)
                        /\ \E before \in Int :
                             WellLaid(scheduler', delivered', before) /\ Placed(before)'
      BY DEF LaidInv, WellLaid
    <3> QED BY <2>8, <2>9
  <2>11. NumberedInv'
    <3> SUFFICES ASSUME refusal' = None
                 PROVE  /\ overflowed' = {}
                        /\ scheduler'.active = None => sequence' = 0
                        /\ scheduler'.active # None =>
                             /\ sequence' = Len(delivered')
                             /\ Timed(scheduler', delivered', rate')
      BY DEF NumberedInv, Timed
    <3>1. refusal' = IF refusal = None /\ result.outcome # "Ok"
                     THEN result.outcome ELSE refusal
      BY <2>2 DEF Records
    <3>2. refusal = None
      BY <3>1, <2>1
    <3>3. result.outcome = "Ok"
      <4>1. builder'.next_index = builder.next_index + packet.count
        BY <2>4, <2>6 DEF DevicePush
      <4>2. \/ result.outcome = "Ok" /\ InStep'
            \/ result.outcome \in {"OversizedInput", "WindowFrameCountOutOfRange"}
            \/ result.outcome = "CutOverflow"
        BY <1>0, <1>2, <2>1, <2>2, <2>3, <3>2, <4>1, TakenFrames DEF PathInv
      <4> QED BY <3>1, <3>2, <4>2, RefusalAssumption DEF Untimely
    <3>4. Timely(DeviceStream, frame)
      BY <1>2, <2>6, <3>2, DevicePushesAreTimely
    <3>5. frame.rate = rate'
      BY <1>2, <2>6 DEF DevicePush
    <3> QED BY <2>2, <2>8, <3>3, <3>4, <3>5
  <2>12. builder'.next_position \in Nat \cup {None} /\ sequence' \in Nat
    BY <2>2, <2>6, <2>8 DEF DevicePush
  <2> QED BY <2>8, <2>10, <2>11, <2>12 DEF WindowsInv
<1> QED BY <1>4, <1>5

\* A frame of a library user keeps what is known of the windows.
LEMMA FramesKeepWindows ==
  ASSUME WindowsInv, LibraryFrame
  PROVE  WindowsInv'
<1>1. PICK stream \in Streams, frame_rate \in Rates, count \in PacketFrames \ {0},
           drift \in 0 .. 2 :
      \E index \in 0 .. FrameLimit :
        LET frame == Frame(Timestamp(index, FrameTime(index, frame_rate) + drift),
                           frame_rate, SampleFrames(stream, index, count))
            result == Push(scheduler, stream, frame)
        IN  /\ scheduler' = result.scheduler
            /\ Records(stream, result, Encoded(result.windows))
  BY DEF LibraryFrame
<1>2. PICK index \in 0 .. FrameLimit :
        LET frame == Frame(Timestamp(index, FrameTime(index, frame_rate) + drift),
                           frame_rate, SampleFrames(stream, index, count))
            result == Push(scheduler, stream, frame)
        IN  /\ scheduler' = result.scheduler
            /\ Records(stream, result, Encoded(result.windows))
  BY <1>1
<1>3. PICK frame :
        frame = Frame(Timestamp(index, FrameTime(index, frame_rate) + drift),
                      frame_rate, SampleFrames(stream, index, count))
  OBVIOUS
<1>4. PICK result : result = Push(scheduler, stream, frame)
  OBVIOUS
<1>5. /\ scheduler' = result.scheduler
      /\ Records(stream, result, Encoded(result.windows))
  BY <1>2, <1>3, <1>4
<1>6. feed = "Library" /\ UNCHANGED <<feed, rate, builder, built, sequence>>
  BY DEF LibraryFrame
<1>7. PICK offset \in Int : offset = 0
  OBVIOUS
<1>8. count \in Nat /\ index \in Nat
  BY PathAssumption
<1>9. WindowPush(stream, frame, offset, count, result)
  <2>1. ShapeInv /\ sequence \in Nat
    BY DEF WindowsInv
  <2>2. PICK time \in Nat : time = FrameTime(index, frame_rate) + drift
    <3>1. index * NanosPerSecond \in Nat /\ frame_rate \in Nat \ {0}
      BY <1>8, WordAssumption, PathAssumption
    <3>2. FrameTime(index, frame_rate) \in Nat
      BY <3>1, Quotient DEF FrameTime
    <3> QED BY <3>2
  <2>3. frame.rate = frame_rate /\ frame.start = Timestamp(index, time)
        /\ frame.samples = SampleFrames(stream, index, count)
    BY <1>3, <2>2 DEF Frame
  <2>4. frame.start \in Timestamps /\ frame.start.index = index
    BY <1>8, <2>3 DEF Timestamp, Timestamps
  <2>5. frame.samples = SampleFrames(stream, frame.start.index + offset, count)
    BY <1>7, <1>8, <2>3, <2>4
  <2>6. Intact => /\ delivered \in Seq(NumberedWindows)
                  /\ WellLaid(scheduler, delivered, offset)
    BY <1>6, <1>7 DEF WindowsInv, LaidInv, Placed
  <2> QED
    BY <1>4, <1>5, <1>7, <1>8, <2>1, <2>3, <2>4, <2>5, <2>6 DEF WindowPush
<1>10. /\ ShapeInv'
       /\ Intact' => /\ delivered' \in Seq(NumberedWindows)
                     /\ WellLaid(scheduler', delivered', offset)
  BY <1>9, PushesKeepWindows
<1>11. Placed(offset)'
  BY <1>6, <1>7 DEF Placed
<1>12. LaidInv'
  <2> SUFFICES ASSUME Intact'
               PROVE  /\ delivered' \in Seq(NumberedWindows)
                      /\ \E before \in Int :
                           WellLaid(scheduler', delivered', before) /\ Placed(before)'
    BY DEF LaidInv, WellLaid
  <2> QED BY <1>10, <1>11
<1>13. NumberedInv'
  BY <1>6 DEF NumberedInv
<1> QED BY <1>6, <1>10, <1>12, <1>13 DEF WindowsInv

\* A function on the first numbers is a sequence.
LEMMA FunctionsAreSequences ==
  ASSUME NEW S, NEW n \in Nat, NEW f \in [1 .. n -> S]
  PROVE  f \in Seq(S) /\ Len(f) = n
OBVIOUS

\* Windows that lie one after the other.
InARow(windows, stream, place, w, count) ==
  /\ windows \in Seq(Seq(PlacedFrames)) /\ Len(windows) = count
  /\ \A k \in 1 .. count :
       windows[k] = SampleFrames(stream, place + (k - 1) * w, w)

\* Put together they are the frames from the first one's place.
LEMMA RowsJoin ==
  ASSUME NEW stream \in Streams, NEW place \in Int, NEW w \in Nat, NEW count \in Nat,
         NEW windows, InARow(windows, stream, place, w, count),
         NEW length \in Nat, length = count * w
  PROVE  FlattenSeq(windows) = SampleFrames(stream, place, length)
<1>1. PICK row \in Seq(Seq(PlacedFrames)) :
        /\ row = windows /\ Len(row) = count
        /\ \A k \in 1 .. count :
             row[k] = SampleFrames(stream, place + (k - 1) * w, w)
  BY DEF InARow
<1>2. FlattenSeq(row) = SampleFrames(stream, place, count * w)
  BY <1>1, WindowsJoin
<1> QED BY <1>1, <1>2

\* What is given and retained of an intact stream: so many windows from a place
\* on, and a rest.
GivenInARow(given, stream, first, offset, r, n, w, length, place, middle, rest, total) ==
  /\ given \in Seq(NumberedWindows) /\ n = Len(given)
  /\ Follow(given, stream, first, offset, r) /\ w = WindowFrames(r)
  /\ length = n * w /\ place = first + offset
  /\ middle = place + length /\ total = length + rest

\* The product of two numbers is one.
LEMMA Products ==
  ASSUME NEW m \in Nat, NEW n \in Nat
  PROVE  m * n \in Nat
OBVIOUS

\* Put together they are the frames from that place on.
LEMMA WindowsPutTogether ==
  ASSUME NEW given \in Seq(NumberedWindows), NEW stream \in Streams, NEW first \in Nat,
         NEW offset \in Int, NEW r, NEW n \in Nat, NEW w \in Nat, NEW length \in Nat,
         NEW place \in Int,
         NEW middle \in Int, NEW rest \in Nat, NEW total \in Nat,
         GivenInARow(given, stream, first, offset, r, n, w, length, place, middle,
                     rest, total)
  PROVE  Joins(SamplesOf(given), SampleFrames(stream, middle, rest),
               SampleFrames(stream, place, total))
<1>1. PICK windows : windows = [k \in DOMAIN given |-> given[k].window.samples]
  OBVIOUS
<1>2. \A k \in 1 .. n : given[k] \in NumberedWindows
  BY ElementOfSeq DEF GivenInARow
<1>3. \A k \in 1 .. n : given[k].window.samples \in Seq(PlacedFrames)
  BY <1>2 DEF NumberedWindows, Windows
<1>4. DOMAIN given = 1 .. n
  BY DEF GivenInARow
<1>5. windows \in Seq(Seq(PlacedFrames)) /\ Len(windows) = n
  <2>1. windows \in [1 .. n -> Seq(PlacedFrames)]
    BY <1>1, <1>3, <1>4
  <2> QED BY <2>1, FunctionsAreSequences
<1>6. ASSUME NEW k \in 1 .. n
      PROVE  windows[k] = SampleFrames(stream, place + (k - 1) * w, w)
  <2>1. windows[k] = given[k].window.samples
    BY <1>1, <1>4
  <2>2. given[k].window.samples
          = SampleFrames(stream, (first + (k - 1) * w) + offset, w)
    BY DEF GivenInARow, Follow, Holds
  <2>3. PICK i \in Nat : i = (k - 1) * w
    <3>1. PICK m \in Nat : m = k - 1
      OBVIOUS
    <3>2. m * w \in Nat
      BY Products
    <3> QED BY <3>1, <3>2
  <2>4. (first + i) + offset = place + i
    BY DEF GivenInARow
  <2> QED BY <2>1, <2>2, <2>3, <2>4
<1>7. FlattenSeq(windows) = SampleFrames(stream, place, length)
  <2>1. InARow(windows, stream, place, w, n)
    BY <1>5, <1>6 DEF InARow
  <2>2. length = n * w
    BY DEF GivenInARow
  <2> QED BY <2>1, <2>2, RowsJoin
<1>8. SamplesOf(given) = SampleFrames(stream, place, length)
  BY <1>1, <1>7 DEF SamplesOf
<1>9. Joins(SampleFrames(stream, place, length), SampleFrames(stream, middle, rest),
            SampleFrames(stream, place, total))
  BY FramesAppend DEF GivenInARow
<1> QED BY <1>8, <1>9

\* The invariant says that the windows are exact.
LEMMA LaidWindowsAreExact ==
  ASSUME WindowsInv
  PROVE  WindowsAreExact
<1> SUFFICES ASSUME scheduler.active \notin overflowed, scheduler.expected # None
    PROVE  LET samples == SamplesOf(delivered) \o scheduler.samples
               length == WindowFrames(scheduler.rate)
           IN  /\ Len(samples) = scheduler.expected.index - scheduler.origin.index
               /\ Len(scheduler.samples) < length
               /\ \A i \in DOMAIN samples :
                    samples[i] = [stream |-> scheduler.active,
                                  at |-> samples[1].at + i - 1]
               /\ \A k \in DOMAIN delivered :
                    LET window == delivered[k].window
                    IN  /\ Len(window.samples) = length
                        /\ window.start.index = scheduler.origin.index
                             + window.samples[1].at - samples[1].at
                        /\ feed = "Device" /\ refusal = None =>
                             /\ window.start.time = FrameTime(window.start.index, rate)
                             /\ delivered[k].number = k - 1
  BY DEF WindowsAreExact
<1>1. scheduler.active \in Streams /\ Intact
  BY DEF WindowsInv, ShapeInv, Intact
<1>2. PICK given \in Seq(NumberedWindows) : given = delivered
  BY <1>1 DEF WindowsInv, LaidInv
<1>3. PICK offset \in Int : WellLaid(scheduler, given, offset)
  BY <1>1, <1>2 DEF WindowsInv, LaidInv
<1>4. PICK rest \in Nat : Laid(scheduler, given, offset, rest)
  BY <1>3 DEF WellLaid
<1>5. PICK stream \in Streams : stream = scheduler.active
  BY <1>1
<1>0. PICK r : r = scheduler.rate
  OBVIOUS
<1>6. PICK w \in Nat \ {0} : w = WindowFrames(r)
  BY <1>0, <1>4, <1>5 DEF Laid
<1>7. PICK n \in Nat : n = Len(given)
  BY LenProperties
<1>8. PICK first \in Nat : first = scheduler.origin.index
  BY <1>4 DEF Laid, Timestamps
<1>9. PICK length \in Nat : length = n * w
  OBVIOUS
<1>10. PICK place \in Int : place = first + offset
  OBVIOUS
<1>11. PICK middle \in Int : middle = place + length
  OBVIOUS
<1>12. PICK total \in Nat : total = length + rest
  OBVIOUS
<1>13. /\ rest < w
       /\ scheduler.samples = SampleFrames(stream, first + length + offset, rest)
       /\ scheduler.expected.index = first + length + rest
       /\ Follow(given, stream, first, offset, r)
  BY <1>0, <1>4, <1>5, <1>6, <1>7, <1>8, <1>9 DEF Laid
<1>14. scheduler.samples = SampleFrames(stream, middle, rest)
  <2>1. first + length + offset = middle
    BY <1>10, <1>11
  <2> QED BY <1>13, <2>1
<1>15. PICK samples : samples = SamplesOf(given) \o scheduler.samples
  OBVIOUS
<1>16. samples = SampleFrames(stream, place, total)
  <2>1. Joins(SamplesOf(given), SampleFrames(stream, middle, rest),
              SampleFrames(stream, place, total))
    <3>1. GivenInARow(given, stream, first, offset, r, n, w, length, place, middle,
                      rest, total)
      BY <1>6, <1>7, <1>9, <1>10, <1>11, <1>12, <1>13 DEF GivenInARow
    <3>2. w \in Nat
      BY <1>6
    <3> QED BY <3>1, <3>2, WindowsPutTogether
  <2> QED BY <1>14, <1>15, <2>1 DEF Joins
<1>17. /\ Len(samples) = total /\ DOMAIN samples = 1 .. total
       /\ \A i \in 1 .. total : samples[i] = [stream |-> stream, at |-> place + i - 1]
  <2>1. /\ samples \in Seq(PlacedFrames) /\ Len(samples) = total
        /\ \A i \in 1 .. total : samples[i] = [stream |-> stream, at |-> place + i - 1]
    BY <1>16, FramesAreTyped
  <2> QED BY <2>1
<1>18. Len(samples) = scheduler.expected.index - scheduler.origin.index
  BY <1>8, <1>12, <1>13, <1>17
<1>19. Len(scheduler.samples) < w
  BY <1>13, <1>14, FramesAreTyped
<1>20. 1 \in 1 .. total => samples[1].at = place
  BY <1>17
<1>21. \A i \in DOMAIN samples :
         samples[i] = [stream |-> scheduler.active, at |-> samples[1].at + i - 1]
  <2> SUFFICES ASSUME NEW i \in 1 .. total
               PROVE  samples[i] = [stream |-> stream, at |-> samples[1].at + i - 1]
    BY <1>0, <1>5, <1>17
  <2>1. samples[1].at = place
    BY <1>20
  <2> QED BY <1>17, <2>1
<1>22. ASSUME NEW k \in DOMAIN given
       PROVE  LET window == given[k].window
              IN  /\ Len(window.samples) = w
                  /\ window.start.index = scheduler.origin.index
                       + window.samples[1].at - samples[1].at
                  /\ feed = "Device" /\ refusal = None =>
                       /\ window.start.time = FrameTime(window.start.index, rate)
                       /\ given[k].number = k - 1
  <2>1. k \in 1 .. n
    BY <1>7
  <2>2. Holds(given[k].window, stream, first + (k - 1) * w, offset, r)
    BY <1>6, <1>7, <1>13, <2>1 DEF Follow
  <2>3. PICK i \in Nat : i = (k - 1) * w
    BY <2>1
  <2>4. PICK at \in Int : at = (first + i) + offset /\ at = place + i
    BY <1>10
  <2>5. /\ given[k].window.samples = SampleFrames(stream, at, w)
        /\ given[k].window.start.index = first + i
    BY <1>6, <2>2, <2>3, <2>4 DEF Holds
  <2>6. PICK held : held = given[k].window.samples
    OBVIOUS
  <2>7. Len(held) = w /\ held[1] = [stream |-> stream, at |-> at + 1 - 1]
    BY <2>5, <2>6, FramesAreTyped
  <2>8. held[1].at = at
    BY <2>7
  <2>9. 1 \in 1 .. total
    <3>1. n # 0 /\ n >= 1
      BY <2>1
    <3>2. n * w # 0
      BY <3>1
    <3> QED BY <1>9, <1>12, <3>2
  <2>10. first + i = first + at - place
    BY <2>4
  <2>11. given[k].window.start.index
           = scheduler.origin.index + held[1].at - samples[1].at
    BY <1>8, <1>20, <2>5, <2>8, <2>9, <2>10
  <2>12. ASSUME feed = "Device", refusal = None
         PROVE  /\ given[k].window.start.time
                     = FrameTime(given[k].window.start.index, rate)
                /\ given[k].number = k - 1
    <3>1. scheduler.active # None
      BY <1>1 DEF Intact
    <3>2. Timed(scheduler, given, rate)
      BY <1>2, <2>12, <3>1 DEF WindowsInv, NumberedInv
    <3> QED BY <1>7, <2>1, <3>2 DEF Timed, Punctual, OnTime
  <2> QED BY <2>6, <2>7, <2>11, <2>12
<1> QED BY <1>0, <1>2, <1>5, <1>6, <1>15, <1>18, <1>19, <1>21, <1>22

\* The windows delivered are exact, for every rate, window length, packet length,
\* width of the word and number of streams and frames: of a stream that lost no
\* windows to a timestamp overflow, each has the full length and the frames that
\* belong to it, in order and once, under the index of the first; and of a device
\* that has had nothing refused, under its number and time.
THEOREM WindowsExact == Spec => []WindowsAreExact
<1>1. Init => PathInv /\ WindowsInv
  <2> SUFFICES ASSUME Init PROVE PathInv /\ WindowsInv
    OBVIOUS
  <2>1. PathInv
    BY PathBegins
  <2>2. /\ scheduler.active = None /\ Formed(scheduler) /\ scheduler.expected = None
        /\ scheduler.samples \in Seq(PlacedFrames)
    BY EmptySeq DEF Init, NewScheduler, Formed
  <2>3. sequence = 0 /\ overflowed = {} /\ builder.next_position = None
    BY DEF Init, NewBuilder
  <2>4. WindowsInv
    BY <2>2, <2>3 DEF WindowsInv, ShapeInv, LaidInv, NumberedInv, Intact
  <2> QED BY <2>1, <2>4
<1>2. PathInv /\ WindowsInv /\ [Next]_vars => PathInv' /\ WindowsInv'
  <2> SUFFICES ASSUME PathInv, WindowsInv, [Next]_vars PROVE PathInv' /\ WindowsInv'
    OBVIOUS
  <2>1. PathInv'
    BY StepsKeepPath
  <2>2. CASE UNCHANGED vars
    <3>1. ShapeInv' /\ NumberedInv' /\ builder' = builder /\ sequence' = sequence
      BY <2>2 DEF vars, WindowsInv, ShapeInv, NumberedInv, Timed
    <3>2. LaidInv'
      BY <2>2 DEF vars, WindowsInv, LaidInv, Intact, Placed, WellLaid
    <3> QED BY <2>1, <3>1, <3>2 DEF WindowsInv
  <2> QED BY <2>1, <2>2, PacketsKeepWindows, FramesKeepWindows DEF Next
<1>3. WindowsInv => WindowsAreExact
  BY LaidWindowsAreExact
<1> QED BY <1>1, <1>2, <1>3, PTL DEF Spec
=============================================================================
