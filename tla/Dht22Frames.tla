----------------------------- MODULE Dht22Frames ----------------------------
(***************************************************************************)
(* What the DHT22 drivers make of the pulses of the sensor's line          *)
(* (src/dht22_lib.rs).  A frame is a start marker, 40 bits and an end      *)
(* marker, sent as alternating low and high pulses; a bit is the length of *)
(* its high pulse.  The drivers poll the line and may miss a pulse that is *)
(* too short for them, which joins it with its neighbours.  Pulses are     *)
(* lengths in microseconds, bytes are numbers from 0 to 255.               *)
(***************************************************************************)
EXTENDS Integers, Sequences

CONSTANTS Measurements,  \* humidities and temperatures tried, in tenths
          Timeout, Checksum, Suspicious  \* errors of a readout

\* What a sensor can measure: up to 100 %, and a magnitude of fifteen bits.
ASSUME FramesAssumption ==
  /\ Measurements \subseteq [humidity : 0 .. 1000, temperature : Int]
  /\ \A m \in Measurements : -32768 < m.temperature /\ m.temperature < 32768

Low == 50  \* low pulse before each bit
Zero == 27
One == 70

\* compute_checksum.
ComputeChecksum(d) == (d[1] + d[2] + d[3] + d[4]) % 256

\* decode_reading, in tenths: sign and magnitude for the temperature.
DecodeReading(d) ==
  [humidity |-> d[1] * 256 + d[2],
   temperature |-> ((d[3] % 128) * 256 + d[4]) * (IF d[3] >= 128 THEN -1 ELSE 1)]

\* pulses_to_binary: the byte of the eight bits from the i-th on, most significant first.
Octet(bits, i) ==
  128 * bits[i] + 64 * bits[i + 1] + 32 * bits[i + 2] + 16 * bits[i + 3]
    + 8 * bits[i + 4] + 4 * bits[i + 5] + 2 * bits[i + 6] + bits[i + 7]

\* The end of decode_pulses and decode: five bytes from forty bits.
DecodeBits(bits) ==
  LET data == [j \in 1 .. 5 |-> Octet(bits, 8 * j - 7)]
  IN  IF data[5] # ComputeChecksum(data) THEN Checksum ELSE DecodeReading(data)

\* decode_pulses: the second, fourth... pulse is a bit; 51 is high_threshold.
DecodePulses(pulses) ==
  DecodeBits([i \in 1 .. 40 |-> IF pulses[2 * i] > 51 THEN 1 ELSE 0])

\* The i-th pulse replaced by a low pulse, a bit and a low pulse.
Restored(pulses, i, bit) ==
  SubSeq(pulses, 1, i - 1) \o <<Low, bit, Low>> \o SubSeq(pulses, i + 1, Len(pulses))

\* MUTANT of FixPulses: drops the last two pulses instead of the start marker.
FixPulses_End(pulses) ==
  LET long == {i \in 3 .. 81 : pulses[i] > 120}
      i    == CHOOSE k \in long : \A l \in long : k <= l
      bit  == IF pulses[i] < 160 THEN Zero ELSE One
  IN  IF long = {} THEN pulses
      ELSE SubSeq(Restored(pulses, i, bit), 1, 81)

\* A record of 82 transitions has missed a pulse: the first that is too long, after
\* the start marker, is taken for a low pulse, a bit and a low pulse.
FixPulses(pulses) ==
  LET long == {i \in 3 .. 81 : pulses[i] > 120}
      i    == CHOOSE k \in long : \A l \in long : k <= l
      bit  == IF pulses[i] < 160 THEN Zero ELSE One
  IN  IF long = {} THEN pulses
      ELSE SubSeq(Restored(pulses, i, bit), 3, 83)

\* read_pin_inner_2 and decode_pulses on the pulses between the recorded transitions,
\* of which there is one more: fewer than 82 are a timeout, of more the last 82 count.
ReadPin2(pulses) ==
  LET last == SubSeq(pulses, Len(pulses) - 80, Len(pulses))
  IN  IF Len(pulses) < 81 THEN Timeout
      ELSE DecodePulses(IF Len(pulses) = 81 THEN FixPulses(last) ELSE last)

\* do_read_sensor, and readout_sensors of the expander: more than 100 % is no humidity.
Accept(reading) ==
  IF reading \in {Timeout, Checksum} THEN reading
  ELSE IF reading.humidity > 1000 THEN Suspicious ELSE reading

\* decode of the first driver: high pulses are told apart by the mean low pulse.
Decode(counts) ==
  LET sum[c \in 0 .. 40] == IF c = 0 THEN 0 ELSE sum[c - 1] + counts[2 * c + 1]
      threshold == sum[40] \div 40
  IN  DecodeBits([i \in 1 .. 40 |-> IF counts[2 * i + 2] >= threshold THEN 1 ELSE 0])
-----------------------------------------------------------------------------
\* The four data bytes of a measurement: the temperature as sign and magnitude.
Bytes(m) ==
  LET size == IF m.temperature < 0 THEN -m.temperature ELSE m.temperature
  IN  <<m.humidity \div 256, m.humidity % 256,
        (size \div 256) + (IF m.temperature < 0 THEN 128 ELSE 0), size % 256>>

\* What the sensor sends: the data bytes and their checksum.
Sent(m) == Append(Bytes(m), ComputeChecksum(Bytes(m)))

\* The same in bits, each byte's most significant one first.
Bits(m) == [i \in 1 .. 40 |-> (Sent(m)[(i + 7) \div 8] \div 2^((40 - i) % 8)) % 2]

\* The first n pulses of the line, as the sensor drives it for a measurement.
Pulses(m, n) ==
  [i \in 1 .. n |-> IF i <= 2 THEN 80
                    ELSE IF i % 2 = 1 THEN Low
                    ELSE IF Bits(m)[i \div 2 - 1] = 1 THEN One ELSE Zero]

Line(m) == Pulses(m, 82)    \* up to the last bit
Marked(m) == Pulses(m, 83)  \* and the end marker

\* What a driver that missed pulse k has of them.
Missing(pulses, k) ==
  [i \in 1 .. Len(pulses) - 2 |->
     IF i < k - 1 THEN pulses[i]
     ELSE IF i = k - 1 THEN pulses[i] + pulses[i + 1] + pulses[i + 2]
     ELSE pulses[i + 2]]

\* Slower or faster processors count the pulses differently.
Scaled(pulses, num, den) == [i \in DOMAIN pulses |-> (pulses[i] * num) \div den]
-----------------------------------------------------------------------------
\* What is read is what the sensor measured, below zero too: by either driver, in
\* whatever unit the first one counts, and by the second one after it missed any of
\* the high pulses, a bit or the start marker.
ReadingIsTheSensors ==
  \A m \in Measurements :
    /\ ReadPin2(Marked(m)) = m
    /\ \A k \in {2 * i : i \in 1 .. 41} : ReadPin2(Missing(Marked(m), k)) = m
    /\ \A num \in {1, 3, 17} : \A den \in {1, 2} : Decode(Scaled(Line(m), num, den)) = m

\* A missed pulse never leads to a wrong reading, not even one with a correct
\* checksum: those all have an impossible humidity.
MissedPulseNeverLies ==
  \A m \in Measurements : \A k \in 2 .. 82 :
    Accept(ReadPin2(Missing(Marked(m), k))) \in {m, Timeout, Checksum, Suspicious}
=============================================================================
