---------------------------- MODULE ButtonFrames ----------------------------
(***************************************************************************)
(* The wire format of the button expander (mod device of                   *)
(* src/button_expander.rs): two registers of pins and a checksum, sent     *)
(* three times, each time with the bits of every byte rotated further, so  *)
(* that a bad data line does not hit the same bit of all three.  Bytes are *)
(* numbers from 0 to 255; the arithmetic wraps as in a release build.      *)
(***************************************************************************)
EXTENDS Integers

CONSTANTS Register1, Register2,  \* contents tried for the two registers
          ChecksumError          \* ButtonExpanderData::ChecksumError

Byte == 0 .. 255

ASSUME ButtonFramesAssumption == Register1 \subseteq Byte /\ Register2 \subseteq Byte

Bit(b, k) == (b \div 2^k) % 2

RotateLeft(b, n) == ((b * 2^n) % 256) + ((b * 2^n) \div 256)
RotateRight(b, n) == RotateLeft(b, (8 - n) % 8)

\* MUTANT of ComputeChecksum: the sum itself is sent.
ComputeChecksum_Sum(b1, b2) == (b1 + b2) % 256

ComputeChecksum(b1, b2) == RotateLeft((b1 + RotateLeft(b2, 3)) % 256, 3)

\* reorder_pin_positions: re-invert P12 and P13, put each pin in its place.
ReorderPinPositions(b1, b2) ==
  LET v1 == IF b1 % 2 = 1 THEN b1 - 1 ELSE b1 + 1
      v2 == IF b2 >= 128 THEN b2 - 128 ELSE b2 + 128
      Place(v, from, to) == Bit(v, from) * 2^to
      pin_a == Place(v2, 0, 7) + Place(v1, 3, 6) + Place(v1, 4, 5) + Place(v1, 5, 4)
                 + Place(v2, 1, 3) + Place(v2, 2, 2) + Place(v2, 3, 1) + Place(v2, 4, 0)
      pin_b == Place(v1, 6, 7) + Place(v1, 7, 6) + Place(v2, 5, 5) + Place(v2, 6, 4)
                 + Place(v2, 7, 3) + Place(v1, 0, 2) + Place(v1, 1, 1) + Place(v1, 2, 0)
  IN  <<255 - pin_b, 255 - pin_a>>

\* The input values of the ports (vals in handle_update_async and update_inner).
PortValues(pins) == [p \in 0 .. 15 |-> Bit(pins[1] * 256 + pins[2], p) = 1]

Shift == <<0, 3, 6>>

\* decode_single_transmission, up to the reordering: bytes are numbered from 1.
Transmission(values, t) == [i \in 1 .. 3 |-> RotateRight(values[3 * (t - 1) + i], Shift[t])]
Matches(tr) == tr[3] = ComputeChecksum(tr[1], tr[2])

\* try_decode_transmissions: the first of the three that matches its checksum.
TryDecodeTransmissions(values) ==
  LET good == {t \in 1 .. 3 : Matches(Transmission(values, t))}
      tr   == Transmission(values, CHOOSE t \in good : \A u \in good : t <= u)
  IN  IF good = {} THEN ChecksumError ELSE PortValues(ReorderPinPositions(tr[1], tr[2]))

\* What the board sends for its registers, as the decoder expects it.
Sent(b1, b2) ==
  [i \in 1 .. 9 |-> RotateLeft(<<b1, b2, ComputeChecksum(b1, b2)>>[((i - 1) % 3) + 1],
                               Shift[((i - 1) \div 3) + 1])]
-----------------------------------------------------------------------------
\* The table in the comment of reorder_pin_positions: the pins of the register bits,
\* from bit 7 to bit 0, and the two pins that are wired the other way.
Pins1 == <<9, 8, 3, 2, 1, 15, 14, 13>>
Pins2 == <<12, 11, 10, 7, 6, 5, 4, 0>>
Inverted == {12, 13}
PinLevel(b1, b2, pin) ==
  \E k \in 0 .. 7 :
    LET level == IF Pins1[8 - k] = pin THEN Bit(b1, k) ELSE Bit(b2, k)
    IN  /\ pin \in {Pins1[8 - k], Pins2[8 - k]}
        /\ (level = 0) <=> pin \notin Inverted

\* Every pin of the table reaches a port of its own, and is On there when its line is
\* low, or high for the two inverted ones, whatever the other pins are.  Ports count
\* down within each half ("everything is flipped"): port 0 is P07 and port 15 P08.
\* One transmission is enough for that, with the other two lost to a bus that reads
\* as ones.
OneTransmissionIsEnough ==
  \A b1 \in Register1, b2 \in Register2, kept \in {{1}, {2}, {3}, 1 .. 3} :
    TryDecodeTransmissions([i \in 1 .. 9 |-> IF ((i - 1) \div 3) + 1 \in kept
                                             THEN Sent(b1, b2)[i] ELSE 255])
      = [p \in 0 .. 15 |-> PinLevel(b1, b2, IF p < 8 THEN 7 - p ELSE 23 - p)]

Stuck(values, k, level) ==
  [i \in 1 .. 9 |-> values[i] + (level - Bit(values[i], k)) * 2^k]

\* A data line of the bus stuck at a level shows as a checksum error or not at all,
\* but never as other buttons than those pressed: no set of nine bytes changed in one
\* and the same bit passes for another reading.
StuckLineNeverLies ==
  \A b1 \in Register1, b2 \in Register2, k \in 0 .. 7, level \in 0 .. 1 :
    TryDecodeTransmissions(Stuck(Sent(b1, b2), k, level))
      \in {ChecksumError, TryDecodeTransmissions(Sent(b1, b2))}
=============================================================================
