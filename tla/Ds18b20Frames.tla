---------------------------- MODULE Ds18b20Frames ---------------------------
(***************************************************************************)
(* What the DS18B20 expander's library makes of the bytes it reads         *)
(* (src/ds18b20_expander_lib.rs).  A frame is two registers, a checksum, a *)
(* length and the data: eight bytes for each sensor a scan found, or two   *)
(* for each temperature, and nothing in it says which.                     *)
(***************************************************************************)
EXTENDS Integers, Sequences

CONSTANTS Err,   \* an error, whatever it says
          Junk   \* an ID or a temperature made of other bytes

BufferSize == 254

\* The bytes of a scan request: thirty sensors on a bus.
ScanBytes == 30 * 8

Width == [ids |-> 8, temperatures |-> 2]

Frame(of, items) == [of |-> of, items |-> items]

\* All registers zero: no data, and zero is the checksum of a length of zero.
ZeroFrame == Frame("temperatures", <<>>)

DataBytes(frame) == Width[frame.of] * Len(frame.items)

(***************************************************************************)
(* The data bytes that truncate_to_length and data_bytes leave of a buffer *)
(* with this length byte: what was announced, up to the whole buffer.      *)
(***************************************************************************)
TruncateToLength(length) == IF length + 4 >= BufferSize THEN BufferSize - 5 ELSE length

(***************************************************************************)
(* parse_device_id_results: as many IDs as the bytes make.                 *)
(***************************************************************************)
ParseDeviceIds(frame) ==
  IF DataBytes(frame) % 8 # 0 THEN Err
  ELSE [i \in 1 .. DataBytes(frame) \div 8 |-> IF frame.of = "ids" THEN frame.items[i] ELSE Junk]

(***************************************************************************)
(* parse_temperature_results: as many temperatures as the bytes make; IDs  *)
(* have an even number of bytes, too.                                      *)
(***************************************************************************)
ParseTemperatures(frame) ==
  [i \in 1 .. DataBytes(frame) \div 2 |->
     IF frame.of = "temperatures" THEN frame.items[i] ELSE Junk]

\* MUTANT of ParseTemperature: the lower limit is left out.
ParseTemperature_NoLimit(v) ==
  LET magnitude == v % 4096
  IN  IF \/ v \in {20480, 43008, 1360}
         \/ v \div 4096 \notin {0, 15}
      THEN Err
      ELSE IF v >= 32768 THEN -magnitude ELSE magnitude

(***************************************************************************)
(* One temperature, in sixteenths of a degree: three words are errors of   *)
(* the sensor, the upper four bits are all sign, the rest is magnitude,    *)
(* and less than -50 degrees is suspicious.                                *)
(***************************************************************************)
ParseTemperature(v) ==
  LET magnitude == v % 4096
      negative  == v >= 32768
  IN  IF \/ v \in {20480, 43008, 1360}      \* 0x5000, 0xA800, 0x0550
         \/ v \div 4096 \notin {0, 15}
         \/ negative /\ magnitude > 50 * 16
      THEN Err
      ELSE IF negative THEN -magnitude ELSE magnitude

-----------------------------------------------------------------------------
\* The words a board may send for a temperature: sign and magnitude, or what the
\* sensor itself measures in, two's complement.
SignMagnitude(t) == IF t < 0 THEN 61440 - t ELSE t
TwosComplement(t) == IF t < 0 THEN 65536 + t ELSE t

\* A DS18B20 measures -55 to 125 degrees.
Measurable == -55 * 16 .. 125 * 16

\* Whichever of the two the board sends, no temperature is decoded as another one:
\* a word is decoded to what was measured or refused.  Refused are 85 degrees, the
\* value of a sensor that has not measured yet, and what is below -50 degrees.
NoWrongTemperature ==
  \A t \in Measurable :
    /\ ParseTemperature(SignMagnitude(t)) =
         IF t = 85 * 16 \/ t < -50 * 16 THEN Err ELSE t
    /\ ParseTemperature(TwosComplement(t)) \in {t, Err}

\* The requests for any number of sensors fit into the buffer, and an answer of
\* that length is taken whole.
AnswersFit ==
  \A n \in 0 .. 4 * 30 :
    \A bytes \in {ScanBytes, 2 * n} : bytes + 5 <= BufferSize /\ TruncateToLength(bytes) = bytes
=============================================================================
