----------------------- MODULE Ds18b20Expander_proofs -----------------------
(***************************************************************************)
(* Proofs about Ds18b20Expander, for any buses, sensors and port mappings, *)
(* and any number of retries and faults.                                   *)
(***************************************************************************)
EXTENDS Ds18b20Expander, SequenceTheorems, WellFoundedInduction, TLAPS

(***************************************************************************)
(* Induction over the natural numbers, for sets: the least number that is  *)
(* missing has a predecessor that is not.                                  *)
(***************************************************************************)
\* A set with 0 that has the successor of each of its numbers has all natural numbers.
LEMMA SetInduction ==
  ASSUME NEW S, 0 \in S, \A n \in Nat : n \in S => n + 1 \in S
  PROVE  Nat \subseteq S
<1> DEFINE R == OpToRel(<, Nat)
           T == Nat \ S
<1>1. IsWellFoundedOn(R, Nat)
  BY NatLessThanWellFounded
<1>2. \A m, n \in Nat : <<m, n>> \in R <=> m < n
  BY DEF OpToRel
<1> SUFFICES ASSUME T # {} PROVE FALSE
  OBVIOUS
<1> HIDE DEF R
<1>3. PICK x \in T : \A y \in T : ~ (<<y, x>> \in R)
  BY <1>1, WFMin
<1>4. x \in Nat \ {0} /\ x - 1 \in Nat /\ x - 1 < x /\ (x - 1) + 1 = x
  OBVIOUS
<1>5. x - 1 \in S
  BY <1>2, <1>3, <1>4
<1> QED BY <1>4, <1>5

\* A set of natural numbers that is not empty has a minimum.
LEMMA MinOfNats ==
  ASSUME NEW I \in SUBSET Nat, I # {}
  PROVE  Min(I) \in I
<1> DEFINE R == OpToRel(<, Nat)
<1>1. IsWellFoundedOn(R, Nat)
  BY NatLessThanWellFounded
<1>2. \A m, n \in Nat : <<m, n>> \in R <=> m < n
  BY DEF OpToRel
<1> HIDE DEF R
<1>3. PICK x \in I : \A y \in I : ~ (<<y, x>> \in R)
  BY <1>1, WFMin
<1>4. ASSUME NEW y \in I
      PROVE  x =< y
  <2>1. x \in Nat /\ y \in Nat /\ ~ (<<y, x>> \in R)
    BY <1>3
  <2>2. ~ (y < x)
    BY <1>2, <2>1, Zenon
  <2> QED BY <2>1, <2>2
<1> QED BY <1>4, Zenon DEF Min

\* The place of a port's sensor among some IDs.
LEMMA IndexInIds ==
  ASSUME NEW S, NEW ids \in Seq(S), NEW p
  PROVE  /\ IndexIn(ids, p) \in 0 .. Len(ids)
         /\ IndexIn(ids, p) # 0 => ids[IndexIn(ids, p)] = SensorOf[p]
<1> DEFINE I == {i \in 1 .. Len(ids) : ids[i] = SensorOf[p]}
<1>1. IndexIn(ids, p) = IF I # {} THEN Min(I) ELSE 0
  BY DEF IndexIn, SelectInSeq
<1>2. Len(ids) \in Nat
  BY LenProperties
<1>3. I \in SUBSET Nat
  BY <1>2
<1>4. I # {} => Min(I) \in I
  BY <1>3, MinOfNats
<1> QED BY <1>1, <1>2, <1>4
-----------------------------------------------------------------------------
(***************************************************************************)
(* FlattenSeq of sequences s[1] .. s[n]: the concatenation of the first i  *)
(* of them is cat[i].                                                      *)
(***************************************************************************)
IsConcatenation(cat, s, n) ==
  cat = [i \in 1 .. n |-> IF i = 1 THEN s[i] ELSE cat[i - 1] \o s[i]]

\* The defining equation, for each place.
Continues(cat, s, n) ==
  \A i \in 1 .. n : /\ i = 1 => cat[i] = s[i]
                    /\ i # 1 => cat[i] = cat[i - 1] \o s[i]

LEMMA ConcatenationDef ==
  ASSUME NEW cat, NEW s, NEW n, IsConcatenation(cat, s, n)
  PROVE  Continues(cat, s, n)
<1> DEFINE f == [j \in 1 .. n |-> IF j = 1 THEN s[j] ELSE cat[j - 1] \o s[j]]
<1>1. cat = f
  BY Zenon DEF IsConcatenation
<1> SUFFICES ASSUME NEW i \in 1 .. n
             PROVE  /\ i = 1 => cat[i] = s[i]
                    /\ i # 1 => cat[i] = cat[i - 1] \o s[i]
  BY DEF Continues
<1>2. f[i] = IF i = 1 THEN s[i] ELSE cat[i - 1] \o s[i]
  BY Zenon
<1> QED BY <1>1, <1>2, Zenon

\* The concatenation of one sequence more continues that of those before.
LEMMA ConcatenationExists ==
  ASSUME NEW s
  PROVE  \A n \in Nat : \E cat : IsConcatenation(cat, s, n)
<1> DEFINE S == {n \in Nat : \E cat : IsConcatenation(cat, s, n)}
<1>1. 0 \in S
  <2> DEFINE cat == [i \in 1 .. 0 |-> s[i]]
  <2>1. IsConcatenation(cat, s, 0)
    BY DEF IsConcatenation
  <2> QED BY <2>1
<1>2. ASSUME NEW n \in Nat, n \in S
      PROVE  n + 1 \in S
  <2>1. PICK cat : IsConcatenation(cat, s, n)
    BY <1>2
  <2> DEFINE more == [i \in 1 .. n + 1 |->
                        IF i <= n THEN cat[i] ELSE IF i = 1 THEN s[i] ELSE cat[i - 1] \o s[i]]
  <2>2. ASSUME NEW i \in 1 .. n + 1
        PROVE  more[i] = IF i = 1 THEN s[i] ELSE more[i - 1] \o s[i]
    <3>1. i # 1 => i - 1 \in 1 .. n /\ i - 1 \in 1 .. n + 1 /\ i - 1 <= n
      OBVIOUS
    <3>2. i # 1 => more[i - 1] = cat[i - 1]
      BY <3>1
    <3>3. Continues(cat, s, n)
      BY <2>1, ConcatenationDef, Zenon
    <3>4. more[i] = IF i <= n THEN cat[i] ELSE IF i = 1 THEN s[i] ELSE cat[i - 1] \o s[i]
      BY Zenon
    <3> HIDE DEF more
    <3>5. CASE i <= n
      <4>1. i \in 1 .. n
        BY <3>5
      <4> QED BY <3>2, <3>3, <3>4, <3>5, <4>1 DEF Continues
    <3>6. CASE ~ (i <= n)
      BY <3>2, <3>4, <3>6
    <3> QED BY <3>5, <3>6
  <2>3. IsConcatenation(more, s, n + 1)
    BY <2>2 DEF IsConcatenation
  <2> QED BY <2>3
<1> HIDE DEF S
<1>3. Nat \subseteq S
  BY <1>1, <1>2, SetInduction
<1> QED BY <1>3 DEF S

\* Each concatenation is a sequence of the same elements.
LEMMA ConcatenationType ==
  ASSUME NEW S, NEW n \in Nat \ {0}, NEW s \in [1 .. n -> Seq(S)], NEW cat,
         IsConcatenation(cat, s, n)
  PROVE  /\ cat \in [1 .. n -> Seq(S)]
         /\ Continues(cat, s, n)
<1>4. Continues(cat, s, n)
  BY ConcatenationDef, Zenon
<1> DEFINE T == {i \in Nat : i + 1 <= n => cat[i + 1] \in Seq(S)}
<1>5. 0 \in T
  BY <1>4 DEF Continues
<1>6. ASSUME NEW i \in Nat, i \in T
      PROVE  i + 1 \in T
  <2> SUFFICES ASSUME (i + 1) + 1 <= n
               PROVE  cat[(i + 1) + 1] \in Seq(S)
    OBVIOUS
  <2>1. cat[i + 1] \in Seq(S) /\ s[(i + 1) + 1] \in Seq(S)
    BY <1>6
  <2>2. cat[i + 1] \o s[(i + 1) + 1] \in Seq(S)
    BY <2>1, ConcatProperties
  <2>3. (i + 1) + 1 \in 1 .. n /\ (i + 1) + 1 # 1 /\ ((i + 1) + 1) - 1 = i + 1
    OBVIOUS
  <2>4. cat[(i + 1) + 1] = cat[i + 1] \o s[(i + 1) + 1]
    BY <1>4, <2>3 DEF Continues
  <2> QED BY <2>2, <2>4
<1> HIDE DEF T
<1>7. Nat \subseteq T
  BY <1>5, <1>6, SetInduction
<1>8. ASSUME NEW i \in 1 .. n
      PROVE  cat[i] \in Seq(S)
  <2>1. i - 1 \in Nat /\ (i - 1) + 1 = i /\ (i - 1) + 1 <= n
    OBVIOUS
  <2> QED BY <1>7, <2>1 DEF T
<1>9. cat \in [1 .. n -> Seq(S)]
  <2>1. cat = [i \in 1 .. n |-> IF i = 1 THEN s[i] ELSE cat[i - 1] \o s[i]]
    BY Zenon DEF IsConcatenation
  <2>2. DOMAIN cat = 1 .. n /\ cat = [i \in 1 .. n |-> cat[i]]
    BY <2>1, Zenon
  <2> QED BY <1>8, <2>2
<1> QED BY <1>4, <1>9, Zenon

Concatenation(s) == CHOOSE cat : IsConcatenation(cat, s, Len(s))

\* FlattenSeq is the last of the concatenations.
LEMMA FlattenConcatenation ==
  ASSUME NEW n \in Nat \ {0}, NEW s, Len(s) = n
  PROVE  IsConcatenation(Concatenation(s), s, n) /\ FlattenSeq(s) = Concatenation(s)[n]
<1>1. IsConcatenation(Concatenation(s), s, n)
  BY ConcatenationExists, Zenon DEF Concatenation
<1>2. FlattenSeq(s) = Concatenation(s)[Len(s)]
  BY Zenon DEF FlattenSeq, Concatenation, IsConcatenation
<1> QED BY <1>1, <1>2

\* FlattenSeq, of at least one sequence, is a sequence of the same elements.
LEMMA FlattenSeqType ==
  ASSUME NEW S, NEW n \in Nat \ {0}, NEW s \in [1 .. n -> Seq(S)]
  PROVE  FlattenSeq(s) \in Seq(S)
<1>1. Len(s) = n
  OBVIOUS
<1>2. PICK cat : IsConcatenation(cat, s, n) /\ FlattenSeq(s) = cat[n]
  BY <1>1, FlattenConcatenation, Zenon
<1>3. cat \in [1 .. n -> Seq(S)]
  BY <1>2, ConcatenationType, Zenon
<1>4. cat[n] \in Seq(S)
  BY <1>3
<1> QED BY <1>2, <1>4, Zenon

-----------------------------------------------------------------------------
(***************************************************************************)
(* The sensors that are wired, and those that the board knows.             *)
(***************************************************************************)
Known == [1 .. Buses -> Seq(Sensors)]

\* What the board knows after it has lost power.
Nothing == [b \in 1 .. Buses |-> <<>>]

\* The IDs of the buses before b.
Before(b) == IF b = 1 THEN <<>> ELSE Concatenation(Wired)[b - 1]

\* Scanning one bus after the other finds the sensors in the order of FlattenSeq, and
\* all that the board knows are sequences of sensors.
LEMMA WiredInOrder ==
  /\ Before(1) = <<>>
  /\ \A b \in 1 .. Buses : Before(b) \in Seq(Sensors)
  /\ \A b \in 1 .. Buses : b < Buses => Before(b) \o Wired[b] = Before(b + 1)
  /\ Before(Buses) \o Wired[Buses] = FlattenSeq(Wired)
<1>0. Buses \in Nat \ {0} /\ Wired \in [1 .. Buses -> Seq(Sensors)] /\ Len(Wired) = Buses
  BY Ds18b20ExpanderAssumption
<1>1. PICK cat : /\ cat = Concatenation(Wired)
                 /\ cat \in [1 .. Buses -> Seq(Sensors)]
                 /\ Continues(cat, Wired, Buses)
                 /\ FlattenSeq(Wired) = cat[Buses]
  <2>1. PICK cat : /\ cat = Concatenation(Wired)
                   /\ IsConcatenation(cat, Wired, Buses) /\ FlattenSeq(Wired) = cat[Buses]
    BY <1>0, FlattenConcatenation, Zenon
  <2>2. /\ cat \in [1 .. Buses -> Seq(Sensors)]
        /\ Continues(cat, Wired, Buses)
    BY <1>0, <2>1, ConcatenationType, Zenon
  <2> QED BY <2>1, <2>2, Zenon
<1>2. ASSUME NEW b \in 1 .. Buses
      PROVE  Before(b) \in Seq(Sensors) /\ Before(b) \o Wired[b] = cat[b]
  <2>1. CASE b = 1
    <3>1. Before(b) = <<>>
      BY <2>1 DEF Before
    <3>2. Wired[b] \in Seq(Sensors)
      BY Ds18b20ExpanderAssumption
    <3>3. <<>> \o Wired[b] = Wired[b]
      BY <3>2, ConcatEmptySeq
    <3>4. Before(b) \in Seq(Sensors)
      BY <3>1
    <3>5. cat[b] = Wired[b]
      BY <1>1, <2>1 DEF Continues
    <3> QED BY <3>1, <3>3, <3>4, <3>5, Zenon
  <2>2. CASE b # 1
    <3>1. b \in 2 .. Buses /\ b - 1 \in 1 .. Buses
      BY <2>2, Ds18b20ExpanderAssumption
    <3>2. Before(b) = cat[b - 1]
      BY <1>1, <2>2, Zenon DEF Before
    <3>3. cat[b] = cat[b - 1] \o Wired[b]
      <4>1. b \in 1 .. Buses /\ b # 1 /\ Continues(cat, Wired, Buses)
        BY <1>1, <2>2, Zenon
      <4> QED BY <4>1 DEF Continues
    <3>4. cat[b - 1] \in Seq(Sensors)
      BY <1>1, <3>1
    <3> QED BY <3>2, <3>3, <3>4
  <2> QED BY <2>1, <2>2
<1>3. ASSUME NEW b \in 1 .. Buses, b < Buses
      PROVE  Before(b + 1) = cat[b]
  <2>1. b + 1 # 1 /\ (b + 1) - 1 = b
    BY <1>3
  <2> QED BY <1>1, <2>1, Zenon DEF Before
<1>4. Buses \in 1 .. Buses
  BY Ds18b20ExpanderAssumption
<1>5. Before(1) = <<>>
  BY DEF Before
<1> QED BY <1>1, <1>2, <1>3, <1>4, <1>5, Zenon

\* What the board knows are sensors, in a sequence.
LEMMA FlattenType ==
  ASSUME NEW s \in Known
  PROVE  FlattenSeq(s) \in Seq(Sensors)
BY FlattenSeqType, Ds18b20ExpanderAssumption DEF Known

\* A board that has lost its memory reads no sensor.
LEMMA FlattenNothing == Nothing \in Known /\ FlattenSeq(Nothing) = <<>>
<1>1. Nothing \in Known
  BY DEF Nothing, Known
<1>2. <<>> \in Seq({})
  OBVIOUS
<1>3. Buses \in Nat \ {0} /\ Nothing \in [1 .. Buses -> Seq({})]
  BY <1>2, Ds18b20ExpanderAssumption DEF Nothing
<1>5. FlattenSeq(Nothing) \in Seq({})
  BY <1>3, FlattenSeqType
<1>6. \A t \in Seq({}) : t = <<>>
  <2> SUFFICES ASSUME NEW t \in Seq({}), t # <<>>
               PROVE  FALSE
    OBVIOUS
  <2>1. Head(t) \in {}
    BY HeadTailProperties
  <2> QED BY <2>1
<1> QED BY <1>1, <1>5, <1>6
-----------------------------------------------------------------------------
(***************************************************************************)
(* Types.  IDs are sensors and temperatures are of sensors in every answer *)
(* of the board, and a thread that reads has found every port's sensor.    *)
(***************************************************************************)
Temperatures == (Sensors \X {"new", "used"}) \cup {Err}

FrameOK(f) ==
  \/ f \in [of : {"ids"}, items : Seq(Sensors)]
  \/ f \in [of : {"temperatures"}, items : Seq(Temperatures)]

Running == {"asleep", "reading", "handling"}

PlacesInv == pc \in Running => \A p \in Ports : IndexIn(sensor_ids, p) # 0

TypeInv == TypeOK /\ FrameOK(frame) /\ PlacesInv

-----------------------------------------------------------------------------
(***************************************************************************)
(* After a sound scan the results are those of the sensors in the order of *)
(* the IDs: the board has found what is wired, in the order of FlattenSeq, *)
(* or has forgotten everything.                                            *)
(***************************************************************************)
\* Results of the sensors with these IDs, in their order, as many as there are.
ResultsOf(ids, items) ==
  /\ Len(items) <= Len(ids)
  /\ \A i \in 1 .. Len(items) : items[i] \in {Err} \cup ({ids[i]} \X {"new", "used"})

\* The IDs of the buses before this one are known, to the board and to the thread.
ScanInv ==
  sound /\ pc \in {"scan", "scanning"} =>
    /\ sensor_ids = Before(bus)
    /\ \A b \in 1 .. Buses : b < bus => found[b] = Wired[b]
    /\ \A p \in Ports : device_values[p] = NoValue

\* The answer to the scan of a bus is its sensors.
AnswerInv ==
  sound /\ pc = "scanning" =>
    /\ job \in {NoJob, Scan(bus)}
    /\ job = NoJob => found[bus] = Wired[bus] /\ frame = Frame("ids", Wired[bus])

\* A readout is of all sensors, or of none.
RunningInv ==
  sound /\ pc \in Running =>
    /\ sensor_ids = FlattenSeq(Wired)
    /\ found \in {Wired, Nothing}
    /\ job \in {NoJob, Measure}
    /\ frame.of = "temperatures" => ResultsOf(sensor_ids, frame.items)
    /\ frame.of = "ids" => Len(frame.items) = Len(Wired[Buses])

\* So is what the thread has read, unless it took the IDs of the last bus for it.
TookIds == late /\ hasty /\ IdsFit /\ \A i \in 1 .. Len(readout) : readout[i] = Junk

ReadoutInv ==
  sound /\ pc = "handling" /\ readout # Err => ResultsOf(sensor_ids, readout) \/ TookIds

SoundInv == ScanInv /\ AnswerInv /\ RunningInv /\ ReadoutInv /\ RightSensor

-----------------------------------------------------------------------------
(***************************************************************************)
(* Temperatures of this round: the board has none from before once it has  *)
(* finished the command of the round.                                      *)
(***************************************************************************)
News == (Sensors \X {"new"}) \cup {Err}

ReadyInv ==
  pc = "reading" =>
    /\ job \in {NoJob, Measure}
    /\ job = NoJob => frame \in [of : {"temperatures"}, items : Seq(News)]

FreshInv == pc = "handling" /\ ~late /\ readout # Err => readout \in Seq(News)
-----------------------------------------------------------------------------
\* An update of every port with readings or errors keeps the types of the core.
LEMMA UpdateValuesType ==
  ASSUME ReadCoreTypeOK, NEW new \in [Ports -> Results],
         NEW force \in BOOLEAN, NEW suppress \in BOOLEAN,
         UpdateValues(new, force, suppress)
  PROVE  ReadCoreTypeOK'
BY DEF ReadCoreTypeOK, UpdateValues, Results

\* So does one of some ports.
LEMMA UpdatePortsType ==
  ASSUME ReadCoreTypeOK, NEW told \in SUBSET Ports, NEW new \in [told -> Results],
         UpdatePorts(told, new)
  PROVE  ReadCoreTypeOK'
BY DEF ReadCoreTypeOK, UpdatePorts, Results

\* poll_events, too, whether the queue yields an event or the task parks.
LEMMA PollEventsType ==
  ASSUME ReadCoreTypeOK, NEW p \in Ports, PollEvents(p)
  PROVE  ReadCoreTypeOK'
<1>1. CASE events[p] = <<>>
  BY <1>1 DEF ReadCoreTypeOK, PollEvents
<1>2. CASE events[p] # <<>>
  <2>1. events[p] \in Seq(Results)
    BY DEF ReadCoreTypeOK
  <2> DEFINE event == Head(events[p])
             rest == Tail(events[p])
  <2>2. event \in Results /\ rest \in Seq(Results)
    BY <1>2, <2>1
  <2>3. /\ events' = [events EXCEPT ![p] = rest] /\ received' = [received EXCEPT ![p] = event]
        /\ UNCHANGED <<device_values, mapped, wakers>>
    BY <1>2 DEF PollEvents
  <2> HIDE DEF event, rest
  <2> QED BY <2>2, <2>3 DEF ReadCoreTypeOK
<1> QED BY <1>1, <1>2

\* A frame with IDs or temperatures has items of the model, and so has an empty one.
LEMMA FrameType ==
  /\ \A f : FrameOK(f) => /\ f \in [of : {"ids", "temperatures"}, items : Seq(Items)]
                          /\ Len(f.items) \in Nat
  /\ \A ids \in Seq(Sensors) : FrameOK(Frame("ids", ids))
  /\ \A items \in Seq(Temperatures) : FrameOK(Frame("temperatures", items))
  /\ FrameOK(ZeroFrame)
<1>1. ASSUME NEW f, FrameOK(f)
      PROVE  f \in [of : {"ids", "temperatures"}, items : Seq(Items)] /\ Len(f.items) \in Nat
  <2>1. CASE f \in [of : {"ids"}, items : Seq(Sensors)]
    <3>1. f.items \in Seq(Items) /\ Len(f.items) \in Nat
      BY <2>1 DEF Items
    <3> QED BY <2>1, <3>1
  <2>2. CASE f \in [of : {"temperatures"}, items : Seq(Temperatures)]
    <3>1. f.items \in Seq(Items) /\ Len(f.items) \in Nat
      BY <2>2 DEF Items, Temperatures
    <3> QED BY <2>2, <3>1
  <2> QED BY <1>1, <2>1, <2>2 DEF FrameOK
<1>2. ASSUME NEW ids \in Seq(Sensors)
      PROVE  FrameOK(Frame("ids", ids))
  BY DEF FrameOK, Frame
<1>3. ASSUME NEW items \in Seq(Temperatures)
      PROVE  FrameOK(Frame("temperatures", items))
  BY DEF FrameOK, Frame
<1>4. FrameOK(ZeroFrame)
  <2>1. <<>> \in Seq(Temperatures)
    OBVIOUS
  <2> QED BY <1>3, <2>1 DEF ZeroFrame
<1> QED BY <1>1, <1>2, <1>3, <1>4

\* IDs are read as they are, anything else as errors or other IDs.
LEMMA ParseIdsType ==
  ASSUME NEW f, FrameOK(f), ParseDeviceIds(f) # Err
  PROVE  /\ ParseDeviceIds(f) \in Seq(Sensors \cup {Junk})
         /\ f.of = "ids" => ParseDeviceIds(f) = f.items
<1> DEFINE n == DataBytes(f) \div 8
<1>1. ParseDeviceIds(f) = [i \in 1 .. n |-> IF f.of = "ids" THEN f.items[i] ELSE Junk]
  BY DEF ParseDeviceIds
<1>2. DataBytes(f) \in Nat /\ n \in Nat
  BY FrameType DEF FrameOK, DataBytes, Width
<1>3. CASE f.of = "ids"
  <2>1. f.items \in Seq(Sensors) /\ Len(f.items) \in Nat
    BY <1>3 DEF FrameOK
  <2>2. n = Len(f.items)
    <3>1. Width[f.of] = 8
      BY <1>3 DEF Width
    <3>2. DataBytes(f) = 8 * Len(f.items)
      BY <3>1, Zenon DEF DataBytes
    <3>3. \A l \in Nat : (8 * l) \div 8 = l
      OBVIOUS
    <3> QED BY <2>1, <3>2, <3>3
  <2>3. ParseDeviceIds(f) = f.items
    BY <1>1, <1>3, <2>1, <2>2
  <2> QED BY <2>1, <2>3
<1>4. CASE f.of # "ids"
  <2> HIDE DEF n
  <2>1. ParseDeviceIds(f) = [i \in 1 .. n |-> Junk]
    BY <1>1, <1>4
  <2> QED BY <1>2, <1>4, <2>1
<1> QED BY <1>3, <1>4

\* Temperatures are read as they are, and whatever is read are readings or errors.
LEMMA ParseTemperaturesType ==
  ASSUME NEW f, FrameOK(f)
  PROVE  /\ ParseTemperatures(f) \in Seq(Results)
         /\ f.of = "temperatures" => ParseTemperatures(f) = f.items
<1> DEFINE n == DataBytes(f) \div 2
<1>1. ParseTemperatures(f) = [i \in 1 .. n |-> IF f.of = "temperatures" THEN f.items[i] ELSE Junk]
  BY DEF ParseTemperatures
<1>2. DataBytes(f) \in Nat /\ n \in Nat
  BY FrameType DEF FrameOK, DataBytes, Width
<1>3. CASE f.of = "temperatures"
  <2>1. f.items \in Seq(Temperatures) /\ Len(f.items) \in Nat
    BY <1>3 DEF FrameOK
  <2>2. n = Len(f.items)
    <3>1. Width[f.of] = 2
      BY <1>3 DEF Width
    <3>2. DataBytes(f) = 2 * Len(f.items)
      BY <3>1, Zenon DEF DataBytes
    <3>3. \A l \in Nat : (2 * l) \div 2 = l
      OBVIOUS
    <3> QED BY <2>1, <3>2, <3>3
  <2>3. ParseTemperatures(f) = f.items
    BY <1>1, <1>3, <2>1, <2>2
  <2>4. Temperatures \subseteq Results
    BY Ds18b20ExpanderAssumption DEF Temperatures, Results
  <2>5. f.items \in Seq(Results)
    BY <2>1, <2>4
  <2> QED BY <2>3, <2>5
<1>4. CASE f.of # "temperatures"
  <2>1. ParseTemperatures(f) = [i \in 1 .. n |-> Junk]
    BY <1>1, <1>4
  <2>2. Junk \in Results
    BY Ds18b20ExpanderAssumption DEF Results
  <2> HIDE DEF n
  <2> QED BY <1>2, <1>4, <2>1, <2>2
<1> QED BY <1>3, <1>4

\* What has been fetched are temperatures of the same sensors.
LEMMA UsedFrame ==
  ASSUME NEW f, FrameOK(f)
  PROVE  /\ FrameOK([f EXCEPT !.items = [i \in DOMAIN @ |-> AsUsed(@[i])]])
         /\ \A ids : f.of = "temperatures" /\ ResultsOf(ids, f.items) =>
                     ResultsOf(ids, [i \in DOMAIN f.items |-> AsUsed(f.items[i])])
<1> DEFINE used == [i \in DOMAIN f.items |-> AsUsed(f.items[i])]
<1>1. CASE f \in [of : {"ids"}, items : Seq(Sensors)]
  <2>1. used = f.items
    <3>1. \A i \in DOMAIN f.items : f.items[i] \in Sensors
      BY <1>1
    <3>2. \A s \in Sensors : AsUsed(s) = s
      BY Ds18b20ExpanderAssumption DEF AsUsed
    <3> QED BY <1>1, <3>1, <3>2
  <2> QED BY <1>1, <2>1 DEF FrameOK
<1>2. CASE f \in [of : {"temperatures"}, items : Seq(Temperatures)]
  <2>1. \A i \in 1 .. Len(f.items) : AsUsed(f.items[i]) \in Temperatures
    BY <1>2 DEF AsUsed, Temperatures
  <2>2. used \in Seq(Temperatures) /\ Len(used) = Len(f.items) /\ DOMAIN f.items = 1 .. Len(f.items)
    BY <1>2, <2>1
  <2>3. ASSUME NEW ids, ResultsOf(ids, f.items)
        PROVE  ResultsOf(ids, used)
    <3>1. ASSUME NEW i \in 1 .. Len(f.items)
          PROVE  used[i] \in {Err} \cup ({ids[i]} \X {"new", "used"})
      <4>1. f.items[i] \in {Err} \cup ({ids[i]} \X {"new", "used"})
        BY <2>3 DEF ResultsOf
      <4>2. used[i] = AsUsed(f.items[i])
        BY <2>2
      <4> QED BY <4>1, <4>2, ReadCoreAssumption, Ds18b20ExpanderAssumption DEF AsUsed
    <3> HIDE DEF used
    <3> QED BY <2>2, <2>3, <3>1 DEF ResultsOf
  <2> QED BY <1>2, <2>2, <2>3 DEF FrameOK
<1> QED BY <1>1, <1>2 DEF FrameOK

\* The board keeps the types of the core, and so does the thread until it reports.
LEMMA CoreUnchanged ==
  ASSUME ReadCoreTypeOK, UNCHANGED readCoreVars
  PROVE  ReadCoreTypeOK'
BY DEF ReadCoreTypeOK, readCoreVars

\* A new queue keeps the types of the core.
LEMMA SetUpEventsType ==
  ASSUME ReadCoreTypeOK, NEW p \in Ports, SetUpEvents(p),
         UNCHANGED <<device_values, wakers, received>>
  PROVE  ReadCoreTypeOK'
BY DEF ReadCoreTypeOK, SetUpEvents

\* Faults are counted up to the bound.
LEMMA FaultType ==
  ASSUME TypeInv, Fault \/ UNCHANGED faults
  PROVE  faults' \in 0 .. MaxFaults
BY Ds18b20ExpanderAssumption DEF Fault, TypeInv, TypeOK

\* A board just switched on, or left by an earlier process, has a frame of the model.
LEMMA InitType ==
  ASSUME Init
  PROVE  TypeInv
<1> USE Ds18b20ExpanderAssumption
<1>1. ReadCoreTypeOK
  BY DEF Init, ReadCoreInit, ReadCoreTypeOK
<1>2. FlattenSeq(Wired) \in Seq(Sensors) /\ Nothing \in Known /\ Wired \in Known
  BY FlattenType, FlattenNothing DEF Known
<1>3. FrameOK(frame)
  <2>1. CASE frame = ZeroFrame
    BY <2>1, FrameType
  <2>2. CASE frame = Frame("temperatures",
                           [i \in 1 .. Len(FlattenSeq(Wired)) |-> <<FlattenSeq(Wired)[i], "used">>])
    <3>1. [i \in 1 .. Len(FlattenSeq(Wired)) |-> <<FlattenSeq(Wired)[i], "used">>] \in Seq(Temperatures)
      BY <1>2 DEF Temperatures
    <3> QED BY <2>2, <3>1, FrameType
  <2> QED BY <2>1, <2>2 DEF Init
<1>4. found \in Known
  BY <1>2 DEF Init, Nothing
<1>5. /\ bus \in 1 .. Buses /\ sensor_ids \in Seq(Sensors \cup {Junk}) /\ tries \in 0 .. Retries - 1
      /\ faults \in 0 .. MaxFaults /\ pc = "scan" /\ readout = Err
  BY DEF Init
<1>6. job \in {NoJob, Measure} /\ sound \in BOOLEAN /\ late \in BOOLEAN /\ hasty \in BOOLEAN
  BY Zenon DEF Init
<1>7. frame \in [of : {"ids", "temperatures"}, items : Seq(Items)]
  BY <1>3, FrameType
<1> QED BY <1>1, <1>3, <1>4, <1>5, <1>6, <1>7 DEF TypeInv, TypeOK, PlacesInv, Running, Known

\* Every step keeps the types.
LEMMA TypeInvStep ==
  ASSUME TypeInv, [Next]_vars
  PROVE  TypeInv'
<1> USE Ds18b20ExpanderAssumption, ReadCoreAssumption
<1> DEFINE Jobs == {NoJob, Measure} \cup {Scan(b) : b \in 1 .. Buses}
<1>1. ASSUME NEW p \in Ports, GetInputPort(p)
      PROVE  TypeInv'
  <2>1. ReadCoreTypeOK'
    <3>1. ReadCoreTypeOK /\ SetUpEvents(p) /\ UNCHANGED <<device_values, wakers, received>>
      BY <1>1, Zenon DEF GetInputPort, TypeInv, TypeOK
    <3> QED BY <3>1, SetUpEventsType
  <2>2. UNCHANGED <<threadVars, boardVars, faults, sound, late, hasty>>
    BY <1>1 DEF GetInputPort, historyVars
  <2> QED BY <2>1, <2>2 DEF TypeInv, TypeOK, PlacesInv, threadVars, boardVars
<1>2. ASSUME NEW p \in Ports, Consume(p)
      PROVE  TypeInv'
  <2>1. ReadCoreTypeOK'
    BY <1>2, PollEventsType DEF Consume, TypeInv, TypeOK
  <2>2. UNCHANGED <<threadVars, boardVars, faults, sound, late, hasty>>
    BY <1>2 DEF Consume, historyVars
  <2> QED BY <2>1, <2>2 DEF TypeInv, TypeOK, PlacesInv, threadVars, boardVars
<1>3. CASE ScanBus
  <2>1. pc' \in {"scanning", "down"} /\ job' \in Jobs /\ faults' \in 0 .. MaxFaults
    <3>1. pc' \in {"scanning", "down"} /\ job' \in {job, Scan(bus)} /\ (Fault \/ UNCHANGED faults)
      BY <1>3, Zenon DEF ScanBus, WriteStatus
    <3>2. job \in Jobs /\ Scan(bus) \in Jobs
      BY Zenon DEF TypeInv, TypeOK
    <3>3. job' \in Jobs
      BY <3>1, <3>2, Zenon
    <3> QED BY <3>1, <3>3, FaultType, Zenon
  <2>2. ReadCoreTypeOK'
    BY <1>3, CoreUnchanged DEF ScanBus, TypeInv, TypeOK
  <2>3. tries' \in 0 .. Retries - 1 /\ UNCHANGED <<bus, sensor_ids, readout, found, frame, sound, late, hasty>>
    BY <1>3 DEF ScanBus, historyVars
  <2> QED BY <2>1, <2>2, <2>3 DEF TypeInv, TypeOK, PlacesInv, Running
<1>4. CASE FetchIds
  <2>1. PICK f \in {frame, ZeroFrame} :
          /\ ReadRegisters(ScanBytes, f)
          /\ sound' = (sound /\ job = NoJob /\ f = frame)
          /\ \/ ParseDeviceIds(f) = Err /\ pc' = "down" /\ UNCHANGED <<bus, sensor_ids>>
             \/ /\ ParseDeviceIds(f) # Err
                /\ sensor_ids' = sensor_ids \o ParseDeviceIds(f)
                /\ \/ bus < Buses /\ bus' = bus + 1 /\ pc' = "scan"
                   \/ /\ bus = Buses /\ UNCHANGED bus
                      /\ pc' = IF \A p \in Ports : IndexIn(sensor_ids', p) # 0 THEN "asleep" ELSE "down"
    BY <1>4, Zenon DEF FetchIds
  <2>2. sound' \in BOOLEAN /\ faults' \in 0 .. MaxFaults
    <3>1. sound' \in BOOLEAN
      BY <2>1, Zenon
    <3>2. faults' \in 0 .. MaxFaults
      BY <2>1, FaultType, Zenon DEF ReadRegisters
    <3> QED BY <3>1, <3>2
  <2>3. FrameOK(f)
    BY <2>1, FrameType DEF TypeInv
  <2>4. sensor_ids' \in Seq(Sensors \cup {Junk})
    <3>1. sensor_ids \in Seq(Sensors \cup {Junk})
      BY DEF TypeInv, TypeOK
    <3>2. CASE UNCHANGED sensor_ids
      BY <3>1, <3>2
    <3>3. CASE ParseDeviceIds(f) # Err /\ sensor_ids' = sensor_ids \o ParseDeviceIds(f)
      <4>1. ParseDeviceIds(f) \in Seq(Sensors \cup {Junk})
        BY <2>3, <3>3, ParseIdsType
      <4> QED BY <3>1, <3>3, <4>1, ConcatProperties
    <3> QED BY <2>1, <3>2, <3>3, Zenon
  <2>5. bus' \in 1 .. Buses /\ pc' \in {"scan", "asleep", "down"}
    <3>1. bus \in 1 .. Buses /\ Buses \in Nat
      BY Ds18b20ExpanderAssumption DEF TypeInv, TypeOK
    <3> QED BY <2>1, <3>1
  <2>6. PlacesInv'
    BY <2>1, Zenon DEF PlacesInv, Running
  <2>7. ReadCoreTypeOK' /\ UNCHANGED <<tries, readout, job, found, frame, late, hasty>>
    <3>1. ReadCoreTypeOK /\ UNCHANGED <<readCoreVars, tries, readout, boardVars, late, hasty>>
      BY <1>4, Zenon DEF FetchIds, TypeInv, TypeOK
    <3> QED BY <3>1, CoreUnchanged DEF boardVars
  <2> QED BY <2>2, <2>4, <2>5, <2>6, <2>7 DEF TypeInv, TypeOK
<1>5. CASE FetchIdsFails
  <2>1. pc' \in {"scanning", "down"} /\ tries' \in 0 .. Retries - 1 /\ UNCHANGED readout /\ faults' \in 0 .. MaxFaults
    <3>1. Fault /\ Retry(pc' = "down" /\ UNCHANGED readout)
      BY <1>5 DEF FetchIdsFails
    <3>2. pc' \in {"scanning", "down"} /\ tries' \in 0 .. Retries - 1 /\ UNCHANGED readout
      BY <1>5, <3>1 DEF FetchIdsFails, Retry, TypeInv, TypeOK
    <3> QED BY <3>1, <3>2, FaultType
  <2>2. ReadCoreTypeOK' /\ UNCHANGED <<bus, sensor_ids, job, found, frame, sound, late, hasty>>
    BY <1>5, CoreUnchanged DEF FetchIdsFails, TypeInv, TypeOK, boardVars, historyVars
  <2> QED BY <2>1, <2>2 DEF TypeInv, TypeOK, PlacesInv, Running
<1>6. CASE InitReadout
  <2>1. pc' \in {"reading", "handling"} /\ job' \in Jobs /\ readout' \in {readout, Err} /\ faults' \in 0 .. MaxFaults
    <3>1. /\ pc' \in {"reading", "handling"} /\ job' \in {job, Measure} /\ (Fault \/ UNCHANGED faults)
          /\ readout' = readout \/ readout' = Err
      BY <1>6, Zenon DEF InitReadout, WriteStatus
    <3>2. job \in Jobs /\ Measure \in Jobs
      BY Zenon DEF TypeInv, TypeOK
    <3>3. job' \in Jobs
      BY <3>1, <3>2, Zenon
    <3> QED BY <3>1, <3>3, FaultType, Zenon
  <2>2. /\ ReadCoreTypeOK' /\ tries' \in 0 .. Retries - 1
        /\ UNCHANGED <<bus, sensor_ids, found, frame, sound>>
        /\ pc = "asleep"
    BY <1>6, CoreUnchanged DEF InitReadout, TypeInv, TypeOK
  <2>3. late' \in BOOLEAN /\ hasty' = hasty
    BY <1>6, Zenon DEF InitReadout
  <2>4. PlacesInv'
    BY <2>2, Zenon DEF TypeInv, PlacesInv, Running
  <2> QED BY <2>1, <2>2, <2>3, <2>4 DEF TypeInv, TypeOK
<1>7. CASE FetchTemperatures
  <2>1. PICK f \in {frame, ZeroFrame} :
          /\ ReadRegisters(ReadoutBytes, f)
          /\ readout' = ParseTemperatures(f)
    BY <1>7, Zenon DEF FetchTemperatures
  <2>2. sound' = sound /\ late' \in BOOLEAN /\ hasty' \in BOOLEAN
    BY <1>7, Zenon DEF FetchTemperatures
  <2>3. readout' \in Seq(Results) \cup {Err}
    BY <2>1, FrameType, ParseTemperaturesType DEF TypeInv
  <2>4. FrameOK(frame')
    BY <1>7, UsedFrame DEF FetchTemperatures, TypeInv
  <2>5. frame' \in [of : {"ids", "temperatures"}, items : Seq(Items)]
    BY <2>4, FrameType
  <2>6. faults' \in 0 .. MaxFaults
    BY <2>1, FaultType, Zenon DEF ReadRegisters
  <2>7. /\ ReadCoreTypeOK' /\ pc = "reading" /\ pc' = "handling"
        /\ UNCHANGED <<bus, sensor_ids, tries, job, found>>
    BY <1>7, CoreUnchanged DEF FetchTemperatures, TypeInv, TypeOK
  <2>8. PlacesInv'
    BY <2>7, Zenon DEF TypeInv, PlacesInv, Running
  <2> QED BY <2>2, <2>3, <2>4, <2>5, <2>6, <2>7, <2>8 DEF TypeInv, TypeOK
<1>8. CASE FetchTemperaturesFails
  <2>1. /\ pc = "reading" /\ pc' \in {"reading", "handling"} /\ tries' \in 0 .. Retries - 1
        /\ readout' \in {readout, Err} /\ faults' \in 0 .. MaxFaults
    <3>1. (Fault \/ UNCHANGED faults) /\ Retry(pc' = "handling" /\ readout' = Err) /\ pc = "reading"
      BY <1>8, Zenon DEF FetchTemperaturesFails
    <3>2. pc' \in {"reading", "handling"} /\ tries' \in 0 .. Retries - 1 /\ readout' \in {readout, Err}
      BY <3>1 DEF Retry, TypeInv, TypeOK
    <3> QED BY <3>1, <3>2, FaultType, Zenon
  <2>2. ReadCoreTypeOK' /\ UNCHANGED <<bus, sensor_ids, job, found, frame, sound, late, hasty>>
    BY <1>8, CoreUnchanged DEF FetchTemperaturesFails, TypeInv, TypeOK, boardVars, historyVars
  <2>3. PlacesInv'
    BY <2>1, <2>2, Zenon DEF TypeInv, PlacesInv, Running
  <2> QED BY <2>1, <2>2, <2>3 DEF TypeInv, TypeOK
<1>9. CASE HandleResults
  <2>1. ReadCoreTypeOK' /\ pc' \in {"asleep", "down"}
    <3>1. CASE UpdateValues([p \in Ports |-> Err], TRUE, FALSE) /\ pc' = "asleep"
      <4>1. [p \in Ports |-> Err] \in [Ports -> Results]
        BY DEF Results
      <4> QED BY <3>1, <4>1, UpdateValuesType DEF TypeInv, TypeOK
    <3>2. CASE /\ readout # Err /\ Len(readout) <= Len(sensor_ids) /\ pc' = "asleep"
               /\ LET told == {p \in Ports : Place(p) <= Len(readout)}
                  IN  UpdatePorts(told, [p \in told |-> readout[Place(p)]])
      <4> DEFINE told == {p \in Ports : Place(p) <= Len(readout)}
      <4>1. readout \in Seq(Results)
        BY <3>2 DEF TypeInv, TypeOK
      <4>2. ASSUME NEW p \in told
            PROVE  readout[Place(p)] \in Results
        <5>1. IndexIn(sensor_ids, p) # 0
          BY <1>9, Zenon DEF HandleResults, TypeInv, PlacesInv, Running
        <5>2. IndexIn(sensor_ids, p) \in 0 .. Len(sensor_ids) /\ Len(sensor_ids) \in Nat
          BY IndexInIds DEF TypeInv, TypeOK
        <5>3. Place(p) \in 1 .. Len(readout)
          BY <4>1, <5>1, <5>2 DEF Place
        <5> QED BY <4>1, <5>3
      <4>3. [p \in told |-> readout[Place(p)]] \in [told -> Results] /\ told \in SUBSET Ports
        BY <4>2
      <4>4. UpdatePorts(told, [p \in told |-> readout[Place(p)]])
        BY <3>2
      <4> HIDE DEF told
      <4> QED BY <3>2, <4>3, <4>4, UpdatePortsType DEF TypeInv, TypeOK
    <3>3. CASE UNCHANGED readCoreVars /\ pc' = "down"
      BY <3>3 DEF readCoreVars, TypeInv, TypeOK, ReadCoreTypeOK
    <3> QED BY <1>9, <3>1, <3>2, <3>3 DEF HandleResults
  <2>2. pc = "handling" /\ UNCHANGED <<bus, sensor_ids, tries, readout, job, found, frame, faults, sound, late, hasty>>
    BY <1>9 DEF HandleResults, boardVars, historyVars
  <2>3. PlacesInv'
    BY <2>2, Zenon DEF TypeInv, PlacesInv, Running
  <2> QED BY <2>1, <2>2, <2>3 DEF TypeInv, TypeOK
<1>10. CASE Restart
  <2>1. ReadCoreTypeOK'
    BY <1>10, SMTT(30) DEF Restart, ReadCoreTypeOK
  <2>2. sound' \in BOOLEAN /\ late' \in BOOLEAN /\ hasty' \in BOOLEAN
    BY <1>10, Zenon DEF Restart
  <2>3. UNCHANGED <<job, found, frame, faults>>
    BY <1>10 DEF Restart, boardVars
  <2>4. pc' = "scan" /\ bus' = 1 /\ sensor_ids' = <<>> /\ tries' = 0 /\ readout' = Err
    BY <1>10 DEF Restart
  <2>5. PlacesInv'
    BY <2>4 DEF PlacesInv, Running
  <2>6. /\ bus' \in 1 .. Buses /\ tries' \in 0 .. Retries - 1
        /\ sensor_ids' \in Seq(Sensors \cup {Junk}) /\ readout' \in Seq(Results) \cup {Err}
    BY <2>4, Ds18b20ExpanderAssumption
  <2>7. pc' \in {"scan", "scanning", "asleep", "reading", "handling", "down"}
    BY <2>4
  <2> QED BY <2>1, <2>2, <2>3, <2>5, <2>6, <2>7, Zenon DEF TypeInv, TypeOK
<1>11. CASE Complete
  <2>1. job' = NoJob /\ UNCHANGED <<threadVars, faults, sound, late, hasty>> /\ ReadCoreTypeOK'
    BY <1>11, CoreUnchanged DEF Complete, TypeInv, TypeOK, historyVars
  <2>2. found' \in Known /\ FrameOK(frame')
    <3>1. ASSUME NEW b \in 1 .. Buses, found' = [found EXCEPT ![b] = Wired[b]], frame' = Frame("ids", Wired[b])
          PROVE  found' \in Known /\ FrameOK(frame')
      BY <3>1, FrameType DEF Known, TypeInv, TypeOK
    <3>2. ASSUME NEW silent \in SUBSET Silent, UNCHANGED found,
                 frame' = Frame("temperatures",
                                [i \in 1 .. Len(FlattenSeq(found)) |->
                                   LET s == FlattenSeq(found)[i]
                                   IN  IF s \in silent THEN Err ELSE <<s, "new">>])
          PROVE  found' \in Known /\ FrameOK(frame')
      <4>1. found \in Known
        BY DEF Known, TypeInv, TypeOK
      <4>2. FlattenSeq(found) \in Seq(Sensors)
        BY <4>1, FlattenType
      <4>3. [i \in 1 .. Len(FlattenSeq(found)) |->
               LET s == FlattenSeq(found)[i]
               IN  IF s \in silent THEN Err ELSE <<s, "new">>] \in Seq(Temperatures)
        BY <4>2 DEF Temperatures
      <4> QED BY <3>2, <4>1, <4>3, FrameType
    <3> QED BY <1>11, <3>1, <3>2, Zenon DEF Complete
  <2>3. frame' \in [of : {"ids", "temperatures"}, items : Seq(Items)]
    BY <2>2, FrameType
  <2> QED BY <2>1, <2>2, <2>3 DEF TypeInv, TypeOK, PlacesInv, threadVars, Known
<1>12. CASE BoardReset
  <2>1. sound' \in BOOLEAN
    BY <1>12, Zenon DEF BoardReset
  <2>2. found' \in Known /\ FrameOK(frame')
    BY <1>12, FlattenNothing, FrameType DEF BoardReset, Nothing
  <2>3. frame' \in [of : {"ids", "temperatures"}, items : Seq(Items)]
    BY <2>2, FrameType
  <2>4. faults' \in 0 .. MaxFaults /\ job' = NoJob /\ UNCHANGED <<threadVars, late, hasty>> /\ ReadCoreTypeOK'
    BY <1>12, FaultType, CoreUnchanged DEF BoardReset, TypeInv, TypeOK
  <2> QED BY <2>1, <2>2, <2>3, <2>4 DEF TypeInv, TypeOK, PlacesInv, threadVars, Known
<1>13. CASE UNCHANGED vars
  BY <1>13 DEF TypeInv, TypeOK, PlacesInv, ReadCoreTypeOK, vars, readCoreVars, threadVars, boardVars,
              historyVars
<1> QED
  BY <1>1, <1>2, <1>3, <1>4, <1>5, <1>6, <1>7, <1>8, <1>9, <1>10, <1>11, <1>12, <1>13 DEF Next, Thread

\* Every variable keeps its type: in particular the readouts are sequences of readings
\* and errors, and a frame that was cut short or cleared stays a frame.
THEOREM TypeCorrect == Spec => []TypeOK
<1>1. TypeInv => TypeOK
  BY DEF TypeInv
<1> QED BY <1>1, InitType, TypeInvStep, PTL DEF Spec

-----------------------------------------------------------------------------
\* Commands can be told apart.
LEMMA CommandsDiffer ==
  /\ Measure # NoJob
  /\ \A b : Scan(b) # NoJob /\ Scan(b) # Measure
  /\ \A b, c : Scan(b) = Scan(c) => b = c
BY DEF NoJob, Measure, Scan

\* The board has no temperature from before this round once it has finished the command
\* of the round, and what the thread has read of it then is from this round.
LateInv == ReadyInv /\ FreshInv

LEMMA LateInit == Init => LateInv
BY DEF Init, LateInv, ReadyInv, FreshInv

\* Every step keeps the temperatures of a round apart from those before.
LEMMA LateInvStep ==
  ASSUME TypeInv, LateInv, [Next]_vars
  PROVE  LateInv'
<1>1. CASE UNCHANGED <<pc, readout, job, frame, late>>
  <2>1. pc' = pc /\ readout' = readout /\ job' = job /\ frame' = frame /\ late' = late
    BY <1>1
  <2> QED BY <2>1 DEF LateInv, ReadyInv, FreshInv
<1>2. CASE pc' \notin {"reading", "handling"}
  BY <1>2 DEF LateInv, ReadyInv, FreshInv
<1>3. CASE InitReadout
  <2>1. \/ job' = Measure /\ pc' = "reading"
        \/ readout' = Err /\ pc' = "handling"
    BY <1>3, Zenon DEF InitReadout, WriteStatus
  <2> QED BY <2>1, CommandsDiffer DEF LateInv, ReadyInv, FreshInv
<1>4. CASE FetchTemperatures
  <2>1. PICK f \in {frame, ZeroFrame} : readout' = ParseTemperatures(f)
    BY <1>4, Zenon DEF FetchTemperatures
  <2>2. pc = "reading" /\ pc' = "handling" /\ late' = (job # NoJob)
    BY <1>4 DEF FetchTemperatures
  <2>3. ASSUME job = NoJob
        PROVE  readout' \in Seq(News)
    <3>1. frame \in [of : {"temperatures"}, items : Seq(News)]
      BY <2>2, <2>3, Zenon DEF LateInv, ReadyInv
    <3>2. f \in [of : {"temperatures"}, items : Seq(News)]
      <4>1. <<>> \in Seq(News)
        OBVIOUS
      <4>2. ZeroFrame \in [of : {"temperatures"}, items : Seq(News)]
        BY <4>1 DEF ZeroFrame, Frame
      <4>3. f = frame \/ f = ZeroFrame
        BY <2>1
      <4> QED BY <3>1, <4>2, <4>3
    <3>3. readout' = f.items
      BY <2>1, <3>2, FrameType, ParseTemperaturesType DEF TypeInv
    <3> QED BY <3>2, <3>3
  <2>4. FreshInv'
    BY <2>2, <2>3, Zenon DEF FreshInv
  <2>5. ReadyInv'
    BY <2>2 DEF ReadyInv
  <2> QED BY <2>4, <2>5 DEF LateInv
<1>5. CASE FetchTemperaturesFails
  <2>1. /\ pc = "reading" /\ UNCHANGED <<job, frame, late>>
        /\ UNCHANGED pc \/ (pc' = "handling" /\ readout' = Err)
    BY <1>5, Zenon DEF FetchTemperaturesFails, Retry, boardVars, historyVars
  <2>2. CASE UNCHANGED pc
    BY <2>1, <2>2 DEF LateInv, ReadyInv, FreshInv
  <2>3. CASE pc' = "handling" /\ readout' = Err
    BY <2>3 DEF LateInv, ReadyInv, FreshInv
  <2> QED BY <2>1, <2>2, <2>3
<1>6. CASE Complete
  <2>1. job # NoJob /\ job' = NoJob /\ UNCHANGED <<pc, readout, late>>
    BY <1>6 DEF Complete, threadVars, historyVars
  <2>2. FreshInv'
    BY <2>1, Zenon DEF LateInv, FreshInv
  <2>3. ASSUME pc = "reading"
        PROVE  frame' \in [of : {"temperatures"}, items : Seq(News)]
    <3>1. job = Measure
      BY <2>1, <2>3, Zenon DEF LateInv, ReadyInv
    <3>2. PICK silent \in SUBSET Silent :
            frame' = Frame("temperatures",
                           [i \in 1 .. Len(FlattenSeq(found)) |->
                              LET s == FlattenSeq(found)[i]
                              IN  IF s \in silent THEN Err ELSE <<s, "new">>])
      BY <1>6, <3>1, CommandsDiffer, Zenon DEF Complete
    <3>3. found \in Known
      BY DEF Known, TypeInv, TypeOK
    <3>4. PICK known \in Seq(Sensors) : known = FlattenSeq(found)
      BY <3>3, FlattenType
    <3>5. [i \in 1 .. Len(known) |-> IF known[i] \in silent THEN Err ELSE <<known[i], "new">>]
            \in Seq(News)
      BY DEF News
    <3> QED BY <3>2, <3>4, <3>5 DEF Frame
  <2>4. ReadyInv'
    BY <2>1, <2>3, Zenon DEF ReadyInv
  <2> QED BY <2>2, <2>4 DEF LateInv
<1>7. CASE BoardReset
  <2>1. job' = NoJob /\ frame' = ZeroFrame /\ UNCHANGED <<pc, readout, late>>
    BY <1>7 DEF BoardReset, threadVars
  <2>2. FreshInv'
    BY <2>1, Zenon DEF LateInv, FreshInv
  <2>3. frame' \in [of : {"temperatures"}, items : Seq(News)]
    BY <2>1 DEF ZeroFrame, Frame
  <2>4. ReadyInv'
    BY <2>1, <2>3, Zenon DEF ReadyInv
  <2> QED BY <2>2, <2>4 DEF LateInv
<1>8. CASE \E p \in Ports : GetInputPort(p) \/ Consume(p)
  <2>1. UNCHANGED <<pc, readout, job, frame, late>>
    BY <1>8 DEF GetInputPort, Consume, threadVars, boardVars, historyVars
  <2> QED BY <1>1, <2>1
<1>9. CASE ScanBus \/ FetchIds \/ FetchIdsFails \/ HandleResults \/ Restart
  <2>1. pc' \notin {"reading", "handling"}
    <3>1. CASE ScanBus
      <4>1. pc' = "scanning" \/ pc' = "down"
        BY <3>1, Zenon DEF ScanBus, WriteStatus
      <4> QED BY <4>1
    <3>2. CASE FetchIds
      <4>1. \A c : (IF c THEN "asleep" ELSE "down") \in {"asleep", "down"}
        OBVIOUS
      <4>2. pc' \in {"asleep", "down"} \/ pc' = "scan" \/ pc' = "down"
        BY <3>2, <4>1, Zenon DEF FetchIds
      <4> QED BY <4>2
    <3>3. CASE FetchIdsFails
      <4>1. pc = "scanning" /\ (UNCHANGED pc \/ pc' = "down")
        BY <3>3, Zenon DEF FetchIdsFails, Retry
      <4> QED BY <4>1
    <3>4. CASE HandleResults \/ Restart
      BY <3>4 DEF HandleResults, Restart
    <3> QED BY <1>9, <3>1, <3>2, <3>3, <3>4
  <2> QED BY <1>2, <2>1
<1>10. CASE UNCHANGED vars
  <2>1. UNCHANGED <<pc, readout, job, frame, late>>
    BY <1>10 DEF vars, threadVars, boardVars, historyVars
  <2> QED BY <1>1, <2>1
<1> QED
  BY <1>3, <1>4, <1>5, <1>6, <1>7, <1>8, <1>9, <1>10 DEF Next, Thread

-----------------------------------------------------------------------------
\* No result is a result of any sensors.
LEMMA NoResults ==
  ASSUME NEW S, NEW ids \in Seq(S)
  PROVE  ResultsOf(ids, <<>>)
BY DEF ResultsOf

\* The IDs have a length.
LEMMA IdsType ==
  ASSUME TypeInv
  PROVE  sensor_ids \in Seq(Sensors \cup {Junk}) /\ Len(sensor_ids) \in Nat
BY DEF TypeInv, TypeOK

\* A step that leaves the thread and the board alone, and no value to a port.
LEMMA SoundUnchanged ==
  ASSUME SoundInv,
         UNCHANGED <<device_values, pc, bus, sensor_ids, readout, job, found, frame, historyVars>>
  PROVE  SoundInv'
<1>1. /\ device_values' = device_values /\ pc' = pc /\ bus' = bus /\ sensor_ids' = sensor_ids
      /\ readout' = readout /\ job' = job /\ found' = found /\ frame' = frame /\ sound' = sound
      /\ late' = late /\ hasty' = hasty
  BY DEF historyVars
<1>2. ScanInv' /\ AnswerInv' /\ ReadoutInv'
  BY <1>1 DEF SoundInv, ScanInv, AnswerInv, ReadoutInv, TookIds, IdsFit, ReadoutBytes
<1>3. RunningInv'
  BY <1>1 DEF SoundInv, RunningInv
<1>4. RightSensor'
  BY <1>1 DEF SoundInv, RightSensor, IdsFit, ReadoutBytes
<1> QED BY <1>2, <1>3, <1>4, Zenon DEF SoundInv

\* Ports keep what they report, and the thread the IDs.
LEMMA SameValues ==
  ASSUME SoundInv, UNCHANGED <<device_values, sensor_ids>>, sound' => sound, hasty => hasty'
  PROVE  RightSensor'
<1>1. device_values' = device_values /\ IdsFit' = IdsFit
  BY DEF IdsFit, ReadoutBytes
<1> QED BY <1>1, Zenon DEF SoundInv, RightSensor

\* Before the first bus nothing is known.
LEMMA SoundInit ==
  ASSUME Init
  PROVE  SoundInv
<1>1. pc = "scan" /\ bus = 1 /\ sensor_ids = <<>> /\ device_values = [p \in Ports |-> NoValue]
  BY DEF Init, ReadCoreInit
<1>2. ScanInv
  <2>1. \A b \in 1 .. Buses : ~ (b < 1)
    BY Ds18b20ExpanderAssumption
  <2> QED BY <1>1, <2>1, WiredInOrder, Zenon DEF ScanInv
<1>3. AnswerInv /\ ReadoutInv
  BY <1>1 DEF AnswerInv, ReadoutInv
<1>4. RunningInv
  BY <1>1 DEF RunningInv, Running
<1>5. RightSensor
  BY <1>1, Zenon DEF RightSensor
<1> QED BY <1>2, <1>3, <1>4, <1>5 DEF SoundInv

\* The IDs of a bus, read in full, follow those of the buses before; after those of the
\* last bus the thread starts to read.
LEMMA FetchIdsSound ==
  ASSUME TypeInv, SoundInv, FetchIds
  PROVE  SoundInv'
<1>1. PICK f \in {frame, ZeroFrame} :
        /\ sound' = (sound /\ job = NoJob /\ f = frame)
        /\ \/ pc' = "down"
           \/ /\ ParseDeviceIds(f) # Err
              /\ sensor_ids' = sensor_ids \o ParseDeviceIds(f)
              /\ \/ bus < Buses /\ bus' = bus + 1 /\ pc' = "scan"
                 \/ bus = Buses /\ pc' \in {"asleep", "down"}
  <2>1. \A c : (IF c THEN "asleep" ELSE "down") \in {"asleep", "down"}
    OBVIOUS
  <2> QED BY <2>1, Zenon DEF FetchIds
<1>2. pc = "scanning" /\ UNCHANGED <<device_values, readout, job, found, frame>>
  BY DEF FetchIds, readCoreVars, boardVars
<1>3. RightSensor'
  <2>1. sound' => \A p \in Ports : device_values'[p] = NoValue
    BY <1>1, <1>2, Zenon DEF SoundInv, ScanInv
  <2> QED BY <2>1 DEF RightSensor
<1>4. CASE pc' = "down" \/ ~ sound'
  BY <1>3, <1>4, Zenon DEF SoundInv, ScanInv, AnswerInv, RunningInv, ReadoutInv, Running
<1>5. CASE pc' # "down" /\ sound'
  <2>1. sound /\ job = NoJob /\ f = frame
    BY <1>1, <1>5, Zenon
  <2>2. frame = Frame("ids", Wired[bus]) /\ found[bus] = Wired[bus]
    BY <1>2, <2>1, Zenon DEF SoundInv, AnswerInv
  <2>3. ParseDeviceIds(f) = Wired[bus]
    <3>1. FrameOK(f) /\ f.of = "ids" /\ f.items = Wired[bus]
      BY <2>1, <2>2 DEF TypeInv, Frame
    <3> QED BY <1>1, <1>5, <3>1, ParseIdsType
  <2>4. /\ sensor_ids = Before(bus) /\ \A b \in 1 .. Buses : b < bus => found[b] = Wired[b]
        /\ \A p \in Ports : device_values[p] = NoValue
    BY <1>2, <2>1, Zenon DEF SoundInv, ScanInv
  <2>5. sensor_ids' = Before(bus) \o Wired[bus]
    BY <1>1, <1>5, <2>3, <2>4, Zenon
  <2>6. bus \in 1 .. Buses /\ Buses \in Nat
    BY Ds18b20ExpanderAssumption DEF TypeInv, TypeOK
  <2>7. CASE bus < Buses /\ bus' = bus + 1 /\ pc' = "scan"
    <3>1. sensor_ids' = Before(bus')
      BY <2>5, <2>6, <2>7, WiredInOrder
    <3>2. ASSUME NEW b \in 1 .. Buses, b < bus'
          PROVE  found'[b] = Wired[b]
      <4>1. b < bus \/ b = bus
        BY <2>6, <2>7, <3>2
      <4> QED BY <1>2, <2>2, <2>4, <4>1, Zenon
    <3>3. ScanInv'
      BY <1>2, <2>4, <3>1, <3>2, Zenon DEF ScanInv
    <3> QED BY <1>3, <2>7, <3>3, Zenon DEF SoundInv, AnswerInv, RunningInv, ReadoutInv, Running
  <2>8. CASE bus = Buses /\ pc' = "asleep"
    <3>1. sensor_ids' = FlattenSeq(Wired)
      BY <2>5, <2>8, WiredInOrder, Zenon
    <3>2. found' = Wired
      <4>1. \A b \in 1 .. Buses : found[b] = Wired[b]
        <5>1. \A b \in 1 .. Buses : b < bus \/ b = bus
          BY <2>6, <2>8
        <5> QED BY <2>2, <2>4, <5>1, Zenon
      <4>2. found \in [1 .. Buses -> Seq(Sensors)] /\ Wired \in [1 .. Buses -> Seq(Sensors)]
        BY Ds18b20ExpanderAssumption DEF TypeInv, TypeOK
      <4>3. found = Wired
        BY <2>6, <4>1, <4>2
      <4>4. found' = found
        BY <1>2
      <4> QED BY <4>3, <4>4
    <3>3. job' = NoJob /\ frame'.of = "ids" /\ Len(frame'.items) = Len(Wired[Buses])
      BY <1>2, <2>1, <2>2, <2>8 DEF Frame
    <3>4. RunningInv'
      BY <3>1, <3>2, <3>3, Zenon DEF RunningInv
    <3> QED BY <1>3, <2>8, <3>4, Zenon DEF SoundInv, ScanInv, AnswerInv, ReadoutInv
  <2> QED BY <1>1, <1>5, <2>7, <2>8, Zenon
<1> QED BY <1>4, <1>5, Zenon

\* A frame of IDs that is taken for temperatures is no longer than what was asked for,
\* and makes results that were not measured.
LEMMA IdsTaken ==
  ASSUME TypeInv, ReadRegisters(ReadoutBytes, frame), frame.of = "ids",
         Len(frame.items) = Len(Wired[Buses])
  PROVE  IdsFit /\ \A i \in 1 .. Len(ParseTemperatures(frame)) : ParseTemperatures(frame)[i] = Junk
<1>1. DataBytes(frame) \in Nat /\ ReadoutBytes \in Nat
  BY IdsType, FrameType DEF TypeInv, FrameOK, DataBytes, Width, ReadoutBytes
<1>2. ~ (DataBytes(frame) > ReadoutBytes)
  BY DEF ReadRegisters, ZeroFrame, Frame
<1>3. DataBytes(frame) = DataBytes(Frame("ids", Wired[Buses]))
  BY DEF DataBytes, Frame
<1>4. IdsFit
  BY <1>1, <1>2, <1>3 DEF IdsFit
<1> DEFINE n == DataBytes(frame) \div 2
<1>5. ParseTemperatures(frame) = [i \in 1 .. n |-> Junk]
  BY DEF ParseTemperatures
<1>6. n \in Nat
  BY <1>1
<1> HIDE DEF n
<1>7. \A i \in 1 .. Len(ParseTemperatures(frame)) : ParseTemperatures(frame)[i] = Junk
  BY <1>5, <1>6
<1> QED BY <1>4, <1>7

\* Results are read of the sensors that the board found, in its order, or before it has
\* finished a readout the IDs of the last bus.
LEMMA FetchTemperaturesSound ==
  ASSUME TypeInv, LateInv, SoundInv, FetchTemperatures
  PROVE  SoundInv'
<1>1. PICK f \in {frame, ZeroFrame} :
        ReadRegisters(ReadoutBytes, f) /\ readout' = ParseTemperatures(f)
  BY Zenon DEF FetchTemperatures
<1>2. /\ pc = "reading" /\ pc' = "handling"
      /\ UNCHANGED <<device_values, bus, sensor_ids, job, found, sound>>
      /\ late' = (job # NoJob) /\ hasty' = (hasty \/ job # NoJob)
  BY DEF FetchTemperatures, readCoreVars
<1>3. RightSensor'
  BY <1>2, SameValues, Zenon
<1>4. ASSUME sound
      PROVE  /\ sensor_ids = FlattenSeq(Wired)
             /\ found \in {Wired, Nothing} /\ job \in {NoJob, Measure}
             /\ frame.of = "temperatures" => ResultsOf(sensor_ids, frame.items)
             /\ frame.of = "ids" => Len(frame.items) = Len(Wired[Buses])
  BY <1>2, <1>4, Zenon DEF SoundInv, RunningInv, Running
<1>5. ASSUME sound
      PROVE  ResultsOf(sensor_ids', readout') \/ TookIds'
  <2>1. FrameOK(f)
    BY <1>1, FrameType DEF TypeInv
  <2>2. CASE f.of = "temperatures"
    <3>1. readout' = f.items
      BY <1>1, <2>1, <2>2, ParseTemperaturesType
    <3>2. CASE f = frame
      BY <1>2, <1>4, <1>5, <2>2, <3>1, <3>2, Zenon
    <3>3. CASE f = ZeroFrame
      <4>1. f.items = <<>>
        BY <3>3 DEF ZeroFrame, Frame
      <4> QED BY <1>2, <3>1, <4>1, IdsType, NoResults
    <3> QED BY <1>1, <3>2, <3>3
  <2>3. CASE f.of = "ids"
    <3>1. f = frame
      BY <1>1, <2>3 DEF ZeroFrame, Frame
    <3>2. job # NoJob
      BY <1>2, <2>3, <3>1 DEF LateInv, ReadyInv
    <3>3. IdsFit' = IdsFit
      BY <1>2 DEF IdsFit, ReadoutBytes
    <3>4. IdsFit /\ \A i \in 1 .. Len(readout') : readout'[i] = Junk
      BY <1>1, <1>4, <1>5, <2>3, <3>1, IdsTaken, Zenon
    <3> QED BY <1>2, <3>2, <3>3, <3>4, Zenon DEF TookIds
  <2> QED BY <2>1, <2>2, <2>3 DEF FrameOK
<1>6. ReadoutInv'
  BY <1>2, <1>5, Zenon DEF ReadoutInv
<1>7. frame' = [frame EXCEPT !.items = [i \in DOMAIN @ |-> AsUsed(@[i])]]
  BY DEF FetchTemperatures
<1>8. /\ frame'.of = frame.of
      /\ frame'.items = [i \in DOMAIN frame.items |-> AsUsed(frame.items[i])]
  BY <1>7 DEF TypeInv, TypeOK
<1>9. ASSUME sound, frame'.of = "temperatures"
      PROVE  ResultsOf(sensor_ids', frame'.items)
  BY <1>2, <1>4, <1>8, <1>9, UsedFrame, Zenon DEF TypeInv
<1>10. Len(frame'.items) = Len(frame.items)
  BY <1>8 DEF TypeInv, FrameOK
<1>11. RunningInv'
  BY <1>2, <1>4, <1>8, <1>9, <1>10, Zenon DEF RunningInv
<1>12. ScanInv' /\ AnswerInv'
  BY <1>2 DEF ScanInv, AnswerInv
<1> QED BY <1>3, <1>6, <1>11, <1>12, Zenon DEF SoundInv

\* A port is told its own sensor's result: that at the place of the sensor's ID.
LEMMA HandleResultsSound ==
  ASSUME TypeInv, SoundInv, HandleResults
  PROVE  SoundInv'
<1>1. /\ pc = "handling" /\ pc' \in {"asleep", "down"}
      /\ UNCHANGED <<bus, sensor_ids, readout, job, found, frame, sound, late, hasty>>
  BY DEF HandleResults, boardVars, historyVars
<1>2. ScanInv' /\ AnswerInv' /\ ReadoutInv'
  BY <1>1 DEF ScanInv, AnswerInv, ReadoutInv
<1>3. RunningInv'
  BY <1>1, Zenon DEF SoundInv, RunningInv, Running
<1> DEFINE Right(p, v) == \/ v \in {NoValue, Err} \cup ({SensorOf[p]} \X {"new", "used"})
                          \/ v = Junk /\ hasty /\ IdsFit
<1>4. ASSUME sound, NEW p \in Ports
      PROVE  Right(p, device_values'[p])
  <2>1. Right(p, device_values[p])
    BY <1>4, Zenon DEF SoundInv, RightSensor
  <2>2. Right(p, Err)
    OBVIOUS
  <2>3. ASSUME readout # Err, Place(p) <= Len(readout)
        PROVE  Right(p, readout[Place(p)])
    <3>1. Place(p) \in 1 .. Len(readout) /\ sensor_ids[Place(p)] = SensorOf[p]
      <4>1. IndexIn(sensor_ids, p) # 0
        BY <1>1, Zenon DEF TypeInv, PlacesInv, Running
      <4>2. /\ IndexIn(sensor_ids, p) \in 0 .. Len(sensor_ids) /\ Len(sensor_ids) \in Nat
            /\ sensor_ids[IndexIn(sensor_ids, p)] = SensorOf[p]
        BY <4>1, IdsType, IndexInIds
      <4>3. readout \in Seq(Results)
        BY <2>3 DEF TypeInv, TypeOK
      <4> QED BY <2>3, <4>1, <4>2, <4>3 DEF Place
    <3>2. ResultsOf(sensor_ids, readout) \/ TookIds
      BY <1>1, <1>4, <2>3, Zenon DEF SoundInv, ReadoutInv
    <3>3. CASE ResultsOf(sensor_ids, readout)
      <4>1. readout[Place(p)] \in {Err} \cup ({SensorOf[p]} \X {"new", "used"})
        BY <3>1, <3>3, Zenon DEF ResultsOf
      <4> QED BY <4>1
    <3>4. CASE TookIds
      BY <3>1, <3>4, Zenon DEF TookIds
    <3> QED BY <3>2, <3>3, <3>4
  <2> HIDE DEF Right
  <2>4. CASE UpdateValues([q \in Ports |-> Err], TRUE, FALSE)
    BY <2>1, <2>2, <2>4 DEF UpdateValues
  <2>5. CASE /\ readout # Err /\ Len(readout) <= Len(sensor_ids)
             /\ LET told == {q \in Ports : Place(q) <= Len(readout)}
                IN  UpdatePorts(told, [q \in told |-> readout[Place(q)]])
    <3>1. CASE Place(p) <= Len(readout)
      <4>1. device_values'[p] \in {device_values[p], readout[Place(p)]}
        BY <2>5, <3>1 DEF UpdatePorts
      <4> QED BY <2>1, <2>3, <2>5, <3>1, <4>1
    <3>2. CASE ~ (Place(p) <= Len(readout))
      <4>1. device_values'[p] = device_values[p]
        BY <2>5, <3>2 DEF UpdatePorts
      <4> QED BY <2>1, <4>1
    <3> QED BY <3>1, <3>2
  <2>6. CASE UNCHANGED readCoreVars
    BY <2>1, <2>6 DEF readCoreVars
  <2> QED BY <2>4, <2>5, <2>6 DEF HandleResults
<1>5. RightSensor'
  <2>1. IdsFit' = IdsFit
    BY <1>1 DEF IdsFit, ReadoutBytes
  <2> QED BY <1>1, <1>4, <2>1, Zenon DEF RightSensor
<1> QED BY <1>2, <1>3, <1>5, Zenon DEF SoundInv

\* A command that ends leaves the board with what it found, in that order.
LEMMA CompleteSound ==
  ASSUME TypeInv, SoundInv, Complete
  PROVE  SoundInv'
<1>1. job # NoJob /\ job' = NoJob /\ UNCHANGED <<device_values, pc, bus, sensor_ids, readout>>
      /\ UNCHANGED <<sound, late, hasty>>
  BY DEF Complete, readCoreVars, threadVars, historyVars
<1>2. RightSensor' /\ ReadoutInv'
  <2>1. IdsFit' = IdsFit
    BY <1>1 DEF IdsFit, ReadoutBytes
  <2> QED BY <1>1, <2>1, SameValues, Zenon DEF SoundInv, ReadoutInv, TookIds
<1>3. ASSUME NEW b \in 1 .. Buses, job = Scan(b), found' = [found EXCEPT ![b] = Wired[b]],
             frame' = Frame("ids", Wired[b])
      PROVE  SoundInv'
  <2>1. found \in [1 .. Buses -> Seq(Sensors)]
    BY DEF TypeInv, TypeOK
  <2>2. \A c \in 1 .. Buses : found'[c] = Wired[c] \/ found'[c] = found[c]
    BY <1>3, <2>1
  <2>3. found'[b] = Wired[b]
    BY <1>3, <2>1
  <2>4. ScanInv'
    BY <1>1, <2>2, Zenon DEF SoundInv, ScanInv
  <2>5. AnswerInv'
    <3>1. ASSUME sound, pc = "scanning"
          PROVE  b = bus
      BY <1>1, <1>3, <3>1, CommandsDiffer, Zenon DEF SoundInv, AnswerInv
    <3> QED BY <1>1, <1>3, <2>3, <3>1, Zenon DEF AnswerInv
  <2>6. RunningInv'
    <3>1. ~ (sound /\ pc \in Running)
      BY <1>3, CommandsDiffer, Zenon DEF SoundInv, RunningInv
    <3> QED BY <1>1, <3>1, Zenon DEF RunningInv
  <2> QED BY <1>2, <2>4, <2>5, <2>6, Zenon DEF SoundInv
<1>4. ASSUME NEW silent \in SUBSET Silent, job = Measure, UNCHANGED found,
             frame' = Frame("temperatures",
                            [i \in 1 .. Len(FlattenSeq(found)) |->
                               LET s == FlattenSeq(found)[i]
                               IN  IF s \in silent THEN Err ELSE <<s, "new">>])
      PROVE  SoundInv'
  <2>1. ScanInv'
    BY <1>1, <1>4, Zenon DEF SoundInv, ScanInv
  <2>2. AnswerInv'
    <3>1. ~ (sound /\ pc = "scanning")
      BY <1>4, CommandsDiffer, Zenon DEF SoundInv, AnswerInv
    <3> QED BY <1>1, <3>1, Zenon DEF AnswerInv
  <2>3. ASSUME sound, pc \in Running
        PROVE  ResultsOf(sensor_ids, frame'.items)
    <3>1. sensor_ids = FlattenSeq(Wired) /\ found \in {Wired, Nothing}
      BY <2>3, Zenon DEF SoundInv, RunningInv
    <3>2. PICK known : known = FlattenSeq(found)
      OBVIOUS
    <3>3. known = sensor_ids \/ known = <<>>
      BY <3>1, <3>2, FlattenNothing
    <3>4. frame'.items = [i \in 1 .. Len(known) |->
                            IF known[i] \in silent THEN Err ELSE <<known[i], "new">>]
      BY <1>4, <3>2 DEF Frame
    <3>5. CASE known = sensor_ids
      BY <3>4, <3>5, IdsType DEF ResultsOf
    <3>6. CASE known = <<>>
      <4>1. frame'.items = <<>>
        BY <3>4, <3>6
      <4> QED BY <4>1, IdsType, NoResults
    <3> QED BY <3>3, <3>5, <3>6
  <2>4. frame'.of # "ids"
    BY <1>4 DEF Frame
  <2>5. RunningInv'
    BY <1>1, <1>4, <2>3, <2>4, Zenon DEF SoundInv, RunningInv
  <2> QED BY <1>2, <2>1, <2>2, <2>5, Zenon DEF SoundInv
<1> QED BY <1>3, <1>4, Zenon DEF Complete

\* A board that has lost its memory has nothing to read, whatever was found before.
LEMMA BoardResetSound ==
  ASSUME TypeInv, SoundInv, BoardReset
  PROVE  SoundInv'
<1>1. /\ job' = NoJob /\ found' = Nothing /\ frame' = ZeroFrame
      /\ UNCHANGED <<device_values, pc, bus, sensor_ids, readout, late, hasty>>
  BY DEF BoardReset, Nothing, readCoreVars, threadVars
<1>2. sound' = (sound /\ pc \notin {"scan", "scanning"})
  BY DEF BoardReset
<1>3. RightSensor' /\ ReadoutInv'
  <2>1. IdsFit' = IdsFit
    BY <1>1 DEF IdsFit, ReadoutBytes
  <2> QED BY <1>1, <1>2, <2>1, SameValues, Zenon DEF SoundInv, ReadoutInv, TookIds
<1>4. ScanInv' /\ AnswerInv'
  BY <1>1, <1>2, Zenon DEF ScanInv, AnswerInv
<1>5. frame'.items = <<>> /\ frame'.of # "ids" /\ ResultsOf(sensor_ids, <<>>)
  BY <1>1, IdsType, NoResults DEF ZeroFrame, Frame
<1>6. RunningInv'
  BY <1>1, <1>2, <1>5, Zenon DEF SoundInv, RunningInv
<1> QED BY <1>3, <1>4, <1>6, Zenon DEF SoundInv

\* Every step keeps the results with their sensors.
LEMMA SoundInvStep ==
  ASSUME TypeInv, LateInv, SoundInv, [Next]_vars
  PROVE  SoundInv'
<1>1. ASSUME NEW p \in Ports, GetInputPort(p) \/ Consume(p)
      PROVE  SoundInv'
  <2>1. UNCHANGED <<device_values, pc, bus, sensor_ids, readout, job, found, frame, historyVars>>
    BY <1>1 DEF GetInputPort, Consume, PollEvents, threadVars, boardVars, historyVars
  <2> QED BY <2>1, SoundUnchanged
<1>2. CASE ScanBus
  <2>1. /\ pc = "scan" /\ pc' \in {"scanning", "down"}
        /\ pc' = "scanning" => job' = Scan(bus)
        /\ UNCHANGED <<device_values, bus, sensor_ids, readout, found, frame, sound, hasty>>
    <3>1. pc' = "down" \/ (pc' = "scanning" /\ job' = Scan(bus))
      BY <1>2, Zenon DEF ScanBus, WriteStatus
    <3>2. pc = "scan" /\ UNCHANGED <<device_values, bus, sensor_ids, readout, found, frame, sound, hasty>>
      BY <1>2 DEF ScanBus, readCoreVars, historyVars
    <3> QED BY <3>1, <3>2
  <2>2. RightSensor'
    BY <2>1, SameValues, Zenon
  <2>3. ScanInv'
    BY <2>1, Zenon DEF SoundInv, ScanInv
  <2>4. AnswerInv'
    BY <2>1, CommandsDiffer, Zenon DEF AnswerInv
  <2>5. RunningInv' /\ ReadoutInv'
    BY <2>1 DEF RunningInv, ReadoutInv, Running
  <2> QED BY <2>2, <2>3, <2>4, <2>5, Zenon DEF SoundInv
<1>3. CASE FetchIds
  BY <1>3, FetchIdsSound
<1>4. CASE FetchIdsFails
  <2>1. /\ pc = "scanning" /\ pc' \in {"scanning", "down"}
        /\ UNCHANGED <<device_values, bus, sensor_ids, job, found, frame, sound, hasty>>
    <3>1. pc = "scanning" /\ UNCHANGED <<device_values, bus, sensor_ids, job, found, frame, sound, hasty>>
      BY <1>4 DEF FetchIdsFails, readCoreVars, boardVars, historyVars
    <3>2. UNCHANGED pc \/ pc' = "down"
      BY <1>4, Zenon DEF FetchIdsFails, Retry
    <3> QED BY <3>1, <3>2
  <2>2. RightSensor'
    BY <2>1, SameValues, Zenon
  <2>3. ScanInv' /\ AnswerInv'
    BY <2>1, Zenon DEF SoundInv, ScanInv, AnswerInv
  <2>4. RunningInv' /\ ReadoutInv'
    BY <2>1 DEF RunningInv, ReadoutInv, Running
  <2> QED BY <2>2, <2>3, <2>4, Zenon DEF SoundInv
<1>5. CASE InitReadout
  <2>1. /\ pc = "asleep" /\ job' \in {job, Measure}
        /\ pc' = "reading" \/ (pc' = "handling" /\ readout' = Err)
    BY <1>5, Zenon DEF InitReadout, WriteStatus
  <2>2. UNCHANGED <<device_values, bus, sensor_ids, found, frame, sound, hasty>>
    BY <1>5 DEF InitReadout, readCoreVars
  <2>3. RightSensor'
    BY <2>2, SameValues, Zenon
  <2>4. RunningInv'
    BY <2>1, <2>2, Zenon DEF SoundInv, RunningInv, Running
  <2>5. ScanInv' /\ AnswerInv' /\ ReadoutInv'
    BY <2>1 DEF ScanInv, AnswerInv, ReadoutInv
  <2> QED BY <2>3, <2>4, <2>5, Zenon DEF SoundInv
<1>6. CASE FetchTemperatures
  BY <1>6, FetchTemperaturesSound
<1>7. CASE FetchTemperaturesFails
  <2>1. /\ pc = "reading"
        /\ UNCHANGED pc \/ (pc' = "handling" /\ readout' = Err)
    BY <1>7, Zenon DEF FetchTemperaturesFails, Retry
  <2>2. UNCHANGED <<device_values, bus, sensor_ids, job, found, frame, sound, hasty>>
    BY <1>7 DEF FetchTemperaturesFails, readCoreVars, boardVars, historyVars
  <2>3. RightSensor'
    BY <2>2, SameValues, Zenon
  <2>4. RunningInv'
    BY <2>1, <2>2, Zenon DEF SoundInv, RunningInv, Running
  <2>5. ScanInv' /\ AnswerInv' /\ ReadoutInv'
    BY <2>1 DEF ScanInv, AnswerInv, ReadoutInv
  <2> QED BY <2>3, <2>4, <2>5, Zenon DEF SoundInv
<1>8. CASE HandleResults
  BY <1>8, HandleResultsSound
<1>9. CASE Restart
  <2>1. /\ pc' = "scan" /\ bus' = 1 /\ sensor_ids' = <<>>
        /\ device_values' = [p \in Ports |-> NoValue]
    BY <1>9 DEF Restart
  <2>2. ScanInv'
    <3>1. \A b \in 1 .. Buses : ~ (b < 1)
      BY Ds18b20ExpanderAssumption
    <3> QED BY <2>1, <3>1, WiredInOrder, Zenon DEF ScanInv
  <2>3. AnswerInv' /\ RunningInv' /\ ReadoutInv'
    BY <2>1 DEF AnswerInv, RunningInv, ReadoutInv, Running
  <2>4. RightSensor'
    BY <2>1, Zenon DEF RightSensor
  <2> QED BY <2>2, <2>3, <2>4, Zenon DEF SoundInv
<1>10. CASE Complete
  BY <1>10, CompleteSound
<1>11. CASE BoardReset
  BY <1>11, BoardResetSound
<1>12. CASE UNCHANGED vars
  <2>1. UNCHANGED <<device_values, pc, bus, sensor_ids, readout, job, found, frame, historyVars>>
    BY <1>12 DEF vars, readCoreVars, threadVars, boardVars, historyVars
  <2> QED BY <2>1, SoundUnchanged
<1> QED
  BY <1>1, <1>2, <1>3, <1>4, <1>5, <1>6, <1>7, <1>8, <1>9, <1>10, <1>11, <1>12 DEF Next, Thread

\* After a sound scan no port ever reports another sensor's temperature, whatever fails
\* and however late answers are, and what was not measured at all only if the IDs of
\* the last bus fit into a readout and one has been fetched before it was ready.
THEOREM PortsReportTheirSensors == Spec => []RightSensor
<1>1. Init => TypeInv /\ LateInv /\ SoundInv
  BY InitType, LateInit, SoundInit
<1>2. TypeInv /\ LateInv /\ SoundInv /\ [Next]_vars => (TypeInv /\ LateInv /\ SoundInv)'
  BY TypeInvStep, LateInvStep, SoundInvStep
<1>3. SoundInv => RightSensor
  BY DEF SoundInv
<1> QED BY <1>1, <1>2, <1>3, PTL DEF Spec

-----------------------------------------------------------------------------
\* The step of RoundsAreTold, from the invariants.
LEMMA HandleResultsTells ==
  ASSUME TypeInv, SoundInv, LateInv, HandleResults, pc' = "asleep",
         readout = Err \/ Len(readout) = Len(sensor_ids), NEW p \in mapped
  PROVE  /\ Len(events'[p]) = Len(events[p]) + 1
         /\ sound /\ ~late => events'[p][Len(events'[p])] \in {Err, <<SensorOf[p], "new">>}
<1>1. p \in Ports /\ events[p] \in Seq(Results) /\ pc = "handling"
  BY DEF HandleResults, TypeInv, TypeOK, ReadCoreTypeOK
<1>2. ASSUME NEW told \in Results, events'[p] = Append(events[p], told),
             sound /\ ~late => told \in {Err, <<SensorOf[p], "new">>}
      PROVE  /\ Len(events'[p]) = Len(events[p]) + 1
             /\ sound /\ ~late => events'[p][Len(events'[p])] \in {Err, <<SensorOf[p], "new">>}
  <2>1. Len(events'[p]) = Len(events[p]) + 1 /\ events'[p][Len(events'[p])] = told
    BY <1>1, <1>2
  <2> QED BY <1>2, <2>1, Zenon
<1>3. CASE readout = Err
  <2>1. UpdateValues([q \in Ports |-> Err], TRUE, FALSE)
    BY <1>3, Zenon DEF HandleResults
  <2>2. events'[p] = Append(events[p], Err)
    BY <1>1, <1>3, <2>1 DEF UpdateValues, GeneratesEvent
  <2>3. Err \in Results
    BY DEF Results
  <2> QED BY <1>2, <2>2, <2>3, Zenon
<1>4. CASE readout # Err
  <2>1. /\ Len(readout) = Len(sensor_ids) /\ readout \in Seq(Results)
        /\ Len(sensor_ids) \in Nat
    BY <1>4, IdsType DEF TypeInv, TypeOK
  <2> DEFINE told == {q \in Ports : Place(q) <= Len(readout)}
  <2>2. UpdatePorts(told, [q \in told |-> readout[Place(q)]])
    BY <1>4, <2>1 DEF HandleResults
  <2>3. Place(p) \in 1 .. Len(readout) /\ sensor_ids[Place(p)] = SensorOf[p]
    <3>1. IndexIn(sensor_ids, p) # 0
      BY <1>1, Zenon DEF TypeInv, PlacesInv, Running
    <3>2. /\ IndexIn(sensor_ids, p) \in 0 .. Len(sensor_ids)
          /\ sensor_ids[IndexIn(sensor_ids, p)] = SensorOf[p]
      BY <3>1, IdsType, IndexInIds
    <3> QED BY <2>1, <3>1, <3>2 DEF Place
  <2>4. events'[p] = Append(events[p], readout[Place(p)])
    BY <1>1, <2>2, <2>3 DEF UpdatePorts
  <2>5. readout[Place(p)] \in Results
    BY <2>1, <2>3
  <2>6. ASSUME sound, ~late
        PROVE  readout[Place(p)] \in {Err, <<SensorOf[p], "new">>}
    <3>1. readout[Place(p)] \in {Err} \cup ({SensorOf[p]} \X {"new", "used"})
      <4>1. ResultsOf(sensor_ids, readout)
        BY <1>1, <1>4, <2>6, Zenon DEF SoundInv, ReadoutInv, TookIds
      <4> QED BY <2>3, <4>1, Zenon DEF ResultsOf
    <3>2. readout[Place(p)] \in News
      <4>1. readout \in Seq(News)
        BY <1>1, <1>4, <2>6, Zenon DEF LateInv, FreshInv
      <4> QED BY <2>3, <4>1
    <3> QED BY <3>1, <3>2 DEF News
  <2> QED BY <1>2, <2>4, <2>5, <2>6, Zenon
<1> QED BY <1>3, <1>4

\* Every round that fails or has a result for every sensor tells each subscriber an error
\* or a temperature of its own sensor, of this round if the answer was ready.
THEOREM EveryRoundIsTold == Spec => RoundsAreTold
<1> DEFINE Inv == TypeInv /\ SoundInv /\ LateInv
<1>1. Init => Inv
  BY InitType, SoundInit, LateInit
<1>2. Inv /\ [Next]_vars => Inv'
  BY TypeInvStep, SoundInvStep, LateInvStep
<1>3. Inv /\ [Next]_vars =>
        [pc = "handling" /\ pc' = "asleep" /\ (readout = Err \/ Len(readout) = Len(sensor_ids)) =>
           \A p \in mapped :
             /\ Len(events'[p]) = Len(events[p]) + 1
             /\ sound /\ ~late => events'[p][Len(events'[p])] \in {Err, <<SensorOf[p], "new">>}]_vars
  <2> SUFFICES ASSUME Inv, Next, pc = "handling", pc' = "asleep",
                      readout = Err \/ Len(readout) = Len(sensor_ids), NEW p \in mapped
               PROVE  /\ Len(events'[p]) = Len(events[p]) + 1
                      /\ sound /\ ~late =>
                           events'[p][Len(events'[p])] \in {Err, <<SensorOf[p], "new">>}
    OBVIOUS
  <2>1. HandleResults
    BY DEF Next, Thread, GetInputPort, Consume, ScanBus, FetchIds, FetchIdsFails, InitReadout,
           FetchTemperatures, FetchTemperaturesFails, Restart, Complete, BoardReset, threadVars
  <2> QED BY <2>1, HandleResultsTells
<1> QED BY <1>1, <1>2, <1>3, PTL DEF Spec, RoundsAreTold

-----------------------------------------------------------------------------
\* A word of the board is split into sign and magnitude.
LEMMA DecodeWord ==
  ASSUME NEW m \in 0 .. 4095
  PROVE  /\ m % 4096 = m /\ m \div 4096 = 0
         /\ (61440 + m) % 4096 = m /\ (61440 + m) \div 4096 = 15
OBVIOUS

\* Whichever of the two forms the board sends, what is decoded was measured.
LEMMA NoWrongTemperatureHolds == NoWrongTemperature
<1> SUFFICES ASSUME NEW t \in Measurable
             PROVE  /\ ParseTemperature(SignMagnitude(t)) =
                         IF t = 85 * 16 \/ t < -50 * 16 THEN Err ELSE t
                    /\ ParseTemperature(TwosComplement(t)) \in {t, Err}
  BY DEF NoWrongTemperature
<1>1. t \in Int /\ -880 <= t /\ t <= 2000
  BY DEF Measurable
<1>2. CASE t >= 0
  <2>1. SignMagnitude(t) = t /\ TwosComplement(t) = t
    BY <1>1, <1>2 DEF SignMagnitude, TwosComplement
  <2>2. t % 4096 = t /\ t \div 4096 = 0
    BY <1>1, <1>2, DecodeWord
  <2> QED BY <1>1, <1>2, <2>1, <2>2 DEF ParseTemperature
<1>3. CASE t < 0
  <2>1. SignMagnitude(t) = 61440 + (-t) /\ TwosComplement(t) = 61440 + (4096 + t)
    BY <1>1, <1>3 DEF SignMagnitude, TwosComplement
  <2>2. /\ SignMagnitude(t) % 4096 = -t /\ SignMagnitude(t) \div 4096 = 15
    BY <1>1, <1>3, <2>1, DecodeWord
  <2>3. /\ TwosComplement(t) % 4096 = 4096 + t /\ TwosComplement(t) \div 4096 = 15
    BY <1>1, <1>3, <2>1, DecodeWord
  <2>4. ParseTemperature(SignMagnitude(t)) = IF t < -50 * 16 THEN Err ELSE t
    BY <1>1, <1>3, <2>1, <2>2 DEF ParseTemperature
  <2>5. ParseTemperature(TwosComplement(t)) = Err
    BY <1>1, <1>3, <2>1, <2>3 DEF ParseTemperature
  <2> QED BY <1>1, <1>3, <2>4, <2>5
<1> QED BY <1>1, <1>2, <1>3

\* No temperature is decoded as another one, and answers for up to thirty sensors on
\* each of four buses fit the buffer.
THEOREM TemperaturesDecoded == Spec => []Decoding
<1>1. AnswersFit
  BY DEF AnswersFit, ScanBytes, BufferSize, TruncateToLength
<1>2. Decoding
  BY <1>1, NoWrongTemperatureHolds DEF Decoding
<1> QED BY <1>2, PTL

=============================================================================
