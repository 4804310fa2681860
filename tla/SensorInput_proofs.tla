------------------------- MODULE SensorInput_proofs -------------------------
(***************************************************************************)
(* Proofs about SensorInput, for any of the devices, readings, jumps,      *)
(* reset intervals, and any number of disturbances.                        *)
(***************************************************************************)
EXTENDS SensorInput, SequenceTheorems, WellFoundedInduction, TLAPS

(***************************************************************************)
(* Types.                                                                  *)
(***************************************************************************)
\* An update of every port with readings or errors keeps the types of the core.
LEMMA UpdateValuesType ==
  ASSUME ReadCoreTypeOK, NEW new \in [Ports -> Results],
         NEW force \in BOOLEAN, NEW suppress \in BOOLEAN,
         UpdateValues(new, force, suppress)
  PROVE  ReadCoreTypeOK'
BY DEF ReadCoreTypeOK, UpdateValues, Results

\* poll_events keeps the types of the core, whether the queue yields an event or the task parks.
LEMMA PollEventsType ==
  ASSUME ReadCoreTypeOK, NEW p \in Ports, PollEvents(p)
  PROVE  ReadCoreTypeOK'
<1>1. CASE events[p] = <<>>
  BY <1>1 DEF ReadCoreTypeOK, PollEvents
<1>2. CASE events[p] # <<>>
  <2>1. events[p] \in Seq(Results)
    BY DEF ReadCoreTypeOK
  <2> DEFINE event == Head(events[p])
             rest == Tail(events[p])
  <2>2. event \in Results /\ rest \in Seq(Results)
    BY <1>2, <2>1
  <2>3. /\ events' = [events EXCEPT ![p] = rest] /\ received' = [received EXCEPT ![p] = event]
        /\ UNCHANGED <<device_values, mapped, wakers>>
    BY <1>2 DEF PollEvents
  <2> HIDE DEF event, rest
  <2> QED BY <2>2, <2>3 DEF ReadCoreTypeOK
<1> QED BY <1>1, <1>2

\* A new queue, too.
LEMMA SetUpEventsType ==
  ASSUME ReadCoreTypeOK, NEW p \in Ports, SetUpEvents(p),
         UNCHANGED <<device_values, wakers, received>>
  PROVE  ReadCoreTypeOK'
BY DEF ReadCoreTypeOK, SetUpEvents

HistoryType == shown \in Readings \cup {NoValue} /\ inits \in BOOLEAN /\ unreset \in Nat

TypeInv == TypeOK /\ HistoryType

\* A reading that is reported, and an error.
LEMMA ReportType ==
  ASSUME TypeInv
  PROVE  /\ \A m \in Readings : Report(m) => ReadCoreTypeOK' /\ HistoryType'
         /\ ReportError => ReadCoreTypeOK' /\ HistoryType'
<1>1. ReadCoreTypeOK
  BY DEF TypeInv, TypeOK
<1>2. ASSUME NEW m \in Readings, Report(m)
      PROVE  ReadCoreTypeOK' /\ HistoryType'
  <2>1. [p \in Ports |-> m] \in [Ports -> Results]
    BY DEF Results
  <2>2. PICK force \in BOOLEAN : UpdateValues([p \in Ports |-> m], force, FALSE)
    BY <1>2 DEF Report
  <2>3. ReadCoreTypeOK'
    BY <1>1, <2>1, <2>2, UpdateValuesType
  <2>4. shown' \in Readings /\ unreset' \in Nat
    BY <1>2 DEF Report, TypeInv, HistoryType
  <2>5. inits' \in BOOLEAN
    BY <1>2, Zenon DEF Report
  <2> QED BY <2>3, <2>4, <2>5 DEF HistoryType
<1>3. ASSUME ReportError
      PROVE  ReadCoreTypeOK' /\ HistoryType'
  <2>1. [p \in Ports |-> Err] \in [Ports -> Results]
    BY DEF Results
  <2>2. ReadCoreTypeOK'
    BY <1>1, <1>3, <2>1, UpdateValuesType DEF ReportError
  <2>3. HistoryType'
    BY <1>3, Zenon DEF ReportError, historyVars, TypeInv, HistoryType
  <2> QED BY <2>2, <2>3
<1> QED BY <1>2, <1>3

\* Disturbances are counted up to the bound.
LEMMA FaultType ==
  ASSUME TypeInv, Fault \/ UNCHANGED faults
  PROVE  faults' \in 0 .. MaxFaults
BY SensorAssumption DEF Fault, TypeInv, TypeOK

\* The configuration of a device stays as it is.
LEMMA ConfigType ==
  ASSUME TypeInv, UNCHANGED configVars
  PROVE  device' \in Devices /\ adjust' \in BOOLEAN /\ every' \in Resets
<1>1. device' = device /\ adjust' = adjust /\ every' = every
  BY DEF configVars
<1> QED BY <1>1, Zenon DEF TypeInv, TypeOK

\* A step that leaves a part of the state alone keeps its types.
LEMMA UnchangedType ==
  ASSUME TypeInv
  PROVE  /\ UNCHANGED readCoreVars => ReadCoreTypeOK'
         /\ UNCHANGED historyVars => HistoryType'
<1>1. ASSUME UNCHANGED readCoreVars
      PROVE  ReadCoreTypeOK'
  BY <1>1 DEF readCoreVars, ReadCoreTypeOK, TypeInv, TypeOK
<1>2. ASSUME UNCHANGED historyVars
      PROVE  HistoryType'
  BY <1>2, Zenon DEF historyVars, HistoryType, TypeInv
<1> QED BY <1>1, <1>2

LEMMA InitType ==
  ASSUME Init
  PROVE  TypeInv
<1> USE SensorAssumption
<1>1. ReadCoreTypeOK
  BY DEF Init, ReadCoreInit, ReadCoreTypeOK
<1>2. device \in Devices /\ pc \in {"reading", "asleep"} /\ priority = "default"
      /\ last_pressure = NoValue /\ readout_count = 0
      /\ actual \in Readings /\ stuck = NoValue /\ faults = 0 /\ shown = NoValue /\ unreset = 0
  BY DEF Init
<1>3. adjust \in BOOLEAN /\ inits \in BOOLEAN
  <2>1. adjust \in (IF device = "dht22" THEN BOOLEAN ELSE {FALSE}) /\ inits = FALSE
    BY Zenon DEF Init
  <2> QED BY <2>1, Zenon
<1>4. every \in Resets
  BY Zenon DEF Init
<1> QED BY <1>1, <1>2, <1>3, <1>4 DEF TypeInv, TypeOK, HistoryType

\* Every step keeps the types.
LEMMA TypeInvStep ==
  ASSUME TypeInv, [Next]_vars
  PROVE  TypeInv'
<1> USE SensorAssumption
<1> DEFINE WorldType == actual \in Readings /\ stuck \in Readings \cup {NoValue}
           ThreadType == /\ pc \in {"reading", "hanging", "resetting", "periodic", "asleep"}
                         /\ last_pressure \in Readings \cup {NoValue}
                         /\ readout_count \in Nat
                         /\ priority \in {"default", "max"}
<1>0. ReadCoreTypeOK /\ HistoryType /\ WorldType /\ ThreadType /\ faults \in 0 .. MaxFaults
  BY DEF TypeInv, TypeOK
<1>a. ASSUME ReadCoreTypeOK', HistoryType', WorldType', ThreadType', UNCHANGED configVars,
             Fault \/ UNCHANGED faults
      PROVE  TypeInv'
  <2>1. faults' \in 0 .. MaxFaults
    BY <1>a, FaultType
  <2>2. device' \in Devices /\ adjust' \in BOOLEAN /\ every' \in Resets
    BY <1>a, ConfigType
  <2> QED BY <1>a, <2>1, <2>2, Zenon DEF TypeInv, TypeOK, HistoryType
<1>1. ASSUME NEW p \in Ports, GetInputPort(p) \/ Consume(p)
      PROVE  TypeInv'
  <2>1. ReadCoreTypeOK'
    <3>1. CASE GetInputPort(p)
      <4>1. SetUpEvents(p) /\ UNCHANGED <<device_values, wakers, received>>
        BY <3>1 DEF GetInputPort
      <4> QED BY <1>0, <4>1, SetUpEventsType
    <3>2. CASE Consume(p)
      BY <1>0, <3>2, PollEventsType DEF Consume
    <3> QED BY <1>1, <3>1, <3>2
  <2>2. UNCHANGED configVars /\ UNCHANGED threadVars /\ UNCHANGED worldVars /\ UNCHANGED historyVars
    BY <1>1 DEF GetInputPort, Consume
  <2>3. ThreadType' /\ WorldType' /\ UNCHANGED faults
    BY <1>0, <2>2 DEF threadVars, worldVars
  <2> QED BY <1>a, <2>1, <2>2, <2>3, UnchangedType
<1>2. CASE ReadValue
  <2>1. Report(actual) /\ UNCHANGED configVars
    BY <1>2 DEF ReadValue
  <2>2. ThreadType' /\ WorldType' /\ UNCHANGED faults
    BY <1>0, <1>2 DEF ReadValue, worldVars
  <2> QED BY <1>0, <1>a, <2>1, <2>2, ReportType
<1>3. CASE ReadValueFails
  <2>1. ReportError /\ UNCHANGED configVars /\ Fault
    BY <1>3 DEF ReadValueFails
  <2>2. ThreadType' /\ WorldType'
    BY <1>0, <1>3 DEF ReadValueFails
  <2> QED BY <1>a, <2>1, <2>2, ReportType
<1>4. CASE Sleep
  <2>1. UNCHANGED readCoreVars /\ UNCHANGED historyVars /\ UNCHANGED configVars
    BY <1>4 DEF Sleep
  <2>2. ThreadType' /\ WorldType' /\ UNCHANGED faults
    BY <1>0, <1>4 DEF Sleep, worldVars
  <2> QED BY <1>a, <2>1, <2>2, UnchangedType
<1>5. CASE Measure
  <2>1. Measured \in Readings
    BY <1>0 DEF Measured
  <2>2. Report(Measured) /\ UNCHANGED configVars
    BY <1>5 DEF Measure
  <2>3. ThreadType' /\ WorldType' /\ UNCHANGED faults
    BY <1>0, <1>5, <2>1 DEF Measure, worldVars
  <2> QED BY <1>a, <2>1, <2>2, <2>3, ReportType
<1>6. CASE MeasureJump
  <2>1. UNCHANGED readCoreVars /\ UNCHANGED historyVars /\ UNCHANGED configVars
    BY <1>6 DEF MeasureJump
  <2>2. ThreadType' /\ WorldType' /\ UNCHANGED faults
    BY <1>0, <1>6 DEF MeasureJump, worldVars
  <2> QED BY <1>a, <2>1, <2>2, UnchangedType
<1>7. CASE MeasureFails
  <2>1. ReportError /\ UNCHANGED configVars /\ Fault
    BY <1>7 DEF MeasureFails
  <2>2. ThreadType' /\ WorldType'
    BY <1>0, <1>7 DEF MeasureFails
  <2> QED BY <1>a, <2>1, <2>2, ReportType
<1>8. CASE ResetSucceeds
  <2>1. UNCHANGED readCoreVars /\ UNCHANGED configVars /\ UNCHANGED faults
    BY <1>8 DEF ResetSucceeds
  <2>2. ThreadType' /\ WorldType' /\ shown' \in Readings \cup {NoValue} /\ unreset' \in Nat
    BY <1>0, <1>8 DEF ResetSucceeds, HistoryType
  <2>3. inits' \in BOOLEAN
    BY <1>8, Zenon DEF ResetSucceeds
  <2> QED BY <1>a, <2>1, <2>2, <2>3, UnchangedType DEF HistoryType
<1>9. CASE ResetFails
  <2>1. UNCHANGED readCoreVars /\ UNCHANGED historyVars /\ UNCHANGED configVars /\ Fault
    BY <1>9 DEF ResetFails
  <2>2. ThreadType' /\ WorldType'
    BY <1>0, <1>9 DEF ResetFails
  <2> QED BY <1>a, <2>1, <2>2, UnchangedType
<1>10. CASE ReadPin
  <2>1. \/ Report(actual)
        \/ ReportError
        \/ UNCHANGED readCoreVars /\ UNCHANGED historyVars
    BY <1>10 DEF ReadPin, Readout, ReadoutTimesOut
  <2>2. ReadCoreTypeOK' /\ HistoryType'
    BY <1>0, <2>1, ReportType, UnchangedType
  <2>3. Fault \/ UNCHANGED faults
    BY <1>10, Zenon DEF ReadPin, Readout, ReadoutTimesOut
  <2>4. pc' = "asleep" /\ (priority' = "default" \/ priority' = IF adjust THEN "max" ELSE "default")
    BY <1>10, Zenon DEF ReadPin, Readout, ReadoutTimesOut
  <2>5. \A c : (IF c THEN "max" ELSE "default") \in {"default", "max"}
    OBVIOUS
  <2>6. priority' \in {"default", "max"}
    BY <2>4, <2>5, Zenon
  <2>7. UNCHANGED <<configVars, last_pressure, readout_count, actual, stuck>>
    BY <1>10 DEF ReadPin
  <2>8. ThreadType' /\ WorldType'
    BY <1>0, <2>4, <2>6, <2>7
  <2> QED BY <1>a, <2>2, <2>3, <2>7, <2>8
<1>11. CASE LineStaysLow
  <2>1. UNCHANGED readCoreVars /\ UNCHANGED historyVars /\ UNCHANGED configVars /\ Fault
    BY <1>11 DEF LineStaysLow
  <2>2. \A c : (IF c THEN "max" ELSE "default") \in {"default", "max"}
    OBVIOUS
  <2>3. priority' \in {"default", "max"}
    BY <1>11, <2>2, Zenon DEF LineStaysLow
  <2>4. ThreadType' /\ WorldType'
    BY <1>0, <1>11, <2>3 DEF LineStaysLow
  <2> QED BY <1>a, <2>1, <2>4, UnchangedType
<1>12. CASE WorldChanges \/ ChipGetsStuck
  <2>1. UNCHANGED readCoreVars /\ UNCHANGED historyVars /\ UNCHANGED configVars /\ Fault
    BY <1>12 DEF WorldChanges, ChipGetsStuck
  <2>2. ThreadType' /\ WorldType'
    BY <1>0, <1>12 DEF WorldChanges, ChipGetsStuck, threadVars
  <2> QED BY <1>a, <2>1, <2>2, UnchangedType
<1>13. CASE UNCHANGED vars
  <2>1. UNCHANGED readCoreVars /\ UNCHANGED historyVars /\ UNCHANGED configVars
    BY <1>13 DEF vars
  <2>2. ThreadType' /\ WorldType' /\ UNCHANGED faults
    BY <1>0, <1>13 DEF vars, threadVars, worldVars
  <2> QED BY <1>a, <2>1, <2>2, UnchangedType
<1> QED
  BY <1>1, <1>2, <1>3, <1>4, <1>5, <1>6, <1>7, <1>8, <1>9, <1>10, <1>11, <1>12, <1>13 DEF Next

\* Every variable keeps its type, whichever device it is.
THEOREM TypeCorrect == Spec => []TypeOK
<1>1. TypeInv => TypeOK
  BY DEF TypeInv
<1> QED BY <1>1, InitType, TypeInvStep, PTL DEF Spec

-----------------------------------------------------------------------------
(***************************************************************************)
(* Jumps of the pressure.  The pressure that the thread compares with is   *)
(* the one reported last, unless the chip was initialised since then or is *)
(* about to be: also after errors, which leave it alone.                   *)
(***************************************************************************)
JumpInv ==
  device = "bme280" /\ ~inits /\ pc # "resetting" => last_pressure = shown

LEMMA JumpInit == Init => JumpInv
BY DEF Init, JumpInv

LEMMA JumpInvStep ==
  ASSUME TypeInv, JumpInv, [Next]_vars
  PROVE  JumpInv'
<1>1. CASE UNCHANGED <<device, last_pressure, shown, inits>> /\ (pc' = "resetting" \/ pc # "resetting")
  <2>1. device' = device /\ last_pressure' = last_pressure /\ shown' = shown /\ inits' = inits
    BY <1>1
  <2>2. SUFFICES ASSUME device = "bme280", ~inits, pc' # "resetting"
                 PROVE  last_pressure' = shown'
    BY <2>1, Zenon DEF JumpInv
  <2>3. last_pressure = shown
    BY <1>1, <2>2, Zenon DEF JumpInv
  <2> QED BY <2>1, <2>3
<1>2. CASE device' # "bme280" \/ pc' = "resetting" \/ inits' = TRUE \/ last_pressure' = shown'
  BY <1>2, Zenon DEF JumpInv
<1>3. ASSUME NEW p \in Ports, GetInputPort(p) \/ Consume(p)
      PROVE  JumpInv'
  <2>1. UNCHANGED <<device, last_pressure, shown, inits, pc>>
    BY <1>3 DEF GetInputPort, Consume, configVars, threadVars, historyVars
  <2> QED BY <1>1, <2>1
<1>4. CASE ReadValue
  BY <1>2, <1>4 DEF ReadValue, configVars
<1>5. CASE ReadValueFails
  BY <1>2, <1>5 DEF ReadValueFails, configVars
<1>6. CASE Sleep \/ MeasureFails
  <2>1. UNCHANGED <<device, last_pressure, shown, inits>> /\ pc # "resetting"
    BY <1>6 DEF Sleep, MeasureFails, ReportError, configVars, historyVars
  <2> QED BY <1>1, <2>1
<1>7. CASE Measure
  BY <1>2, <1>7 DEF Measure, Report
<1>8. CASE MeasureJump
  BY <1>2, <1>8 DEF MeasureJump
<1>9. CASE ResetSucceeds
  <2>1. inits' = TRUE
    BY <1>9, Zenon DEF ResetSucceeds
  <2> QED BY <1>2, <2>1
<1>10. CASE ResetFails
  <2>1. UNCHANGED <<device, last_pressure, shown, inits>> /\ (pc' = "resetting" \/ pc # "resetting")
    BY <1>10 DEF ResetFails, configVars, historyVars
  <2> QED BY <1>1, <2>1
<1>11. CASE ReadPin \/ LineStaysLow
  <2>1. device' # "bme280"
    BY <1>11 DEF ReadPin, LineStaysLow, configVars
  <2> QED BY <1>2, <2>1
<1>12. CASE WorldChanges \/ ChipGetsStuck \/ UNCHANGED vars
  <2>1. UNCHANGED <<device, last_pressure, shown, inits, pc>>
    BY <1>12 DEF WorldChanges, ChipGetsStuck, vars, configVars, threadVars, historyVars
  <2> QED BY <1>1, <2>1
<1> QED
  BY <1>3, <1>4, <1>5, <1>6, <1>7, <1>8, <1>9, <1>10, <1>11, <1>12 DEF Next

\* Between two readings of a BME280 that are reported one after the other and are far
\* apart the chip was initialised.
THEOREM JumpsConfirmed == Spec => JumpsAreConfirmed
<1>1. TypeInv /\ JumpInv /\ [Next]_vars =>
        [device = "bme280" /\ shown' # shown /\ Far(shown', shown) => inits]_vars
  <2> SUFFICES ASSUME TypeInv, JumpInv, Next, device = "bme280", shown' # shown,
                      Far(shown', shown), ~inits
               PROVE  FALSE
    BY Zenon
  <2>1. Measure
    <3>1. ~ ReadValue /\ ~ ReadValueFails /\ ~ ReadPin /\ ~ LineStaysLow
      BY DEF ReadValue, ReadValueFails, ReadPin, LineStaysLow
    <3>2. ~ Sleep /\ ~ MeasureJump /\ ~ MeasureFails /\ ~ ResetSucceeds /\ ~ ResetFails
      BY DEF Sleep, MeasureJump, MeasureFails, ResetSucceeds, ResetFails, ReportError, historyVars
    <3>3. ~ WorldChanges /\ ~ ChipGetsStuck /\ \A p \in Ports : ~ GetInputPort(p) /\ ~ Consume(p)
      BY DEF WorldChanges, ChipGetsStuck, GetInputPort, Consume, historyVars
    <3> QED BY <3>1, <3>2, <3>3, Zenon DEF Next
  <2>2. pc = "reading" /\ shown' = Measured /\ ~Far(Measured, last_pressure)
    BY <2>1 DEF Measure, Report
  <2>3. last_pressure = shown
    BY <2>2, Zenon DEF JumpInv
  <2> QED BY <2>2, <2>3, Zenon
<1> QED BY <1>1, InitType, TypeInvStep, JumpInit, JumpInvStep, PTL DEF Spec, JumpsAreConfirmed

-----------------------------------------------------------------------------
(***************************************************************************)
(* Periodic resets.  There are no more readings without one than the       *)
(* thread has counted, which starts again later than they do.  It counts   *)
(* on after a reset that failed, but then every reading is followed by the *)
(* next try; only the tries before a success add to the interval.          *)
(***************************************************************************)
CountInv ==
  device = "bme280" /\ every # Never =>
    /\ unreset <= readout_count
    /\ readout_count <= every + faults
    /\ pc # "periodic" => readout_count < every + faults

LEMMA CountInit == TypeInv /\ Init => CountInv
BY SensorAssumption DEF Init, CountInv, TypeInv, TypeOK

LEMMA CountInvStep ==
  ASSUME TypeInv, CountInv, [Next]_vars
  PROVE  CountInv'
<1> SUFFICES ASSUME device' = "bme280", every' # Never
             PROVE  /\ unreset' <= readout_count'
                    /\ readout_count' <= every' + faults'
                    /\ pc' # "periodic" => readout_count' < every' + faults'
  BY DEF CountInv
<1>1. device' = device /\ every' = every
  BY DEF Next, vars, GetInputPort, Consume, ReadValue, ReadValueFails, Sleep, Measure, MeasureJump,
         MeasureFails, ResetSucceeds, ResetFails, ReadPin, LineStaysLow, WorldChanges,
         ChipGetsStuck, configVars
<1>2. /\ unreset \in Nat /\ readout_count \in Nat /\ every \in Nat \ {0} /\ faults \in Nat
      /\ unreset <= readout_count /\ readout_count <= every + faults
      /\ pc # "periodic" => readout_count < every + faults
  BY <1>1, SensorAssumption DEF CountInv, TypeInv, TypeOK, HistoryType
<1>3. CASE UNCHANGED <<unreset, readout_count>> /\ pc # "periodic" /\ (Fault \/ UNCHANGED faults)
  BY <1>1, <1>2, <1>3 DEF Fault
<1>4. CASE UNCHANGED <<unreset, readout_count, pc>> /\ (Fault \/ UNCHANGED faults)
  BY <1>1, <1>2, <1>4 DEF Fault
<1>5. ASSUME NEW p \in Ports, GetInputPort(p) \/ Consume(p)
      PROVE  UNCHANGED <<unreset, readout_count, pc, faults>>
  BY <1>5 DEF GetInputPort, Consume, threadVars, worldVars, historyVars
<1>6. CASE Sleep \/ MeasureJump \/ MeasureFails
  <2>1. UNCHANGED <<unreset, readout_count>> /\ pc # "periodic"
    BY <1>6 DEF Sleep, MeasureJump, MeasureFails, ReportError, historyVars
  <2>2. Fault \/ UNCHANGED faults
    BY <1>6 DEF Sleep, MeasureJump, MeasureFails, worldVars
  <2> QED BY <1>3, <2>1, <2>2
<1>7. CASE Measure
  <2>1. /\ readout_count' = readout_count + 1 /\ unreset' = unreset + 1 /\ faults' = faults
        /\ pc = "reading" /\ pc' = IF readout_count' >= every THEN "periodic" ELSE "asleep"
    BY <1>1, <1>7 DEF Measure, Report, worldVars
  <2> QED BY <1>1, <1>2, <2>1
<1>8. CASE ResetSucceeds
  <2>1. /\ unreset' = 0 /\ faults' = faults /\ pc' # "periodic"
        /\ \/ pc # "periodic" /\ readout_count' = readout_count
           \/ readout_count' = 0
    BY <1>8 DEF ResetSucceeds
  <2> QED BY <1>1, <1>2, <2>1
<1>9. CASE ResetFails
  <2>1. /\ UNCHANGED <<unreset, readout_count>> /\ faults' = faults + 1
    BY <1>9 DEF ResetFails, Fault, historyVars
  <2> QED BY <1>1, <1>2, <2>1
<1>10. ~ (ReadValue \/ ReadValueFails \/ ReadPin \/ LineStaysLow)
  BY <1>1 DEF ReadValue, ReadValueFails, ReadPin, LineStaysLow
<1>11. CASE WorldChanges \/ ChipGetsStuck
  <2>1. UNCHANGED <<unreset, readout_count, pc>> /\ Fault
    BY <1>11 DEF WorldChanges, ChipGetsStuck, threadVars, historyVars
  <2> QED BY <1>4, <2>1
<1>12. CASE UNCHANGED vars
  <2>1. UNCHANGED <<unreset, readout_count, pc, faults>>
    BY <1>12 DEF vars, threadVars, worldVars, historyVars
  <2> QED BY <1>4, <2>1
<1> QED
  BY <1>4, <1>5, <1>6, <1>7, <1>8, <1>9, <1>10, <1>11, <1>12 DEF Next

\* No more readings of a BME280 are reported without a reset than configured, not
\* counting those after a reset that failed.
THEOREM ResetsInTime == Spec => []ResetInTime
<1>1. TypeInv /\ CountInv => ResetInTime
  BY SensorAssumption DEF TypeInv, TypeOK, HistoryType, CountInv, ResetInTime
<1> QED BY <1>1, InitType, TypeInvStep, CountInit, CountInvStep, PTL DEF Spec

(***************************************************************************)
(* The frames of a DHT22, for every measurement.                           *)
(***************************************************************************)
Byte == 0 .. 255

\* Sixteen bits are two bytes; of fifteen bits, the upper byte is less than 128.
LEMMA DivMod ==
  ASSUME NEW x \in Nat
  PROVE  /\ x \div 256 \in Nat /\ x % 256 \in Byte /\ x % 256 = x - 256 * (x \div 256)
         /\ x < 32768 => x \div 256 <= 127
<1>1. x \div 256 \in Nat
  OBVIOUS
<1>2. x % 256 \in Byte
  BY DEF Byte
<1>3. x % 256 = x - 256 * (x \div 256)
  OBVIOUS
<1>4. x < 32768 => x \div 256 <= 127
  OBVIOUS
<1> QED BY <1>1, <1>2, <1>3, <1>4

\* The data of a measurement are four bytes, and decode_reading makes the measurement of them again.
LEMMA BytesType ==
  ASSUME NEW m \in Measurements
  PROVE  /\ Bytes(m) \in Seq(Byte) /\ Len(Bytes(m)) = 4
         /\ \A i \in 1 .. 4 : Bytes(m)[i] \in Byte
         /\ DecodeReading(Bytes(m)) = m
<1> DEFINE size == IF m.temperature < 0 THEN -m.temperature ELSE m.temperature
           d1 == m.humidity \div 256
           d2 == m.humidity % 256
           d3 == (size \div 256) + (IF m.temperature < 0 THEN 128 ELSE 0)
           d4 == size % 256
<1>1. /\ m \in [humidity : 0 .. 1000, temperature : Int]
      /\ m.humidity \in 0 .. 1000 /\ m.temperature \in Int
      /\ -32768 < m.temperature /\ m.temperature < 32768
  BY FramesAssumption
<1>2. size \in Nat /\ size < 32768
  BY <1>1
<1>3. d1 \in Byte /\ d2 \in Byte /\ d1 * 256 + d2 = m.humidity
  <2>1. m.humidity \in Nat /\ m.humidity < 32768
    BY <1>1
  <2>2. d1 \in Nat /\ d2 \in Byte /\ d2 = m.humidity - 256 * d1 /\ d1 <= 127
    BY <2>1, DivMod
  <2> HIDE DEF d1, d2
  <2> QED BY <2>1, <2>2 DEF Byte
<1>4. size \div 256 \in 0 .. 127 /\ d4 \in Byte /\ d4 = size - 256 * (size \div 256)
  <2> HIDE DEF size
  <2> QED BY <1>2, DivMod
<1>5. /\ d3 \in Byte /\ d4 \in Byte
      /\ ((d3 % 128) * 256 + d4) * (IF d3 >= 128 THEN -1 ELSE 1) = m.temperature
  <2> DEFINE q == size \div 256
  <2>1. q \in 0 .. 127 /\ d4 \in Byte /\ q * 256 + d4 = size
    <3> HIDE DEF d4, size
    <3>1. size \in Int /\ d4 \in Int /\ q \in Int /\ d4 = size - 256 * q
      BY <1>2, <1>4 DEF Byte
    <3> HIDE DEF q
    <3>2. q * 256 + d4 = size
      BY <3>1
    <3> QED BY <1>4, <3>2 DEF q
  <2>2. CASE m.temperature < 0
    <3>1. d3 = q + 128 /\ size = -m.temperature
      BY <2>2
    <3>2. d3 % 128 = q /\ d3 >= 128 /\ d3 \in Byte
      <4>1. \A x \in 0 .. 127 : (x + 128) % 128 = x /\ x + 128 >= 128 /\ x + 128 \in Byte
        BY DEF Byte
      <4> HIDE DEF q, d3
      <4> QED BY <2>1, <3>1, <4>1
    <3> HIDE DEF q, d3, d4, size
    <3> QED BY <2>1, <3>1, <3>2, <1>1
  <2>3. CASE ~ m.temperature < 0
    <3>1. d3 = q /\ size = m.temperature
      BY <2>1, <2>3
    <3>2. d3 % 128 = q /\ ~ d3 >= 128 /\ d3 \in Byte
      <4>1. \A x \in 0 .. 127 : x % 128 = x /\ ~ x >= 128 /\ x \in Byte
        BY DEF Byte
      <4> HIDE DEF q, d3
      <4> QED BY <2>1, <3>1, <4>1
    <3> HIDE DEF q, d3, d4, size
    <3> QED BY <2>1, <3>1, <3>2, <1>1
  <2> QED BY <2>2, <2>3
<1>6. Bytes(m) = <<d1, d2, d3, d4>>
  BY DEF Bytes
<1>7. DecodeReading(Bytes(m)) = m
  <2> HIDE DEF d1, d2, d3, d4
  <2>1. DecodeReading(Bytes(m)) = [humidity |-> m.humidity, temperature |-> m.temperature]
    BY <1>3, <1>5, <1>6 DEF DecodeReading
  <2>2. m = [humidity |-> m.humidity, temperature |-> m.temperature]
    BY <1>1
  <2> QED BY <2>1, <2>2
<1> HIDE DEF d1, d2, d3, d4
<1> QED BY <1>3, <1>5, <1>6, <1>7

\* A byte is the sum of its bits, each with its weight.
LEMMA OctetOfBits ==
  ASSUME NEW b \in Byte
  PROVE  128 * ((b \div 2^7) % 2) + 64 * ((b \div 2^6) % 2) + 32 * ((b \div 2^5) % 2) + 16 * ((b \div 2^4) % 2)
           + 8 * ((b \div 2^3) % 2) + 4 * ((b \div 2^2) % 2) + 2 * ((b \div 2^1) % 2) + ((b \div 2^0) % 2) = b
BY DEF Byte

\* The bits of a byte are bits.
LEMMA BitType == \A b \in Byte, k \in 0 .. 7 : (b \div 2^k) % 2 \in 0 .. 1
<1>1. ASSUME NEW b \in Byte, NEW k \in 0 .. 7 PROVE b \div 2^k \in Int
  <2> USE DEF Byte
  <2>0. CASE k = 0 BY <2>0
  <2>1. CASE k = 1 BY <2>1
  <2>2. CASE k = 2 BY <2>2
  <2>3. CASE k = 3 BY <2>3
  <2>4. CASE k = 4 BY <2>4
  <2>5. CASE k = 5 BY <2>5
  <2>6. CASE k = 6 BY <2>6
  <2>7. CASE k = 7 BY <2>7
  <2> QED BY <2>0, <2>1, <2>2, <2>3, <2>4, <2>5, <2>6, <2>7
<1>2. \A x \in Int : x % 2 \in 0 .. 1
  OBVIOUS
<1> QED BY <1>1, <1>2

\* The checksum of four bytes is a byte.
LEMMA ChecksumType ==
  ASSUME NEW d, \A i \in 1 .. 4 : d[i] \in Byte
  PROVE  ComputeChecksum(d) \in Byte
<1>1. d[1] \in Int /\ d[2] \in Int /\ d[3] \in Int /\ d[4] \in Int
  BY DEF Byte
<1>2. d[1] + d[2] + d[3] + d[4] \in Int
  BY <1>1
<1>3. \A x \in Int : x % 256 \in Byte
  BY DEF Byte
<1> QED BY <1>2, <1>3 DEF ComputeChecksum

\* The sensor sends five bytes: the data, and their checksum.
LEMMA DataType ==
  ASSUME NEW m \in Measurements
  PROVE  /\ \A j \in 1 .. 5 : Sent(m)[j] \in Byte
         /\ \A j \in 1 .. 4 : Sent(m)[j] = Bytes(m)[j]
         /\ Sent(m)[5] = ComputeChecksum(Bytes(m))
<1>1. /\ Bytes(m) \in Seq(Byte) /\ Len(Bytes(m)) = 4
      /\ \A i \in 1 .. 4 : Bytes(m)[i] \in Byte
  BY BytesType
<1>2. ComputeChecksum(Bytes(m)) \in Byte
  BY <1>1, ChecksumType
<1>3. ASSUME NEW d \in Seq(Byte), NEW c \in Byte
      PROVE  (\A j \in 1 .. Len(d) : Append(d, c)[j] = d[j]) /\ Append(d, c)[Len(d) + 1] = c
  <2>1. \A j \in 1 .. Len(d) : Append(d, c)[j] = d[j]
    OBVIOUS
  <2>2. Append(d, c)[Len(d) + 1] = c
    OBVIOUS
  <2> QED BY <2>1, <2>2
<1>4. /\ \A j \in 1 .. 4 : Sent(m)[j] = Bytes(m)[j]
      /\ Sent(m)[5] = ComputeChecksum(Bytes(m))
  <2> DEFINE d == Bytes(m)
             c == ComputeChecksum(Bytes(m))
  <2>1. d \in Seq(Byte) /\ c \in Byte /\ Len(d) = 4 /\ Len(d) + 1 = 5
    BY <1>1, <1>2
  <2>2. (\A j \in 1 .. Len(d) : Append(d, c)[j] = d[j]) /\ Append(d, c)[Len(d) + 1] = c
    <3> HIDE DEF d, c
    <3> QED BY <1>3, <2>1
  <2>3. (\A j \in 1 .. 4 : Append(d, c)[j] = d[j]) /\ Append(d, c)[5] = c
    <3> HIDE DEF d, c
    <3> QED BY <2>1, <2>2, Zenon
  <2> QED BY <2>3 DEF Sent
<1>5. Sent(m)[5] = ComputeChecksum(Bytes(m))
  BY <1>4
<1>6. ASSUME NEW j \in 1 .. 5 PROVE Sent(m)[j] \in Byte
  <2>1. CASE j = 5
    BY <1>2, <1>5, <2>1
  <2>2. CASE j # 5
    <3>1. j \in 1 .. 4
      BY <2>2
    <3> QED BY <1>1, <1>4, <3>1
  <2> QED BY <2>1, <2>2
<1> QED BY <1>4, <1>5, <1>6

\* It sends forty bits, and pulses_to_binary makes the bytes of them again.
LEMMA SentBits ==
  ASSUME NEW m \in Measurements
  PROVE  /\ Bits(m) \in [1 .. 40 -> 0 .. 1]
         /\ \A j \in 1 .. 5 : Octet(Bits(m), 8 * j - 7) = Sent(m)[j]
<1>1. Bits(m) = [i \in 1 .. 40 |-> (Sent(m)[(i + 7) \div 8] \div 2^((40 - i) % 8)) % 2]
  BY DEF Bits
<1>2. ASSUME NEW i \in 1 .. 40 PROVE Bits(m)[i] \in 0 .. 1
  <2>1. (i + 7) \div 8 \in 1 .. 5 /\ (40 - i) % 8 \in 0 .. 7
    OBVIOUS
  <2> DEFINE b == Sent(m)[(i + 7) \div 8]
             k == (40 - i) % 8
  <2>2. b \in Byte
    BY <2>1, DataType
  <2>3. Bits(m)[i] = (b \div 2^k) % 2
    BY <1>1
  <2> HIDE DEF b, k
  <2>4. k \in 0 .. 7
    BY <2>1 DEF k
  <2> QED BY <2>2, <2>3, <2>4, BitType
<1>3. ASSUME NEW j \in 1 .. 5 PROVE Octet(Bits(m), 8 * j - 7) = Sent(m)[j]
  <2> DEFINE b == Sent(m)[j]
  <2>1. b \in Byte
    BY DataType
  <2>2. /\ Bits(m)[8 * j - 7] = (b \div 2^7) % 2
        /\ Bits(m)[8 * j - 6] = (b \div 2^6) % 2
        /\ Bits(m)[8 * j - 5] = (b \div 2^5) % 2
        /\ Bits(m)[8 * j - 4] = (b \div 2^4) % 2
        /\ Bits(m)[8 * j - 3] = (b \div 2^3) % 2
        /\ Bits(m)[8 * j - 2] = (b \div 2^2) % 2
        /\ Bits(m)[8 * j - 1] = (b \div 2^1) % 2
        /\ Bits(m)[8 * j] = (b \div 2^0) % 2
    <3>1. CASE j = 1 BY <3>1, <1>1
    <3>2. CASE j = 2 BY <3>2, <1>1
    <3>3. CASE j = 3 BY <3>3, <1>1
    <3>4. CASE j = 4 BY <3>4, <1>1
    <3>5. CASE j = 5 BY <3>5, <1>1
    <3> QED BY <3>1, <3>2, <3>3, <3>4, <3>5
  <2>3. /\ 8 * j - 7 + 1 = 8 * j - 6 /\ 8 * j - 7 + 2 = 8 * j - 5 /\ 8 * j - 7 + 3 = 8 * j - 4
        /\ 8 * j - 7 + 4 = 8 * j - 3 /\ 8 * j - 7 + 5 = 8 * j - 2 /\ 8 * j - 7 + 6 = 8 * j - 1
        /\ 8 * j - 7 + 7 = 8 * j
    OBVIOUS
  <2> HIDE DEF b
  <2>4. Octet(Bits(m), 8 * j - 7) =
          128 * ((b \div 2^7) % 2) + 64 * ((b \div 2^6) % 2) + 32 * ((b \div 2^5) % 2) + 16 * ((b \div 2^4) % 2)
           + 8 * ((b \div 2^3) % 2) + 4 * ((b \div 2^2) % 2) + 2 * ((b \div 2^1) % 2) + ((b \div 2^0) % 2)
    BY <2>2, <2>3 DEF Octet
  <2> QED BY <2>1, <2>4, OctetOfBits DEF b
<1>4. Bits(m) \in [1 .. 40 -> 0 .. 1]
  <2> HIDE DEF Bits
  <2>1. Bits(m) = [i \in 1 .. 40 |-> Bits(m)[i]]
    BY <1>1
  <2> QED BY <1>2, <2>1
<1> QED BY <1>3, <1>4

\* Decoding the bits that were sent gives the measurement.
LEMMA DecodeSent ==
  ASSUME NEW m \in Measurements
  PROVE  DecodeBits(Bits(m)) = m
<1> DEFINE data == [j \in 1 .. 5 |-> Octet(Bits(m), 8 * j - 7)]
<1>1. /\ data[5] = ComputeChecksum(Bytes(m))
      /\ data[1] = Bytes(m)[1] /\ data[2] = Bytes(m)[2] /\ data[3] = Bytes(m)[3] /\ data[4] = Bytes(m)[4]
  BY SentBits, DataType
<1>2. DecodeBits(Bits(m)) = IF data[5] # ComputeChecksum(data) THEN Checksum ELSE DecodeReading(data)
  BY DEF DecodeBits
<1> HIDE DEF data
<1>3. ComputeChecksum(data) = ComputeChecksum(Bytes(m)) /\ DecodeReading(data) = DecodeReading(Bytes(m))
  BY <1>1 DEF ComputeChecksum, DecodeReading
<1> QED BY <1>1, <1>2, <1>3, BytesType

\* A function of 1 to n is a sequence of length n.
LEMMA FunctionIsSequence ==
  ASSUME NEW n \in Nat, NEW f \in [1 .. n -> Nat]
  PROVE  f \in Seq(Nat) /\ Len(f) = n
OBVIOUS

\* The pulses of the line: the start marker, then a low pulse before and a high pulse for each bit.
LEMMA FrameIs ==
  ASSUME NEW m \in Measurements, NEW n \in {82, 83}
  PROVE  /\ Pulses(m, n) \in Seq(Nat) /\ Len(Pulses(m, n)) = n
         /\ Pulses(m, n)[1] = 80 /\ Pulses(m, n)[2] = 80
         /\ \A c \in 1 .. n : c > 2 /\ c % 2 = 1 => Pulses(m, n)[c] = 50
         /\ \A b \in 1 .. 40 : Pulses(m, n)[2 * b + 2] = IF Bits(m)[b] = 1 THEN 70 ELSE 27
<1> DEFINE p == Pulses(m, n)
<1>1. p = [i \in 1 .. n |-> IF i <= 2 THEN 80
                    ELSE IF i % 2 = 1 THEN 50
                    ELSE IF Bits(m)[i \div 2 - 1] = 1 THEN 70 ELSE 27]
  BY DEF Pulses, Low, One, Zero
<1>2. \A i \in 1 .. n : p[i] \in Nat
  BY <1>1
<1>3. p[1] = 80 /\ p[2] = 80
  BY <1>1
<1>4. \A c \in 1 .. n : c > 2 /\ c % 2 = 1 => p[c] = 50
  BY <1>1
<1>5. ASSUME NEW b \in 1 .. 40 PROVE p[2 * b + 2] = IF Bits(m)[b] = 1 THEN 70 ELSE 27
  <2>1. 2 * b + 2 \in 1 .. n /\ ~ (2 * b + 2 <= 2) /\ (2 * b + 2) % 2 = 0 /\ (2 * b + 2) \div 2 - 1 = b
    OBVIOUS
  <2> DEFINE i == 2 * b + 2
  <2> HIDE DEF i
  <2>2. i \in 1 .. n /\ ~ i <= 2 /\ i % 2 # 1 /\ i \div 2 - 1 = b
    BY <2>1 DEF i
  <2>3. p[i] = IF Bits(m)[b] = 1 THEN 70 ELSE 27
    BY <1>1, <2>2
  <2> QED BY <2>3 DEF i
<1>6. p \in Seq(Nat) /\ Len(p) = n
  <2> HIDE DEF p
  <2>1. p \in [1 .. n -> Nat]
    BY <1>1, <1>2
  <2> QED BY <2>1
<1> QED BY <1>3, <1>4, <1>5, <1>6

\* A driver that misses a pulse joins three to one and has two less.
LEMMA MissingIs ==
  ASSUME NEW p \in Seq(Nat), Len(p) = 83, NEW k \in 2 .. 82
  PROVE  /\ Missing(p, k) \in Seq(Nat) /\ Len(Missing(p, k)) = 81
         /\ \A i \in 1 .. 81 : Missing(p, k)[i] = IF i < k - 1 THEN p[i]
                                                 ELSE IF i = k - 1 THEN p[i] + p[i + 1] + p[i + 2]
                                                 ELSE p[i + 2]
<1> DEFINE q == Missing(p, k)
<1>1. q = [i \in 1 .. 81 |-> IF i < k - 1 THEN p[i]
                             ELSE IF i = k - 1 THEN p[i] + p[i + 1] + p[i + 2]
                             ELSE p[i + 2]]
  BY DEF Missing
<1>2. \A i \in 1 .. 83 : p[i] \in Nat
  <2>1. \A i \in 1 .. Len(p) : p[i] \in Nat
    BY ElementOfSeq
  <2> QED BY <2>1, Zenon
<1>3. ASSUME NEW i \in 1 .. 81 PROVE q[i] \in Nat
  <2>1. i \in 1 .. 83 /\ i + 1 \in 1 .. 83 /\ i + 2 \in 1 .. 83
    OBVIOUS
  <2> DEFINE x == p[i]
             y == p[i + 1]
             z == p[i + 2]
  <2>2. x \in Nat /\ y \in Nat /\ z \in Nat
    BY <1>2, <2>1, Zenon
  <2>3. q[i] = IF i < k - 1 THEN x ELSE IF i = k - 1 THEN x + y + z ELSE z
    BY <1>1
  <2> HIDE DEF x, y, z, q
  <2> QED BY <2>2, <2>3
<1>4. q \in Seq(Nat) /\ Len(q) = 81
  <2> DEFINE n == 81
  <2>1. n \in Nat /\ q = [i \in 1 .. n |-> q[i]] /\ \A i \in 1 .. n : q[i] \in Nat
    BY <1>1, <1>3
  <2> HIDE DEF n, q
  <2>2. q \in [1 .. n -> Nat]
    BY <2>1
  <2>3. q \in Seq(Nat) /\ Len(q) = n
    BY <2>1, <2>2, FunctionIsSequence
  <2> QED BY <2>3 DEF n
<1> QED BY <1>1, <1>4

\* s is p with a low pulse, y and a low pulse in place of the i-th.
IsRestored(s, p, i, y) ==
  /\ s \in Seq(Nat) /\ Len(s) = Len(p) + 2
  /\ \A j \in 1 .. Len(p) + 2 : s[j] = IF j < i THEN p[j]
                                       ELSE IF j = i THEN Low
                                       ELSE IF j = i + 1 THEN y
                                       ELSE IF j = i + 2 THEN Low
                                       ELSE p[j - 2]

\* That is what the repair inserts.
LEMMA RestoredIs ==
  ASSUME NEW p \in Seq(Nat), NEW i \in 1 .. Len(p), NEW y \in Nat
  PROVE  IsRestored(Restored(p, i, y), p, i, y)
<1> DEFINE n == Len(p)
<1>0. n \in Nat /\ i \in 1 .. n
  OBVIOUS
<1> DEFINE a == SubSeq(p, 1, i - 1)
           b == <<Low, y, Low>>
           c == SubSeq(p, i + 1, n)
           d == a \o b
           s == d \o c
<1>1. \A j \in 1 .. n : p[j] \in Nat
  BY ElementOfSeq
<1> HIDE DEF n
<1>2. /\ a \in Seq(Nat) /\ Len(a) = i - 1
      /\ \A j \in 1 .. i - 1 : a[j] = p[j]
  <2>1. \A j \in 1 .. i - 1 : p[j] \in Nat
    BY <1>0, <1>1
  <2>2. /\ a \in Seq(Nat) /\ Len(a) = IF 1 <= i - 1 THEN i - 1 - 1 + 1 ELSE 0
        /\ \A j \in 1 .. i - 1 - 1 + 1 : a[j] = p[1 + j - 1]
    <3> DEFINE m == i - 1
    <3>1. 1 \in Int /\ m \in Int
      BY <1>0
    <3> HIDE DEF m
    <3>2. \A j \in 1 .. m : p[j] \in Nat
      BY <2>1 DEF m
    <3>3. /\ SubSeq(p, 1, m) \in Seq(Nat)
          /\ Len(SubSeq(p, 1, m)) = IF 1 <= m THEN m - 1 + 1 ELSE 0
          /\ \A j \in 1 .. m - 1 + 1 : SubSeq(p, 1, m)[j] = p[1 + j - 1]
      BY <3>1, <3>2, SubSeqProperties
    <3> QED BY <3>3, Zenon DEF m
  <2> HIDE DEF a
  <2>3. Len(a) = i - 1
    BY <1>0, <2>2
  <2>4. ASSUME NEW j \in 1 .. i - 1 PROVE a[j] = p[j]
    <3>1. j \in 1 .. i - 1 - 1 + 1 /\ 1 + j - 1 = j
      BY <1>0
    <3> QED BY <2>2, <3>1
  <2> QED BY <2>2, <2>3, <2>4
<1>3. /\ c \in Seq(Nat) /\ Len(c) = n - i
      /\ \A j \in 1 .. n - i : c[j] = p[i + j]
  <2>1. \A j \in i + 1 .. n : p[j] \in Nat
    BY <1>0, <1>1
  <2>2. /\ c \in Seq(Nat) /\ Len(c) = IF i + 1 <= n THEN n - (i + 1) + 1 ELSE 0
        /\ \A j \in 1 .. n - (i + 1) + 1 : c[j] = p[i + 1 + j - 1]
    <3> DEFINE m == i + 1
    <3>1. m \in Int /\ n \in Int
      BY <1>0
    <3> HIDE DEF m
    <3>2. \A j \in m .. n : p[j] \in Nat
      BY <2>1 DEF m
    <3>3. /\ SubSeq(p, m, n) \in Seq(Nat)
          /\ Len(SubSeq(p, m, n)) = IF m <= n THEN n - m + 1 ELSE 0
          /\ \A j \in 1 .. n - m + 1 : SubSeq(p, m, n)[j] = p[m + j - 1]
      BY <3>1, <3>2, SubSeqProperties
    <3> QED BY <3>3, Zenon DEF m
  <2> HIDE DEF c
  <2>3. Len(c) = n - i
    BY <1>0, <2>2
  <2>4. ASSUME NEW j \in 1 .. n - i PROVE c[j] = p[i + j]
    <3>1. j \in 1 .. n - (i + 1) + 1 /\ i + 1 + j - 1 = i + j
      BY <1>0
    <3> QED BY <2>2, <3>1
  <2> QED BY <2>2, <2>3, <2>4
<1>4. b \in Seq(Nat) /\ Len(b) = 3 /\ b[1] = Low /\ b[2] = y /\ b[3] = Low
  BY DEF Low
<1> HIDE DEF a, b, c
<1>5. /\ d \in Seq(Nat) /\ Len(d) = i + 2
      /\ \A j \in 1 .. i + 2 : d[j] = IF j <= i - 1 THEN a[j] ELSE b[j - (i - 1)]
  <2>1. /\ d \in Seq(Nat) /\ Len(d) = Len(a) + Len(b)
        /\ \A j \in 1 .. Len(a) + Len(b) : d[j] = IF j <= Len(a) THEN a[j] ELSE b[j - Len(a)]
    BY <1>2, <1>4, ConcatProperties
  <2>2. Len(a) = i - 1 /\ Len(b) = 3 /\ Len(a) + Len(b) = i + 2
    BY <1>0, <1>2, <1>4
  <2> HIDE DEF d
  <2> QED BY <2>1, <2>2
<1> HIDE DEF d
<1>6. /\ s \in Seq(Nat) /\ Len(s) = n + 2
      /\ \A j \in 1 .. n + 2 : s[j] = IF j <= i + 2 THEN d[j] ELSE c[j - (i + 2)]
  <2>1. /\ s \in Seq(Nat) /\ Len(s) = Len(d) + Len(c)
        /\ \A j \in 1 .. Len(d) + Len(c) : s[j] = IF j <= Len(d) THEN d[j] ELSE c[j - Len(d)]
    BY <1>3, <1>5, ConcatProperties
  <2>2. Len(d) = i + 2 /\ Len(d) + Len(c) = n + 2
    BY <1>0, <1>3, <1>5
  <2> HIDE DEF s
  <2> QED BY <2>1, <2>2
<1> HIDE DEF s
<1>7. ASSUME NEW j \in 1 .. n + 2
      PROVE  s[j] = IF j < i THEN p[j]
                    ELSE IF j = i THEN Low
                    ELSE IF j = i + 1 THEN y
                    ELSE IF j = i + 2 THEN Low
                    ELSE p[j - 2]
  <2>1. CASE j < i
    <3>1. j \in 1 .. i + 2 /\ j \in 1 .. i - 1 /\ j <= i + 2 /\ j <= i - 1
      BY <1>0, <2>1
    <3>2. s[j] = d[j] /\ d[j] = a[j] /\ a[j] = p[j]
      BY <1>2, <1>5, <1>6, <3>1, Zenon
    <3> QED BY <2>1, <3>2
  <2>2. CASE j \in {i, i + 1, i + 2}
    <3>1. j \in 1 .. i + 2 /\ j <= i + 2 /\ ~ j <= i - 1
      BY <1>0, <2>2
    <3>2. s[j] = d[j] /\ d[j] = b[j - (i - 1)]
      BY <1>5, <1>6, <3>1, Zenon
    <3>3. /\ j = i => j - (i - 1) = 1
          /\ j = i + 1 => j - (i - 1) = 2
          /\ j = i + 2 => j - (i - 1) = 3
      BY <1>0
    <3> QED BY <1>4, <2>2, <3>2, <3>3
  <2>3. CASE j > i + 2
    <3>1. j - (i + 2) \in 1 .. n - i /\ i + (j - (i + 2)) = j - 2 /\ ~ j <= i + 2
      BY <1>0, <2>3
    <3>2. s[j] = c[j - (i + 2)] /\ c[j - (i + 2)] = p[i + (j - (i + 2))]
      BY <1>3, <1>6, <3>1, Zenon
    <3> QED BY <1>0, <2>3, <3>1, <3>2
  <2> QED BY <1>0, <2>1, <2>2, <2>3
<1> QED BY <1>6, <1>7 DEF Restored, IsRestored, a, b, c, d, s, n

\* r is p after the repair at the i-th pulse, without the start marker.
IsFixed(r, p, i) ==
  \A j \in 1 .. 81 : r[j] = IF j + 2 < i THEN p[j + 2]
                            ELSE IF j + 2 = i THEN Low
                            ELSE IF j + 2 = i + 1 THEN IF p[i] < 160 THEN Zero ELSE One
                            ELSE IF j + 2 = i + 2 THEN Low
                            ELSE p[j]

\* fix_pulses repairs the one pulse after the start marker that is too long.
LEMMA FixIs ==
  ASSUME NEW p \in Seq(Nat), Len(p) = 81, NEW i \in 3 .. 81, p[i] > 120,
         \A l \in 3 .. 81 : p[l] > 120 => l = i
  PROVE  IsFixed(FixPulses(p), p, i)
<1> DEFINE bit == IF p[i] < 160 THEN Zero ELSE One
           long == {l \in 3 .. 81 : p[l] > 120}
           s == Restored(p, i, bit)
<1>1. long = {i} /\ (CHOOSE k \in long : \A l \in long : k <= l) = i
  <2>1. long = {i}
    OBVIOUS
  <2>2. ASSUME NEW k \in {i} PROVE k = i
    BY <2>2
  <2>3. i <= i
    OBVIOUS
  <2> HIDE DEF long
  <2> QED BY <2>1, <2>2, <2>3
<1>2. FixPulses(p) = SubSeq(s, 3, 83)
  <2> DEFINE k == CHOOSE k \in long : \A l \in long : k <= l
  <2>1. FixPulses(p) = IF long = {} THEN p
          ELSE SubSeq(Restored(p, k, IF p[k] < 160 THEN Zero ELSE One), 3, 83)
    BY DEF FixPulses
  <2> HIDE DEF long, k
  <2>2. long # {} /\ k = i
    BY <1>1 DEF k
  <2> QED BY <2>1, <2>2
<1> DEFINE n == 81
           hi == n + 2
<1>3. i \in 1 .. n /\ n \in Nat /\ bit \in Nat /\ Len(p) = n /\ hi \in Int
  <2>1. Zero \in Nat /\ One \in Nat
    BY DEF Zero, One
  <2>2. bit \in Nat
    BY <2>1, Zenon
  <2>3. n \in Nat /\ hi \in Int
    OBVIOUS
  <2>4. i \in 1 .. n
    OBVIOUS
  <2>5. Len(p) = n
    BY Zenon
  <2> QED BY <2>2, <2>3, <2>4, <2>5, Zenon
<1>4. FixPulses(p) = SubSeq(s, 3, hi)
  <2>1. hi = 83
    OBVIOUS
  <2> HIDE DEF s, hi
  <2> QED BY <1>2, <2>1, Zenon
<1> HIDE DEF n, bit
<1>5. /\ s \in Seq(Nat) /\ Len(s) = hi
      /\ \A j \in 1 .. hi : s[j] = IF j < i THEN p[j]
                                   ELSE IF j = i THEN Low
                                   ELSE IF j = i + 1 THEN bit
                                   ELSE IF j = i + 2 THEN Low
                                   ELSE p[j - 2]
  <2>1. i \in 1 .. Len(p) /\ bit \in Nat /\ Len(p) + 2 = hi
    BY <1>3
  <2>2. IsRestored(s, p, i, bit)
    BY <2>1, RestoredIs
  <2> HIDE DEF s, hi
  <2> QED BY <2>1, <2>2 DEF IsRestored
<1> HIDE DEF s, hi
<1>6. \A j \in 1 .. hi : s[j] \in Nat
  <2>1. \A j \in 1 .. Len(s) : s[j] \in Nat
    BY <1>5, ElementOfSeq
  <2> QED BY <1>5, <2>1
<1>7. ASSUME NEW j \in 1 .. n PROVE FixPulses(p)[j] = s[j + 2]
  <2>1. \A k \in 3 .. hi : s[k] \in Nat
    BY <1>3, <1>6
  <2>2. \A k \in 1 .. hi - 3 + 1 : SubSeq(s, 3, hi)[k] = s[3 + k - 1]
    BY <1>3, <2>1, SubSeqProperties
  <2>3. j \in 1 .. hi - 3 + 1 /\ 3 + j - 1 = j + 2
    BY <1>3 DEF hi
  <2> QED BY <1>4, <2>2, <2>3
<1>8. ASSUME NEW j \in 1 .. n
      PROVE  FixPulses(p)[j] = IF j + 2 < i THEN p[j + 2]
                        ELSE IF j + 2 = i THEN Low
                        ELSE IF j + 2 = i + 1 THEN bit
                        ELSE IF j + 2 = i + 2 THEN Low
                        ELSE p[j]
  <2> DEFINE k == j + 2
  <2>1. k \in 1 .. hi /\ k - 2 = j
    BY <1>3 DEF hi
  <2> HIDE DEF k
  <2>2. s[k] = IF k < i THEN p[k]
               ELSE IF k = i THEN Low
               ELSE IF k = i + 1 THEN bit
               ELSE IF k = i + 2 THEN Low
               ELSE p[j]
    BY <1>5, <2>1
  <2>3. FixPulses(p)[j] = s[k]
    BY <1>7 DEF k
  <2>4. FixPulses(p)[j] = IF k < i THEN p[k]
               ELSE IF k = i THEN Low
               ELSE IF k = i + 1 THEN bit
               ELSE IF k = i + 2 THEN Low
               ELSE p[j]
    BY <2>2, <2>3
  <2> QED BY <2>4 DEF k
<1> QED BY <1>8 DEF IsFixed, bit, n

\* Eight bits make a byte, of at least 128 if the first is set.
LEMMA OctetType ==
  ASSUME NEW bits \in [1 .. 40 -> 0 .. 1], NEW j \in 1 .. 5
  PROVE  Octet(bits, 8 * j - 7) \in Byte /\ (bits[8 * j - 7] = 1 => Octet(bits, 8 * j - 7) >= 128)
<1> DEFINE i == 8 * j - 7
<1>1. /\ i \in 1 .. 40 /\ i + 1 \in 1 .. 40 /\ i + 2 \in 1 .. 40 /\ i + 3 \in 1 .. 40
      /\ i + 4 \in 1 .. 40 /\ i + 5 \in 1 .. 40 /\ i + 6 \in 1 .. 40 /\ i + 7 \in 1 .. 40
  OBVIOUS
<1> HIDE DEF i
<1>2. /\ bits[i] \in 0 .. 1 /\ bits[i + 1] \in 0 .. 1 /\ bits[i + 2] \in 0 .. 1 /\ bits[i + 3] \in 0 .. 1
      /\ bits[i + 4] \in 0 .. 1 /\ bits[i + 5] \in 0 .. 1 /\ bits[i + 6] \in 0 .. 1 /\ bits[i + 7] \in 0 .. 1
  BY <1>1
<1> DEFINE b0 == bits[i]
           b1 == bits[i + 1]
           b2 == bits[i + 2]
           b3 == bits[i + 3]
           b4 == bits[i + 4]
           b5 == bits[i + 5]
           b6 == bits[i + 6]
           b7 == bits[i + 7]
           c == 128 * b0 + 64 * b1 + 32 * b2 + 16 * b3 + 8 * b4 + 4 * b5 + 2 * b6 + b7
<1>3. Octet(bits, i) \in Byte /\ (bits[i] = 1 => Octet(bits, i) >= 128)
  <2>1. Octet(bits, i) = c
    BY DEF Octet
  <2>2. c \in 0 .. 255 /\ (b0 = 1 => c >= 128)
    <3>1. b0 \in 0 .. 1 /\ b1 \in 0 .. 1 /\ b2 \in 0 .. 1 /\ b3 \in 0 .. 1 /\ b4 \in 0 .. 1 /\ b5 \in 0 .. 1 /\ b6 \in 0 .. 1 /\ b7 \in 0 .. 1
      BY <1>2
    <3> HIDE DEF b0, b1, b2, b3, b4, b5, b6, b7
    <3> QED BY <3>1
  <2> QED BY <2>1, <2>2 DEF Byte
<1>4. Octet(bits, 8 * j - 7) = Octet(bits, i) /\ bits[8 * j - 7] = bits[i]
  BY DEF i
<1> QED BY <1>3, <1>4

\* The five bytes of forty bits.
Data(bits) == [j \in 1 .. 5 |-> Octet(bits, 8 * j - 7)]

\* The bits after two adjacent ones were read as zeros.
Lost(bits, a) == [i \in 1 .. 40 |-> IF i \in {a, a + 1} THEN 0 ELSE bits[i]]

\* These are bits, too.
LEMMA LostType ==
  ASSUME NEW bits \in [1 .. 40 -> 0 .. 1], NEW a \in 1 .. 39
  PROVE  Lost(bits, a) \in [1 .. 40 -> 0 .. 1]
BY DEF Lost

\* What two lost bits, of which one was set, take from each byte: between 1 and 192 if both
\* are its own; its last bit or its first one, if the pair straddles two bytes; else nothing.
LEMMA OctetLost ==
  ASSUME NEW bits \in [1 .. 40 -> 0 .. 1], NEW a \in 1 .. 39, bits[a] = 1 \/ bits[a + 1] = 1, NEW j \in 1 .. 5
  PROVE  LET i == 8 * j - 7
             drop == Octet(bits, i) - Octet(Lost(bits, a), i)
         IN  /\ a - i \in 0 .. 6 => drop \in 1 .. 192
             /\ a - i = 7 => drop = bits[a]
             /\ a - i = -1 => drop = 128 * bits[a + 1]
             /\ a - i < -1 \/ a - i > 7 => drop = 0
<1> DEFINE i == 8 * j - 7
           lost == Lost(bits, a)
           o == a - i
           b0 == bits[i + 0]
           l0 == lost[i + 0]
           b1 == bits[i + 1]
           l1 == lost[i + 1]
           b2 == bits[i + 2]
           l2 == lost[i + 2]
           b3 == bits[i + 3]
           l3 == lost[i + 3]
           b4 == bits[i + 4]
           l4 == lost[i + 4]
           b5 == bits[i + 5]
           l5 == lost[i + 5]
           b6 == bits[i + 6]
           l6 == lost[i + 6]
           b7 == bits[i + 7]
           l7 == lost[i + 7]
<1>1. /\ i + 0 \in 1 .. 40
      /\ i + 1 \in 1 .. 40
      /\ i + 2 \in 1 .. 40
      /\ i + 3 \in 1 .. 40
      /\ i + 4 \in 1 .. 40
      /\ i + 5 \in 1 .. 40
      /\ i + 6 \in 1 .. 40
      /\ i + 7 \in 1 .. 40
  OBVIOUS
<1>2. i \in Int /\ o \in Int /\ a = i + o
  OBVIOUS
<1>3. \A k \in 1 .. 40 : bits[k] \in 0 .. 1 /\ lost[k] = IF k = a \/ k = a + 1 THEN 0 ELSE bits[k]
  BY DEF Lost
<1> HIDE DEF i, lost, o
<1>4. /\ b0 \in 0 .. 1 /\ l0 = IF o = -1 \/ o = 0 THEN 0 ELSE b0
      /\ b1 \in 0 .. 1 /\ l1 = IF o = 0 \/ o = 1 THEN 0 ELSE b1
      /\ b2 \in 0 .. 1 /\ l2 = IF o = 1 \/ o = 2 THEN 0 ELSE b2
      /\ b3 \in 0 .. 1 /\ l3 = IF o = 2 \/ o = 3 THEN 0 ELSE b3
      /\ b4 \in 0 .. 1 /\ l4 = IF o = 3 \/ o = 4 THEN 0 ELSE b4
      /\ b5 \in 0 .. 1 /\ l5 = IF o = 4 \/ o = 5 THEN 0 ELSE b5
      /\ b6 \in 0 .. 1 /\ l6 = IF o = 5 \/ o = 6 THEN 0 ELSE b6
      /\ b7 \in 0 .. 1 /\ l7 = IF o = 6 \/ o = 7 THEN 0 ELSE b7
  BY <1>1, <1>2, <1>3
<1>5. /\ o = 0 => b0 = 1 \/ b1 = 1
      /\ o = 1 => b1 = 1 \/ b2 = 1
      /\ o = 2 => b2 = 1 \/ b3 = 1
      /\ o = 3 => b3 = 1 \/ b4 = 1
      /\ o = 4 => b4 = 1 \/ b5 = 1
      /\ o = 5 => b5 = 1 \/ b6 = 1
      /\ o = 6 => b6 = 1 \/ b7 = 1
      /\ o = 7 => bits[a] = b7
      /\ o = -1 => bits[a + 1] = b0
  BY <1>2
<1>6. Octet(bits, i) = 128 * b0 + 64 * b1 + 32 * b2 + 16 * b3 + 8 * b4 + 4 * b5 + 2 * b6 + b7
  BY <1>2 DEF Octet
<1>7. Octet(lost, i) = 128 * l0 + 64 * l1 + 32 * l2 + 16 * l3 + 8 * l4 + 4 * l5 + 2 * l6 + l7
  BY <1>2 DEF Octet
<1> DEFINE D == Octet(bits, i)
           E == Octet(lost, i)
           x == bits[a]
           y == bits[a + 1]
<1> HIDE DEF D, E, x, y, b0, l0, b1, l1, b2, l2, b3, l3, b4, l4, b5, l5, b6, l6, b7, l7
<1>8. /\ o \in 0 .. 6 => D - E \in 1 .. 192
      /\ o = 7 => D - E = x
      /\ o = -1 => D - E = 128 * y
      /\ o < -1 \/ o > 7 => D - E = 0
  <2>0. o \in Int
    BY <1>2
  <2>1. /\ D = 128 * b0 + 64 * b1 + 32 * b2 + 16 * b3 + 8 * b4 + 4 * b5 + 2 * b6 + b7
        /\ E = 128 * l0 + 64 * l1 + 32 * l2 + 16 * l3 + 8 * l4 + 4 * l5 + 2 * l6 + l7
    BY <1>6, <1>7 DEF D, E
  <2>2. (o = 7 => x = b7) /\ (o = -1 => y = b0)
    BY <1>5 DEF x, y
  <2>3. CASE o = -1
    BY <1>4, <1>5, <2>1, <2>2, <2>3
  <2>4. CASE o = 0
    BY <1>4, <1>5, <2>1, <2>2, <2>4
  <2>5. CASE o = 1
    BY <1>4, <1>5, <2>1, <2>2, <2>5
  <2>6. CASE o = 2
    BY <1>4, <1>5, <2>1, <2>2, <2>6
  <2>7. CASE o = 3
    BY <1>4, <1>5, <2>1, <2>2, <2>7
  <2>8. CASE o = 4
    BY <1>4, <1>5, <2>1, <2>2, <2>8
  <2>9. CASE o = 5
    BY <1>4, <1>5, <2>1, <2>2, <2>9
  <2>10. CASE o = 6
    BY <1>4, <1>5, <2>1, <2>2, <2>10
  <2>11. CASE o = 7
    BY <1>4, <1>5, <2>1, <2>2, <2>11
  <2>12. CASE o < -1 \/ o > 7
    BY <1>4, <2>0, <2>1, <2>12
  <2> QED BY <2>0, <2>3, <2>4, <2>5, <2>6, <2>7, <2>8, <2>9, <2>10, <2>11, <2>12
<1> QED BY <1>8 DEF D, E, x, y, i, lost, o

\* Two lost bits, of which one was set, never go unnoticed.  If both are in the data or
\* both in the checksum, the one changes by 1 to 192 and the other does not; if they are
\* the last of the data and the first of the checksum, the one changes by at most 1 and the
\* other by 0 or 128.  Neither difference is a multiple of 256.
LEMMA LostBitsFail ==
  ASSUME NEW bits \in [1 .. 40 -> 0 .. 1], NEW a \in 1 .. 39, bits[a] = 1 \/ bits[a + 1] = 1,
         Data(bits)[5] = ComputeChecksum(Data(bits))
  PROVE  DecodeBits(Lost(bits, a)) = Checksum
<1> DEFINE d(j) == Octet(bits, 8 * j - 7)
           e(j) == Octet(Lost(bits, a), 8 * j - 7)
<1>1. /\ d(1) \in Byte /\ d(2) \in Byte /\ d(3) \in Byte /\ d(4) \in Byte /\ d(5) \in Byte
      /\ e(1) \in Byte /\ e(2) \in Byte /\ e(3) \in Byte /\ e(4) \in Byte /\ e(5) \in Byte
  <2>1. \A j \in 1 .. 5 : d(j) \in Byte
    BY OctetType
  <2>2. Lost(bits, a) \in [1 .. 40 -> 0 .. 1]
    BY LostType
  <2>3. \A j \in 1 .. 5 : e(j) \in Byte
    BY <2>2, OctetType
  <2> HIDE DEF d, e
  <2> QED BY <2>1, <2>3
<1>2. d(5) = (d(1) + d(2) + d(3) + d(4)) % 256
  BY DEF ComputeChecksum, Data
<1>3. \A j \in 1 .. 5 : LET i == 8 * j - 7
                            drop == d(j) - e(j)
         IN  /\ a - i \in 0 .. 6 => drop \in 1 .. 192
             /\ a - i = 7 => drop = bits[a]
             /\ a - i = -1 => drop = 128 * bits[a + 1]
             /\ a - i < -1 \/ a - i > 7 => drop = 0
  BY OctetLost
<1> DEFINE d1 == d(1)
           e1 == e(1)
           d2 == d(2)
           e2 == e(2)
           d3 == d(3)
           e3 == e(3)
           d4 == d(4)
           e4 == e(4)
           d5 == d(5)
           e5 == e(5)
           p == bits[a]
           q == bits[a + 1]
           t == d1 + d2 + d3 + d4
           u == e1 + e2 + e3 + e4
           x == t - u
           y == d5 - e5
<1>4. p \in 0 .. 1 /\ q \in 0 .. 1 /\ (p = 1 \/ q = 1)
  OBVIOUS
<1>5. /\ a - 1 \in 0 .. 6 => d1 - e1 \in 1 .. 192
      /\ a - 1 = 7 => d1 - e1 = p
      /\ a - 1 = -1 => d1 - e1 = 128 * q
      /\ a - 1 < -1 \/ a - 1 > 7 => d1 - e1 = 0
      /\ a - 9 \in 0 .. 6 => d2 - e2 \in 1 .. 192
      /\ a - 9 = 7 => d2 - e2 = p
      /\ a - 9 = -1 => d2 - e2 = 128 * q
      /\ a - 9 < -1 \/ a - 9 > 7 => d2 - e2 = 0
      /\ a - 17 \in 0 .. 6 => d3 - e3 \in 1 .. 192
      /\ a - 17 = 7 => d3 - e3 = p
      /\ a - 17 = -1 => d3 - e3 = 128 * q
      /\ a - 17 < -1 \/ a - 17 > 7 => d3 - e3 = 0
      /\ a - 25 \in 0 .. 6 => d4 - e4 \in 1 .. 192
      /\ a - 25 = 7 => d4 - e4 = p
      /\ a - 25 = -1 => d4 - e4 = 128 * q
      /\ a - 25 < -1 \/ a - 25 > 7 => d4 - e4 = 0
      /\ a - 33 \in 0 .. 6 => d5 - e5 \in 1 .. 192
      /\ a - 33 = 7 => d5 - e5 = p
      /\ a - 33 = -1 => d5 - e5 = 128 * q
      /\ a - 33 < -1 \/ a - 33 > 7 => d5 - e5 = 0
  <2> HIDE DEF d, e
  <2> QED BY <1>3
<1>6. /\ d1 \in Int /\ d2 \in Int /\ d3 \in Int /\ d4 \in Int /\ d5 \in Int
      /\ e1 \in Int /\ e2 \in Int /\ e3 \in Int /\ e4 \in Int /\ e5 \in Int
      /\ t \in 0 .. 1020
  <2>1. /\ d1 \in 0 .. 255 /\ d2 \in 0 .. 255 /\ d3 \in 0 .. 255 /\ d4 \in 0 .. 255 /\ d5 \in 0 .. 255
        /\ e1 \in 0 .. 255 /\ e2 \in 0 .. 255 /\ e3 \in 0 .. 255 /\ e4 \in 0 .. 255 /\ e5 \in 0 .. 255
    BY <1>1 DEF Byte
  <2> HIDE DEF d1, d2, d3, d4, d5, e1, e2, e3, e4, e5
  <2> QED BY <2>1
<1>7. d5 = t % 256
  BY <1>2
<1> HIDE DEF d, e, p, q, d1, d2, d3, d4, d5, e1, e2, e3, e4, e5
<1>8. /\ x \in 0 .. 192 /\ y \in 0 .. 192
      /\ \/ x # 0 /\ y = 0
         \/ x = 0 /\ y # 0
         \/ x = 1 /\ y = 128
  BY <1>4, <1>5, <1>6
<1>9. u % 256 # e5
  <2>1. u = t - x /\ e5 = (t % 256) - y
    BY <1>6, <1>7
  <2> HIDE DEF t, x, y, u
  <2>2. (t - x) % 256 # (t % 256) - y
    <3>1. t \in 0 .. 1020 /\ x \in 0 .. 192 /\ y \in 0 .. 192
      BY <1>6, <1>8
    <3>2. (x # 0 /\ y = 0) \/ (x = 0 /\ y # 0) \/ (x = 1 /\ y = 128)
      BY <1>8
    <3> QED BY <3>1, <3>2
  <2> QED BY <2>1, <2>2
<1> DEFINE data == [j \in 1 .. 5 |-> Octet(Lost(bits, a), 8 * j - 7)]
<1>10. data[5] = e5 /\ data[1] = e1 /\ data[2] = e2 /\ data[3] = e3 /\ data[4] = e4
  BY DEF e, e1, e2, e3, e4, e5
<1>11. DecodeBits(Lost(bits, a)) = IF data[5] # ComputeChecksum(data) THEN Checksum ELSE DecodeReading(data)
  BY DEF DecodeBits
<1> HIDE DEF data
<1> QED BY <1>9, <1>10, <1>11 DEF ComputeChecksum

\* fix_pulses leaves a record alone that has no pulse that is too long.
LEMMA UnfixedIs ==
  ASSUME NEW p, \A l \in 3 .. 81 : ~ p[l] > 120
  PROVE  FixPulses(p) = p
BY DEF FixPulses

\* Pulses that are longer than 51 exactly where a bit is set are decoded as these bits.
LEMMA DecodePulsesIs ==
  ASSUME NEW p, NEW bits \in [1 .. 40 -> 0 .. 1], \A b \in 1 .. 40 : p[2 * b] > 51 <=> bits[b] = 1
  PROVE  DecodePulses(p) = DecodeBits(bits)
<1> DEFINE read == [i \in 1 .. 40 |-> IF p[2 * i] > 51 THEN 1 ELSE 0]
<1>1. \A i \in 1 .. 40 : bits[i] = IF p[2 * i] > 51 THEN 1 ELSE 0
  OBVIOUS
<1>2. read = bits
  BY <1>1
<1>3. DecodePulses(p) = DecodeBits(read)
  BY DEF DecodePulses
<1> HIDE DEF read
<1> QED BY <1>2, <1>3

\* A record of 81 pulses is repaired, then decoded.
LEMMA ReadMissing ==
  ASSUME NEW q \in Seq(Nat), Len(q) = 81
  PROVE  ReadPin2(q) = DecodePulses(FixPulses(q))
<1>1. SubSeq(q, 1, Len(q)) = q
  BY SubSeqFull
<1>2. Len(q) - 80 = 1 /\ ~ Len(q) < 81
  OBVIOUS
<1>3. ReadPin2(q) = IF Len(q) < 81 THEN Timeout
        ELSE DecodePulses(IF Len(q) = 81 THEN FixPulses(SubSeq(q, Len(q) - 80, Len(q)))
                          ELSE SubSeq(q, Len(q) - 80, Len(q)))
  BY DEF ReadPin2
<1>4. SubSeq(q, Len(q) - 80, Len(q)) = q
  BY <1>1, <1>2
<1> QED BY <1>2, <1>3, <1>4

\* The pulses of a line vary.  For the thresholds of the second driver (51, 120 and 160)
\* these ranges are narrow enough; all pulses after the start marker are short.
IsLow(x) == x \in Nat /\ 48 <= x /\ x <= 55
IsZero(x) == x \in Nat /\ 25 <= x /\ x <= 30
IsOne(x) == x \in Nat /\ 68 <= x /\ x <= 75
IsShort(x) == x \in Nat /\ x <= 75

\* A start marker, forty bits, and the low pulse of the end marker.
IsFrame(p, bits) ==
  /\ p \in Seq(Nat) /\ Len(p) = 83
  /\ p[2] > 51
  /\ \A b \in 1 .. 41 : IsLow(p[2 * b + 1])
  /\ \A b \in 1 .. 40 : IF bits[b] = 1 THEN IsOne(p[2 * b + 2]) ELSE IsZero(p[2 * b + 2])

\* All pulses after the start marker are short.
LEMMA FrameShort ==
  ASSUME NEW bits, NEW p, IsFrame(p, bits), NEW l \in 3 .. 83
  PROVE  IsShort(p[l])
<1>1. CASE l % 2 = 1
  <2> DEFINE b == l \div 2
  <2>1. b \in 1 .. 41 /\ l = 2 * b + 1
    BY <1>1
  <2> HIDE DEF b
  <2>2. IsLow(p[l])
    BY <2>1, Zenon DEF IsFrame
  <2> QED BY <2>2 DEF IsLow, IsShort
<1>2. CASE l % 2 = 0
  <2> DEFINE b == l \div 2 - 1
  <2>1. b \in 1 .. 40 /\ l = 2 * b + 2
    BY <1>2
  <2> HIDE DEF b
  <2>2. IsOne(p[l]) \/ IsZero(p[l])
    BY <2>1, Zenon DEF IsFrame
  <2> QED BY <2>2 DEF IsOne, IsZero, IsShort
<1>3. l % 2 \in {0, 1}
  OBVIOUS
<1> QED BY <1>1, <1>2, <1>3

\* The line of a measurement is a frame of its bits.
LEMMA MarkedIs ==
  ASSUME NEW m \in Measurements
  PROVE  IsFrame(Marked(m), Bits(m))
<1> DEFINE n == 83
           p == Pulses(m, n)
<1>1. n \in {82, 83}
  OBVIOUS
<1>2. /\ p \in Seq(Nat) /\ Len(p) = n
      /\ p[1] = 80 /\ p[2] = 80
      /\ \A c \in 1 .. n : c > 2 /\ c % 2 = 1 => p[c] = 50
      /\ \A b \in 1 .. 40 : p[2 * b + 2] = IF Bits(m)[b] = 1 THEN 70 ELSE 27
  BY <1>1, FrameIs
<1> HIDE DEF p
<1>3. ASSUME NEW b \in 1 .. 41 PROVE p[2 * b + 1] = 50
  <2>1. 2 * b + 1 \in 1 .. n /\ 2 * b + 1 > 2 /\ (2 * b + 1) % 2 = 1
    OBVIOUS
  <2> QED BY <1>2, <2>1
<1>4. \A b \in 1 .. 41 : IsLow(p[2 * b + 1])
  BY <1>3 DEF IsLow
<1>5. ASSUME NEW b \in 1 .. 40
      PROVE  IF Bits(m)[b] = 1 THEN IsOne(p[2 * b + 2]) ELSE IsZero(p[2 * b + 2])
  <2>1. p[2 * b + 2] = IF Bits(m)[b] = 1 THEN 70 ELSE 27
    BY <1>2
  <2>2. IsOne(70) /\ IsZero(27)
    BY DEF IsOne, IsZero
  <2> QED BY <2>1, <2>2, Zenon
<1>6. p[2] > 51
  BY <1>2
<1> HIDE DEF n
<1>7. p \in Seq(Nat) /\ Len(p) = 83
  BY <1>2 DEF n
<1> QED BY <1>4, <1>5, <1>6, <1>7, Zenon DEF IsFrame, Marked, p, n

\* q is what a driver has of the frame p if it misses the k-th pulse.
IsMissing(q, p, k) ==
  /\ q \in Seq(Nat) /\ Len(q) = 81
  /\ \A l \in 1 .. 81 : l < k - 1 => q[l] = p[l]
  /\ \A l \in 1 .. 81 : l = k - 1 => q[l] = p[l] + p[l + 1] + p[l + 2]
  /\ \A l \in 1 .. 81 : l > k - 1 => q[l] = p[l + 2]

IsBit(x, bit) == (bit = 1 => IsOne(x)) /\ (bit # 1 => IsZero(x))

\* A high pulse of a frame is as long as its bit says.
LEMMA FrameBit ==
  ASSUME NEW bits, NEW p, IsFrame(p, bits), NEW b \in 1 .. 40
  PROVE  IsBit(p[2 * b + 2], bits[b])
BY Zenon DEF IsFrame, IsBit

\* The high pulses of a frame tell its bits.
LEMMA FrameBits ==
  ASSUME NEW bits \in [1 .. 40 -> 0 .. 1], NEW p, IsFrame(p, bits)
  PROVE  \A b \in 1 .. 40 : p[2 * b + 2] > 51 <=> bits[b] = 1
<1> TAKE b \in 1 .. 40
<1>1. (bits[b] = 1 => IsOne(p[2 * b + 2])) /\ (bits[b] # 1 => IsZero(p[2 * b + 2]))
  BY FrameBit DEF IsBit
<1>2. IsOne(p[2 * b + 2]) => p[2 * b + 2] > 51
  BY DEF IsOne
<1>3. IsZero(p[2 * b + 2]) => ~ p[2 * b + 2] > 51
  BY DEF IsZero
<1> QED BY <1>1, <1>2, <1>3, Zenon

\* Of a frame that misses one pulse, only the joined one and the start marker can be long.
LEMMA OthersAreShort ==
  ASSUME NEW bits, NEW p, IsFrame(p, bits), NEW k \in 2 .. 82, NEW q, IsMissing(q, p, k),
         NEW l \in 3 .. 81, l # k - 1
  PROVE  IsShort(q[l])
<1>1. \A x \in 3 .. 83 : IsShort(p[x])
  BY FrameShort
<1>2. l \in 1 .. 81 /\ l \in 3 .. 83 /\ l + 2 \in 3 .. 83
  OBVIOUS
<1>3. CASE l < k - 1
  <2>1. q[l] = p[l]
    BY <1>2, <1>3 DEF IsMissing
  <2> QED BY <1>1, <1>2, <2>1, Zenon
<1>4. CASE l > k - 1
  <2>1. q[l] = p[l + 2]
    BY <1>2, <1>4 DEF IsMissing
  <2> QED BY <1>1, <1>2, <2>1, Zenon
<1> QED BY <1>3, <1>4

\* A missed high pulse makes one of 121 to 140, or of 164 to 185, which the repair recognises and restores.
\* If it is the start marker's, the pulses of the markers are joined, and the repair
\* finds nothing: the bits are where they belong.
LEMMA MissedHigh ==
  ASSUME NEW bits \in [1 .. 40 -> 0 .. 1], NEW p, IsFrame(p, bits), NEW c \in 1 .. 41,
         NEW k, k = 2 * c, NEW q, IsMissing(q, p, k)
  PROVE  ReadPin2(q) = DecodeBits(bits)
<1>1. /\ q \in Seq(Nat) /\ Len(q) = 81
      /\ \A l \in 1 .. 81 : l < k - 1 => q[l] = p[l]
      /\ \A l \in 1 .. 81 : l = k - 1 => q[l] = p[l] + p[l + 1] + p[l + 2]
      /\ \A l \in 1 .. 81 : l > k - 1 => q[l] = p[l + 2]
  BY DEF IsMissing
<1>2. SUFFICES \A b \in 1 .. 40 : FixPulses(q)[2 * b] > 51 <=> bits[b] = 1
  <2>1. DecodePulses(FixPulses(q)) = DecodeBits(bits)
    BY <1>2, DecodePulsesIs
  <2> QED BY <1>1, <2>1, ReadMissing
<1>3. k \in 2 .. 82
  OBVIOUS
<1>4. ASSUME NEW l \in 3 .. 81, l # k - 1 PROVE IsShort(q[l])
  BY <1>3, <1>4, OthersAreShort
<1>5. CASE c = 1
  <2>1. \A l \in 3 .. 81 : ~ q[l] > 120
    <3> TAKE l \in 3 .. 81
    <3>1. l # k - 1
      BY <1>5
    <3>2. IsShort(q[l])
      BY <1>4, <3>1
    <3> QED BY <3>2 DEF IsShort
  <2>2. FixPulses(q) = q
    BY <2>1, UnfixedIs
  <2>3. ASSUME NEW b \in 1 .. 40 PROVE q[2 * b] = p[2 * b + 2]
    <3> DEFINE l == 2 * b
    <3>1. l \in 1 .. 81 /\ l > k - 1
      BY <1>5
    <3> HIDE DEF l
    <3>2. q[l] = p[l + 2]
      BY <1>1, <3>1
    <3> QED BY <3>2 DEF l
  <2> QED BY <2>2, <2>3, FrameBits
<1>6. CASE c # 1
  <2> DEFINE i == k - 1
             b0 == c - 1
  <2>1. /\ i \in 3 .. 81 /\ b0 \in 1 .. 40 /\ b0 \in 1 .. 41 /\ c \in 1 .. 41
        /\ i = 2 * b0 + 1 /\ i + 1 = 2 * b0 + 2 /\ i + 2 = 2 * c + 1
    BY <1>6
  <2>2. q[i] = p[i] + p[i + 1] + p[i + 2]
    <3>1. i \in 1 .. 81
      BY <2>1
    <3> QED BY <1>1, <3>1
  <2>3. /\ IsLow(p[i]) /\ IsLow(p[i + 2])
        /\ IsBit(p[i + 1], bits[b0])
    <3>1. \A b \in 1 .. 41 : IsLow(p[2 * b + 1])
      BY Zenon DEF IsFrame
    <3>2. /\ IsLow(p[2 * b0 + 1]) /\ IsLow(p[2 * c + 1])
          /\ IsBit(p[2 * b0 + 2], bits[b0])
      <4> HIDE DEF b0, i
      <4>1. IsBit(p[2 * b0 + 2], bits[b0])
        BY <2>1, FrameBit
      <4> QED BY <2>1, <3>1, <4>1, Zenon
    <3> QED BY <2>1, <3>2, Zenon
  <2> HIDE DEF i, b0
  <2>4. q[i] > 120 /\ ((IF q[i] < 160 THEN Zero ELSE One) > 51 <=> bits[b0] = 1)
    <3>1. CASE bits[b0] # 1
      BY <2>2, <2>3, <3>1 DEF Zero, One, IsLow, IsBit, IsZero
    <3>2. CASE bits[b0] = 1
      BY <2>2, <2>3, <3>2 DEF Zero, One, IsLow, IsBit, IsOne
    <3> QED BY <3>1, <3>2
  <2>5. \A l \in 3 .. 81 : q[l] > 120 => l = i
    <3> TAKE l \in 3 .. 81
    <3>1. CASE l # i
      <4>1. IsShort(q[l])
        BY <1>4, <3>1 DEF i
      <4> QED BY <4>1 DEF IsShort
    <3> QED BY <3>1
  <2>6. IsFixed(FixPulses(q), q, i)
    BY <1>1, <2>1, <2>4, <2>5, FixIs
  <2>7. ASSUME NEW b \in 1 .. 40 PROVE FixPulses(q)[2 * b] > 51 <=> bits[b] = 1
    <3> DEFINE j == 2 * b
    <3>1. j \in 1 .. 81 /\ j + 2 # i /\ j + 2 # i + 2
      BY <2>1
    <3>2. p[j + 2] > 51 <=> bits[b] = 1
      BY FrameBits
    <3>3. CASE j + 2 < i
      <4>1. FixPulses(q)[j] = q[j + 2]
        BY <2>6, <3>1, <3>3 DEF IsFixed
      <4>2. j + 2 \in 1 .. 81 /\ j + 2 < k - 1
        BY <2>1, <3>3 DEF i
      <4>3. q[j + 2] = p[j + 2]
        BY <1>1, <4>2, Zenon
      <4> QED BY <3>2, <4>1, <4>3, Zenon
    <3>4. CASE j + 2 = i + 1
      <4>0. ~ j + 2 < i
        BY <2>1, <3>4
      <4>1. FixPulses(q)[j] = IF q[i] < 160 THEN Zero ELSE One
        BY <2>6, <3>1, <3>4, <4>0, Zenon DEF IsFixed
      <4>2. b = b0
        BY <2>1, <3>4
      <4> QED BY <2>4, <4>1, <4>2, Zenon DEF j
    <3>5. CASE j + 2 > i + 2
      <4>1. FixPulses(q)[j] = q[j]
        BY <2>6, <3>1, <3>5, <2>1 DEF IsFixed
      <4>2. j \in 1 .. 81 /\ j > k - 1
        BY <2>1, <3>5 DEF i
      <4>3. q[j] = p[j + 2]
        BY <1>1, <4>2, Zenon
      <4> QED BY <3>2, <4>1, <4>3, Zenon
    <3> QED BY <2>1, <3>1, <3>3, <3>4, <3>5
  <2> QED BY <2>7
<1> QED BY <1>5, <1>6

\* A start marker that is taken for the first bit makes a humidity of more than 100 %.
LEMMA FirstBitSet ==
  ASSUME NEW p, p[2] > 51
  PROVE  Accept(DecodePulses(p)) \in {Timeout, Checksum, Suspicious}
<1> DEFINE bits == [i \in 1 .. 40 |-> IF p[2 * i] > 51 THEN 1 ELSE 0]
           data == Data(bits)
<1>1. bits \in [1 .. 40 -> 0 .. 1] /\ bits[1] = 1
  OBVIOUS
<1>2. DecodePulses(p) = DecodeBits(bits)
  BY DEF DecodePulses
<1> HIDE DEF bits
<1>3. DecodeBits(bits) = IF data[5] # ComputeChecksum(data) THEN Checksum ELSE DecodeReading(data)
  BY DEF DecodeBits, Data
<1>4. data[1] = Octet(bits, 1) /\ data[2] = Octet(bits, 9)
  BY DEF Data
<1>5. Octet(bits, 1) \in Byte /\ Octet(bits, 1) >= 128 /\ Octet(bits, 9) \in Byte
  <2> DEFINE j1 == 1
             j2 == 2
  <2>1. j1 \in 1 .. 5 /\ j2 \in 1 .. 5 /\ 8 * j1 - 7 = 1 /\ 8 * j2 - 7 = 9
    OBVIOUS
  <2> HIDE DEF j1, j2
  <2>2. /\ Octet(bits, 8 * j1 - 7) \in Byte /\ (bits[8 * j1 - 7] = 1 => Octet(bits, 8 * j1 - 7) >= 128)
        /\ Octet(bits, 8 * j2 - 7) \in Byte
    BY <1>1, <2>1, OctetType
  <2> QED BY <1>1, <2>1, <2>2
<1> HIDE DEF data
<1>6. DecodeReading(data).humidity > 1000
  <2>1. DecodeReading(data).humidity = data[1] * 256 + data[2]
    BY DEF DecodeReading
  <2> DEFINE b1 == data[1]
             b2 == data[2]
  <2>2. b1 \in Byte /\ b1 >= 128 /\ b2 \in Byte
    BY <1>4, <1>5
  <2>3. DecodeReading(data).humidity = b1 * 256 + b2
    BY <2>1
  <2> HIDE DEF b1, b2
  <2>4. b1 * 256 + b2 > 1000
    BY <2>2 DEF Byte
  <2> QED BY <2>3, <2>4
<1>7. CASE data[5] # ComputeChecksum(data)
  <2>1. DecodePulses(p) = Checksum
    BY <1>2, <1>3, <1>7
  <2> QED BY <2>1 DEF Accept
<1>8. CASE data[5] = ComputeChecksum(data)
  <2>1. DecodePulses(p) = DecodeReading(data)
    BY <1>2, <1>3, <1>8
  <2> QED BY <1>6, <2>1 DEF Accept
<1> QED BY <1>7, <1>8

\* A missed low pulse joins two bits.  Next to a set bit, that pulse is too long, and the
\* repair makes both bits zeros, as LostBitsFail has it.  Between two others it goes
\* unnoticed, two pulses are missing, and the start marker becomes the first bit.
LEMMA MissedLow ==
  ASSUME NEW bits \in [1 .. 40 -> 0 .. 1], Data(bits)[5] = ComputeChecksum(Data(bits)),
         NEW p, IsFrame(p, bits), NEW c \in 1 .. 40,
         NEW k, k = 2 * c + 1, NEW q, IsMissing(q, p, k)
  PROVE  Accept(ReadPin2(q)) \in {Timeout, Checksum, Suspicious}
<1> DEFINE i == k - 1
<1>1. /\ q \in Seq(Nat) /\ Len(q) = 81
      /\ \A l \in 1 .. 81 : l < i => q[l] = p[l]
      /\ \A l \in 1 .. 81 : l = i => q[l] = p[l] + p[l + 1] + p[l + 2]
      /\ \A l \in 1 .. 81 : l > i => q[l] = p[l + 2]
  BY DEF IsMissing
<1>2. k \in 2 .. 82 /\ i = 2 * c /\ i \in 1 .. 81
  OBVIOUS
<1>3. ASSUME NEW l \in 3 .. 81, l # i PROVE IsShort(q[l])
  BY <1>2, <1>3, OthersAreShort
<1>4. ReadPin2(q) = DecodePulses(FixPulses(q))
  BY <1>1, ReadMissing
<1>5. p[2] \in Nat /\ p[2] > 51 /\ IsLow(p[i + 1])
  <2>1. \A b \in 1 .. 41 : IsLow(p[2 * b + 1])
    BY Zenon DEF IsFrame
  <2>2. c \in 1 .. 41 /\ i + 1 = 2 * c + 1
    BY <1>2
  <2>3. IsLow(p[2 * c + 1])
    BY <2>1, <2>2, Zenon
  <2>4. p[2] > 51
    BY Zenon DEF IsFrame
  <2>5. p \in Seq(Nat) /\ Len(p) = 83
    BY Zenon DEF IsFrame
  <2>6. p[2] \in Nat
    <3>1. \A x \in 1 .. Len(p) : p[x] \in Nat
      BY <2>5, ElementOfSeq
    <3>2. 2 \in 1 .. Len(p)
      BY <2>5
    <3> QED BY <3>1, <3>2, Zenon
  <2> QED BY <2>2, <2>3, <2>4, <2>6, Zenon
<1>6. IsBit(p[i + 2], bits[c])
  <2>1. i + 2 = 2 * c + 2
    BY <1>2
  <2>2. IsBit(p[2 * c + 2], bits[c])
    BY FrameBit
  <2> QED BY <2>1, <2>2, Zenon
<1>7. q[i] = p[i] + p[i + 1] + p[i + 2]
  BY <1>1, <1>2
<1> HIDE DEF i
\* Nothing is found that is too long: the start marker becomes the first bit.
<1>8. ASSUME \A l \in 3 .. 81 : ~ q[l] > 120, q[2] > 51
      PROVE  Accept(ReadPin2(q)) \in {Timeout, Checksum, Suspicious}
  <2>1. FixPulses(q) = q
    BY <1>8, UnfixedIs
  <2> QED BY <1>4, <1>8, <2>1, FirstBitSet
<1>9. CASE c = 1
  <2>1. i = 2
    BY <1>2, <1>9
  <2>2. \A l \in 3 .. 81 : ~ q[l] > 120
    <3> TAKE l \in 3 .. 81
    <3>1. IsShort(q[l])
      BY <1>3, <2>1
    <3> QED BY <3>1 DEF IsShort
  <2>3. q[2] > 51
    <3>1. q[2] = p[2] + p[i + 1] + p[i + 2]
      BY <1>7, <2>1
    <3>2. IsOne(p[i + 2]) \/ IsZero(p[i + 2])
      BY <1>6, Zenon DEF IsBit
    <3>3. p[i + 1] \in Nat /\ p[i + 2] \in Nat
      BY <1>5, <3>2 DEF IsLow, IsOne, IsZero
    <3> QED BY <1>5, <3>1, <3>3
  <2> QED BY <1>8, <2>2, <2>3
<1>10. CASE c # 1
  <2> DEFINE a == c - 1
  <2>1. a \in 1 .. 39 /\ i = 2 * a + 2 /\ c = a + 1 /\ i \in 3 .. 81 /\ a \in 1 .. 40
    BY <1>2, <1>10
  <2> HIDE DEF a
  <2>2. IsBit(p[i], bits[a])
    <3>1. IsBit(p[2 * a + 2], bits[a])
      BY <2>1, FrameBit
    <3> QED BY <2>1, <3>1, Zenon
  <2>3. CASE bits[a] = 1 \/ bits[a + 1] = 1
    <3>1. q[i] > 120
      <4>1. \/ IsOne(p[i]) /\ (IsOne(p[i + 2]) \/ IsZero(p[i + 2]))
            \/ IsOne(p[i + 2]) /\ (IsOne(p[i]) \/ IsZero(p[i]))
        BY <1>6, <2>1, <2>2, <2>3, Zenon DEF IsBit
      <4> QED BY <1>5, <1>7, <4>1 DEF IsLow, IsOne, IsZero
    <3>2. \A l \in 3 .. 81 : q[l] > 120 => l = i
      <4> TAKE l \in 3 .. 81
      <4>1. CASE l # i
        <5>1. IsShort(q[l])
          BY <1>3, <4>1
        <5> QED BY <5>1 DEF IsShort
      <4> QED BY <4>1
    <3>3. IsFixed(FixPulses(q), q, i)
      BY <1>1, <2>1, <3>1, <3>2, FixIs
    <3>4. ASSUME NEW b \in 1 .. 40 PROVE FixPulses(q)[2 * b] > 51 <=> Lost(bits, a)[b] = 1
      <4> DEFINE j == 2 * b
      <4>0. j \in 1 .. 81 /\ j + 2 # i + 1 /\ j + 2 = 2 * b + 2
        BY <2>1
      <4>1. p[j + 2] > 51 <=> bits[b] = 1
        BY <4>0, FrameBits
      <4>2. Lost(bits, a)[b] = IF b \in {a, a + 1} THEN 0 ELSE bits[b]
        BY DEF Lost
      <4> HIDE DEF j
      <4>3. CASE j + 2 < i
        <5>1. FixPulses(q)[j] = q[j + 2]
          BY <3>3, <4>0, <4>3 DEF IsFixed
        <5>2. j + 2 \in 1 .. 81
          BY <2>1, <4>0, <4>3
        <5>3. q[j + 2] = p[j + 2]
          BY <1>1, <4>3, <5>2
        <5>4. b \notin {a, a + 1}
          BY <2>1, <4>0, <4>3
        <5> QED BY <4>1, <4>2, <5>1, <5>3, <5>4 DEF j
      <4>4. CASE j + 2 \in {i, i + 2}
        <5>1. FixPulses(q)[j] = Low
          BY <2>1, <3>3, <4>0, <4>4 DEF IsFixed
        <5>2. b \in {a, a + 1}
          BY <2>1, <4>0, <4>4
        <5> QED BY <4>2, <5>1, <5>2 DEF Low, j
      <4>5. CASE j + 2 > i + 2
        <5>1. FixPulses(q)[j] = q[j]
          BY <2>1, <3>3, <4>0, <4>5 DEF IsFixed
        <5>2. j > i
          BY <2>1, <4>0, <4>5
        <5>3. q[j] = p[j + 2]
          BY <1>1, <4>0, <5>2
        <5>4. b \notin {a, a + 1}
          BY <2>1, <4>0, <4>5
        <5> QED BY <4>1, <4>2, <5>1, <5>3, <5>4 DEF j
      <4> QED BY <2>1, <4>0, <4>3, <4>4, <4>5
    <3>5. DecodePulses(FixPulses(q)) = DecodeBits(Lost(bits, a))
      BY <2>1, <3>4, LostType, DecodePulsesIs
    <3>6. DecodeBits(Lost(bits, a)) = Checksum
      BY <2>1, <2>3, LostBitsFail
    <3> QED BY <1>4, <3>5, <3>6 DEF Accept
  <2>4. CASE ~ (bits[a] = 1 \/ bits[a + 1] = 1)
    <3>1. IsZero(p[i]) /\ IsZero(p[i + 2])
      BY <1>6, <2>1, <2>2, <2>4, Zenon DEF IsBit
    <3>2. \A l \in 3 .. 81 : ~ q[l] > 120
      <4> TAKE l \in 3 .. 81
      <4>1. CASE l = i
        BY <1>5, <1>7, <3>1, <4>1 DEF IsLow, IsZero
      <4>2. CASE l # i
        <5>1. IsShort(q[l])
          BY <1>3, <4>2
        <5> QED BY <5>1 DEF IsShort
      <4> QED BY <4>1, <4>2
    <3>3. q[2] > 51
      <4>1. 2 < i /\ 2 \in 1 .. 81
        BY <2>1
      <4>2. q[2] = p[2]
        BY <1>1, <4>1
      <4> QED BY <1>5, <4>2
    <3> QED BY <1>8, <3>2, <3>3
  <2> QED BY <2>3, <2>4
<1> QED BY <1>9, <1>10

\* A frame of which no pulse was missed is decoded as its bits.
LEMMA ReadMarked ==
  ASSUME NEW bits \in [1 .. 40 -> 0 .. 1], NEW p, IsFrame(p, bits)
  PROVE  ReadPin2(p) = DecodeBits(bits)
<1> DEFINE lo == Len(p) - 80
           hi == Len(p)
           r == SubSeq(p, lo, hi)
<1>1. p \in Seq(Nat) /\ lo = 3 /\ hi = 83 /\ Len(p) # 81 /\ ~ Len(p) < 81
  BY DEF IsFrame
<1>2. ReadPin2(p) = DecodePulses(r)
  <2>1. ReadPin2(p) = IF Len(p) < 81 THEN Timeout
                      ELSE DecodePulses(IF Len(p) = 81 THEN FixPulses(r) ELSE r)
    BY DEF ReadPin2
  <2> HIDE DEF r
  <2> QED BY <1>1, <2>1
<1>3. \A x \in lo .. hi : p[x] \in Nat
  <2>1. ASSUME NEW x \in 1 .. Len(p) PROVE p[x] \in Nat
    <3>1. p \in Seq(Nat)
      BY <1>1
    <3> HIDE DEF lo, hi, r
    <3> QED BY <2>1, <3>1, ElementOfSeq
  <2>2. \A x \in lo .. hi : x \in 1 .. Len(p)
    BY <1>1
  <2> QED BY <2>1, <2>2, Zenon
<1>4. lo \in Int /\ hi \in Int /\ hi - lo + 1 = 81
  BY <1>1
<1> HIDE DEF lo, hi
<1>5. \A x \in 1 .. hi - lo + 1 : r[x] = p[lo + x - 1]
  BY <1>3, <1>4, SubSeqProperties
<1> HIDE DEF r
<1>6. ASSUME NEW b \in 1 .. 40 PROVE r[2 * b] > 51 <=> bits[b] = 1
  <2>1. 2 * b \in 1 .. hi - lo + 1 /\ lo + 2 * b - 1 = 2 * b + 2
    BY <1>1, <1>4
  <2>2. r[2 * b] = p[2 * b + 2]
    BY <1>5, <2>1
  <2> QED BY <2>2, FrameBits
<1>7. DecodePulses(r) = DecodeBits(bits)
  BY <1>6, DecodePulsesIs
<1> QED BY <1>2, <1>7, Zenon

\* A set with 0 that has the successor of each of its numbers has all natural numbers.
LEMMA SetInduction ==
  ASSUME NEW S, 0 \in S, \A n \in Nat : n \in S => n + 1 \in S
  PROVE  Nat \subseteq S
<1> DEFINE R == OpToRel(<, Nat)
           T == Nat \ S
<1>1. IsWellFoundedOn(R, Nat)
  BY NatLessThanWellFounded
<1>2. \A m, n \in Nat : <<m, n>> \in R <=> m < n
  BY DEF OpToRel
<1> SUFFICES ASSUME T # {} PROVE FALSE
  OBVIOUS
<1> HIDE DEF R
<1>3. PICK x \in T : \A y \in T : ~ (<<y, x>> \in R)
  BY <1>1, WFMin
<1>4. x \in Nat \ {0} /\ x - 1 \in Nat /\ x - 1 < x /\ (x - 1) + 1 = x
  OBVIOUS
<1>5. x - 1 \in S
  BY <1>2, <1>3, <1>4
<1> QED BY <1>4, <1>5

\* The sums of the first low pulses, as decode adds them up.
SumTo(counts) ==
  LET sum[c \in 0 .. 40] == IF c = 0 THEN 0 ELSE sum[c - 1] + counts[2 * c + 1] IN sum

\* f is such a function, or one for the first n only.
IsSum(f, counts) == f = [c \in 0 .. 40 |-> IF c = 0 THEN 0 ELSE f[c - 1] + counts[2 * c + 1]]

SumsUpto(f, counts, n) ==
  /\ f \in [0 .. n -> Nat] /\ f[0] = 0
  /\ \A c \in 1 .. n : f[c] = f[c - 1] + counts[2 * c + 1]

\* The sum exists: the function that the recursion defines can be extended step by step.
LEMMA SumExists ==
  ASSUME NEW counts, \A c \in 1 .. 40 : counts[2 * c + 1] \in Nat
  PROVE  IsSum(SumTo(counts), counts)
<1> DEFINE Summable(n) == \E f : SumsUpto(f, counts, n)
           S == {n \in Nat : n <= 40 => Summable(n)}
<1>1. 0 \in S
  <2> DEFINE f == [c \in 0 .. 0 |-> 0]
  <2>1. SumsUpto(f, counts, 0)
    BY DEF SumsUpto
  <2>2. Summable(0)
    BY <2>1, Zenon
  <2> HIDE DEF Summable
  <2> QED BY <2>2
<1>2. ASSUME NEW n \in Nat, n \in S PROVE n + 1 \in S
  <2>1. CASE n + 1 <= 40
    <3>1. Summable(n)
      <4> HIDE DEF Summable
      <4> QED BY <1>2, <2>1
    <3>2. PICK f : SumsUpto(f, counts, n)
      BY <3>1, Zenon
    <3>3. /\ f \in [0 .. n -> Nat] /\ f[0] = 0
          /\ \A c \in 1 .. n : f[c] = f[c - 1] + counts[2 * c + 1]
      BY <3>2, Zenon DEF SumsUpto
    <3>4. n + 1 \in 1 .. 40
      BY <2>1
    <3>5. counts[2 * (n + 1) + 1] \in Nat
      BY <3>4
    <3> DEFINE x == counts[2 * (n + 1) + 1]
               g == [c \in 0 .. n + 1 |-> IF c = n + 1 THEN f[n] + x ELSE f[c]]
    <3> HIDE DEF x
    <3>6. f[n] \in Nat /\ x \in Nat
      BY <3>3, <3>5 DEF x
    <3>7. g \in [0 .. n + 1 -> Nat]
      <4>1. ASSUME NEW c \in 0 .. n + 1 PROVE g[c] \in Nat
        <5>1. CASE c = n + 1
          BY <3>6, <5>1
        <5>2. CASE c # n + 1
          <6>1. c \in 0 .. n
            BY <5>2
          <6> QED BY <3>3, <5>2, <6>1
        <5> QED BY <5>1, <5>2
      <4> QED BY <4>1
    <3>8. g[0] = 0
      BY <3>3
    <3>9. ASSUME NEW c \in 1 .. n + 1 PROVE g[c] = g[c - 1] + counts[2 * c + 1]
      <4>1. c - 1 \in 0 .. n /\ c \in 0 .. n + 1 /\ c - 1 \in 0 .. n + 1 /\ c - 1 # n + 1
        OBVIOUS
      <4>2. g[c - 1] = f[c - 1]
        BY <4>1
      <4>3. CASE c = n + 1
        <5>1. g[c] = f[n] + x /\ c - 1 = n
          BY <4>3
        <5> QED BY <4>2, <4>3, <5>1 DEF x
      <4>4. CASE c # n + 1
        <5>1. c \in 1 .. n
          BY <4>4
        <5>2. f[c] = f[c - 1] + counts[2 * c + 1] /\ g[c] = f[c]
          BY <3>3, <4>1, <4>4, <5>1
        <5> QED BY <4>2, <5>2
      <4> QED BY <4>3, <4>4
    <3> HIDE DEF g
    <3>10. SumsUpto(g, counts, n + 1)
      BY <3>7, <3>8, <3>9, Zenon DEF SumsUpto
    <3>11. Summable(n + 1)
      BY <3>10, Zenon
    <3> HIDE DEF Summable
    <3> QED BY <3>11
  <2>2. CASE ~ n + 1 <= 40
    BY <2>2
  <2> QED BY <2>1, <2>2
<1>3. Summable(40)
  <2> HIDE DEF S
  <2>1. Nat \subseteq S
    BY <1>1, <1>2, SetInduction
  <2> HIDE DEF Summable
  <2> QED BY <2>1 DEF S
<1>4. PICK f : SumsUpto(f, counts, 40)
  BY <1>3, Zenon
<1>5. IsSum(f, counts)
  <2>1. ASSUME NEW c \in 0 .. 40
        PROVE  f[c] = IF c = 0 THEN 0 ELSE f[c - 1] + counts[2 * c + 1]
    <3>2. c # 0 => c \in 1 .. 40
      OBVIOUS
    <3> QED BY <1>4, <3>2 DEF SumsUpto
  <2>2. f = [c \in 0 .. 40 |-> f[c]]
    BY <1>4 DEF SumsUpto
  <2> QED BY <2>1, <2>2 DEF IsSum
<1>6. SumTo(counts) = CHOOSE h : IsSum(h, counts)
  BY DEF SumTo, IsSum
<1> QED BY <1>5, <1>6, Zenon

\* The mean of the low pulses is between the shortest and the longest of them.
LEMMA MeanOfLows ==
  ASSUME NEW counts, NEW lo \in Nat, NEW hi \in Nat,
         \A c \in 1 .. 40 : counts[2 * c + 1] \in lo .. hi
  PROVE  SumTo(counts)[40] \div 40 \in lo .. hi
<1> DEFINE sum == SumTo(counts)
<1>1. IsSum(sum, counts)
  <2>1. \A c \in 1 .. 40 : counts[2 * c + 1] \in Nat
    OBVIOUS
  <2> QED BY <2>1, SumExists
<1> HIDE DEF sum
<1>2. sum[0] = 0 /\ \A c \in 1 .. 40 : sum[c] = sum[c - 1] + counts[2 * c + 1]
  BY <1>1 DEF IsSum
<1> DEFINE S == {c \in Nat : c <= 40 => sum[c] \in Nat /\ c * lo <= sum[c] /\ sum[c] <= c * hi}
<1>3. 0 \in S
  BY <1>2
<1>4. ASSUME NEW n \in Nat, n \in S PROVE n + 1 \in S
  <2>1. CASE n + 1 <= 40
    <3>1. n + 1 \in 1 .. 40 /\ (n + 1) - 1 = n /\ n <= 40
      BY <2>1
    <3> DEFINE x == counts[2 * (n + 1) + 1]
               y == sum[n]
    <3>2. sum[n + 1] = y + x /\ x \in lo .. hi /\ y \in Nat /\ n * lo <= y /\ y <= n * hi
      BY <1>2, <1>4, <3>1
    <3> HIDE DEF x, y
    <3>3. (n + 1) * lo = n * lo + lo /\ (n + 1) * hi = n * hi + hi
      OBVIOUS
    <3> DEFINE nlo == n * lo
               nhi == n * hi
    <3>4. nlo \in Nat /\ nhi \in Nat
      OBVIOUS
    <3>5. nlo <= y /\ y <= nhi
      BY <3>2
    <3> HIDE DEF nlo, nhi
    <3>6. y + x \in Nat /\ nlo + lo <= y + x /\ y + x <= nhi + hi
      BY <3>2, <3>4, <3>5
    <3>7. sum[n + 1] \in Nat /\ (n + 1) * lo <= sum[n + 1] /\ sum[n + 1] <= (n + 1) * hi
      BY <3>2, <3>3, <3>6 DEF nlo, nhi
    <3> QED BY <3>7
  <2>2. CASE ~ n + 1 <= 40
    BY <2>2
  <2> QED BY <2>1, <2>2
<1>5. 40 \in S
  <2> HIDE DEF S
  <2>1. Nat \subseteq S
    BY <1>3, <1>4, SetInduction
  <2> QED BY <2>1
<1> DEFINE y == sum[40]
<1>6. y \in Nat /\ 40 * lo <= y /\ y <= 40 * hi
  BY <1>5
<1> HIDE DEF y
<1>7. y \div 40 \in lo .. hi
  BY <1>6
<1> QED BY <1>7 DEF y, sum

\* The first driver copes with counts that vary, in whatever unit: it reads the measurement
\* if short high pulses count less than any low one, and long ones no less than any.
THEOREM UnevenCounts ==
  ASSUME NEW m \in Measurements, NEW counts, NEW lo \in Nat, NEW hi \in Nat,
         \A c \in 1 .. 40 : counts[2 * c + 1] \in lo .. hi,
         \A b \in 1 .. 40 : counts[2 * b + 2] \in Nat,
         \A b \in 1 .. 40 : IF Bits(m)[b] = 1 THEN hi <= counts[2 * b + 2] ELSE counts[2 * b + 2] < lo
  PROVE  Decode(counts) = m
<1> DEFINE bits == Bits(m)
           mean == SumTo(counts)[40] \div 40
           read == [i \in 1 .. 40 |-> IF counts[2 * i + 2] >= mean THEN 1 ELSE 0]
<1>1. bits \in [1 .. 40 -> 0 .. 1] /\ DecodeBits(bits) = m
  BY SentBits, DecodeSent
<1>2. mean \in lo .. hi
  BY MeanOfLows
<1>3. Decode(counts) = DecodeBits(read)
  BY DEF Decode, SumTo
<1> HIDE DEF mean
<1>4. ASSUME NEW b \in 1 .. 40 PROVE read[b] = bits[b]
  <2>1. bits[b] \in 0 .. 1
    BY <1>1
  <2> DEFINE x == counts[2 * b + 2]
  <2>2. x \in Nat /\ (bits[b] = 1 => hi <= x) /\ (bits[b] # 1 => x < lo)
    OBVIOUS
  <2>3. read[b] = IF x >= mean THEN 1 ELSE 0
    OBVIOUS
  <2> HIDE DEF x, bits, read
  <2>4. x >= mean <=> bits[b] = 1
    BY <1>2, <2>2
  <2> QED BY <2>1, <2>3, <2>4
<1>5. read \in [1 .. 40 -> 0 .. 1]
  OBVIOUS
<1> HIDE DEF read, bits
<1>6. read = bits
  BY <1>1, <1>4, <1>5
<1> QED BY <1>1, <1>3, <1>6

\* In all units tried, a short high pulse is shorter than a low one, and a long one longer.
LEMMA Thresholds ==
  ASSUME NEW num \in {1, 3, 17}, NEW den \in {1, 2}
  PROVE  /\ (27 * num) \div den \in Nat /\ (50 * num) \div den \in Nat /\ (70 * num) \div den \in Nat
         /\ (27 * num) \div den < (50 * num) \div den
         /\ (50 * num) \div den <= (70 * num) \div den
<1>1. CASE den = 1
  BY <1>1
<1>2. CASE den = 2
  BY <1>2
<1> QED BY <1>1, <1>2

\* The first driver reads the measurement, in whatever unit it counts.
LEMMA DecodeScaled ==
  ASSUME NEW m \in Measurements, NEW num \in {1, 3, 17}, NEW den \in {1, 2}
  PROVE  Decode(Scaled(Line(m), num, den)) = m
<1> DEFINE n == 82
           p == Pulses(m, n)
           bits == Bits(m)
           counts == Scaled(p, num, den)
           low == (50 * num) \div den
<1>1. n \in {82, 83}
  OBVIOUS
<1>2. /\ p \in Seq(Nat) /\ Len(p) = n
      /\ \A c \in 1 .. n : c > 2 /\ c % 2 = 1 => p[c] = 50
      /\ \A b \in 1 .. 40 : p[2 * b + 2] = IF bits[b] = 1 THEN 70 ELSE 27
  BY <1>1, FrameIs
<1>3. bits \in [1 .. 40 -> 0 .. 1] /\ DecodeBits(bits) = m
  BY SentBits, DecodeSent
<1>4. Line(m) = p
  BY DEF Line
<1> HIDE DEF p, bits
<1>5. \A i \in 1 .. n : counts[i] = (p[i] * num) \div den
  BY <1>2 DEF Scaled
<1> HIDE DEF counts
<1>6. ASSUME NEW c \in 1 .. 40 PROVE counts[2 * c + 1] = low
  <2>1. 2 * c + 1 \in 1 .. n /\ 2 * c + 1 > 2 /\ (2 * c + 1) % 2 = 1
    OBVIOUS
  <2>2. p[2 * c + 1] = 50
    BY <1>2, <2>1
  <2> QED BY <1>5, <2>1, <2>2
<1>7. ASSUME NEW b \in 1 .. 40
      PROVE  /\ counts[2 * b + 2] \in Nat
             /\ IF bits[b] = 1 THEN low <= counts[2 * b + 2] ELSE counts[2 * b + 2] < low
  <2>1. 2 * b + 2 \in 1 .. n
    OBVIOUS
  <2>2. CASE bits[b] = 1
    <3>1. p[2 * b + 2] = 70
      BY <1>2, <2>2
    <3>2. counts[2 * b + 2] = (70 * num) \div den
      BY <1>5, <2>1, <3>1
    <3>3. (70 * num) \div den \in Nat /\ low <= (70 * num) \div den
      BY Thresholds
    <3> QED BY <2>2, <3>2, <3>3, Zenon
  <2>3. CASE bits[b] # 1
    <3>1. p[2 * b + 2] = 27
      BY <1>2, <2>3
    <3>2. counts[2 * b + 2] = (27 * num) \div den
      BY <1>5, <2>1, <3>1
    <3>3. (27 * num) \div den \in Nat /\ (27 * num) \div den < low
      BY Thresholds
    <3> QED BY <2>3, <3>2, <3>3, Zenon
  <2> QED BY <2>2, <2>3
<1>8. low \in Nat
  BY Thresholds
<1> HIDE DEF low, n
<1>9. \A c \in 1 .. 40 : counts[2 * c + 1] \in low .. low
  BY <1>6, <1>8
<1>10. Decode(counts) = m
  BY <1>7, <1>8, <1>9, UnevenCounts DEF bits
<1> QED BY <1>4, <1>10 DEF counts

\* The fifth byte of what was sent is the checksum of the others.
LEMMA ChecksumSent ==
  ASSUME NEW m \in Measurements
  PROVE  Data(Bits(m))[5] = ComputeChecksum(Data(Bits(m)))
<1> DEFINE data == Data(Bits(m))
<1>1. /\ data[5] = ComputeChecksum(Bytes(m))
      /\ data[1] = Bytes(m)[1] /\ data[2] = Bytes(m)[2] /\ data[3] = Bytes(m)[3] /\ data[4] = Bytes(m)[4]
  BY SentBits, DataType DEF Data
<1> HIDE DEF data
<1>2. data[5] = ComputeChecksum(data)
  BY <1>1 DEF ComputeChecksum
<1> QED BY <1>2 DEF data

\* A frame less the k-th pulse.
LEMMA FrameMissing ==
  ASSUME NEW bits, NEW p, IsFrame(p, bits), NEW k \in 2 .. 82
  PROVE  IsMissing(Missing(p, k), p, k)
<1> DEFINE q == Missing(p, k)
<1>1. p \in Seq(Nat) /\ Len(p) = 83
  BY Zenon DEF IsFrame
<1> HIDE DEF q
<1>2. /\ q \in Seq(Nat) /\ Len(q) = 81
      /\ \A i \in 1 .. 81 : q[i] = IF i < k - 1 THEN p[i]
                                   ELSE IF i = k - 1 THEN p[i] + p[i + 1] + p[i + 2]
                                   ELSE p[i + 2]
  BY <1>1, MissingIs DEF q
<1>3. ASSUME NEW l \in 1 .. 81
      PROVE  /\ l < k - 1 => q[l] = p[l]
             /\ l = k - 1 => q[l] = p[l] + p[l + 1] + p[l + 2]
             /\ l > k - 1 => q[l] = p[l + 2]
  <2>1. k \in Int /\ l \in Int
    OBVIOUS
  <2>2. (l = k - 1 => ~ l < k - 1) /\ (l > k - 1 => ~ l < k - 1 /\ l # k - 1)
    BY <2>1
  <2> QED BY <1>2, <2>2, Zenon
<1>4. IsMissing(q, p, k)
  BY <1>2, <1>3, Zenon DEF IsMissing
<1> QED BY <1>4 DEF q

\* The second driver copes with pulses that vary: it reads the measurement from the frame
\* and from the frame less any high pulse; and whichever pulse it misses, what
\* do_read_sensor accepts is the measurement.
THEOREM UnevenPulses ==
  ASSUME NEW m \in Measurements, NEW p, IsFrame(p, Bits(m))
  PROVE  /\ ReadPin2(p) = m
         /\ \A c \in 1 .. 41 : ReadPin2(Missing(p, 2 * c)) = m
         /\ \A k \in 2 .. 82 : Accept(ReadPin2(Missing(p, k))) \in {m, Timeout, Checksum, Suspicious}
<1>1. Bits(m) \in [1 .. 40 -> 0 .. 1] /\ DecodeBits(Bits(m)) = m
  BY SentBits, DecodeSent
<1>2. ReadPin2(p) = m
  BY <1>1, ReadMarked
<1>3. ASSUME NEW c \in 1 .. 41 PROVE ReadPin2(Missing(p, 2 * c)) = m
  <2> DEFINE k == 2 * c
  <2>1. k \in 2 .. 82 /\ k = 2 * c
    OBVIOUS
  <2> HIDE DEF k
  <2>2. IsMissing(Missing(p, k), p, k)
    BY <2>1, FrameMissing
  <2>3. ReadPin2(Missing(p, k)) = m
    BY <1>1, <2>1, <2>2, MissedHigh
  <2> QED BY <2>3 DEF k
<1>4. ASSUME NEW k \in 2 .. 82
      PROVE  Accept(ReadPin2(Missing(p, k))) \in {m, Timeout, Checksum, Suspicious}
  <2> DEFINE q == Missing(p, k)
  <2>1. IsMissing(q, p, k)
    BY FrameMissing
  <2> HIDE DEF q
  <2>2. CASE k % 2 = 0
    <3>1. PICK c \in 1 .. 41 : k = 2 * c
      <4>1. k \div 2 \in 1 .. 41 /\ k = 2 * (k \div 2)
        BY <2>2
      <4> QED BY <4>1
    <3>2. ReadPin2(q) = m
      BY <1>3, <3>1 DEF q
    <3>3. ~ m.humidity > 1000
      <4>1. m \in [humidity : 0 .. 1000, temperature : Int]
        BY FramesAssumption
      <4> QED BY <4>1
    <3> QED BY <3>2, <3>3 DEF Accept, q
  <2>3. CASE k % 2 = 1
    <3>1. PICK c \in 1 .. 40 : k = 2 * c + 1
      <4>1. k \div 2 \in 1 .. 40 /\ k = 2 * (k \div 2) + 1
        BY <2>3
      <4> QED BY <4>1
    <3>2. Accept(ReadPin2(q)) \in {Timeout, Checksum, Suspicious}
      BY <1>1, <2>1, <3>1, ChecksumSent, MissedLow
    <3> QED BY <3>2 DEF q
  <2>4. k % 2 \in {0, 1}
    OBVIOUS
  <2> QED BY <2>2, <2>3, <2>4
<1> QED BY <1>2, <1>3, <1>4

\* ReadingIsTheSensors holds for every measurement.
LEMMA ReadingRight == ReadingIsTheSensors
<1> SUFFICES ASSUME NEW m \in Measurements
             PROVE  /\ ReadPin2(Marked(m)) = m
                    /\ \A k \in {2 * i : i \in 1 .. 41} : ReadPin2(Missing(Marked(m), k)) = m
                    /\ \A num \in {1, 3, 17} : \A den \in {1, 2} : Decode(Scaled(Line(m), num, den)) = m
  BY DEF ReadingIsTheSensors
<1>1. IsFrame(Marked(m), Bits(m))
  BY MarkedIs
<1>2. /\ ReadPin2(Marked(m)) = m
      /\ \A c \in 1 .. 41 : ReadPin2(Missing(Marked(m), 2 * c)) = m
  BY <1>1, UnevenPulses
<1>3. \A num \in {1, 3, 17} : \A den \in {1, 2} : Decode(Scaled(Line(m), num, den)) = m
  BY DecodeScaled
<1> QED BY <1>2, <1>3

\* MissedPulseNeverLies, too: a missed high pulse is restored, a missed low one rejected.
LEMMA NeverLies == MissedPulseNeverLies
<1> SUFFICES ASSUME NEW m \in Measurements, NEW k \in 2 .. 82
             PROVE  Accept(ReadPin2(Missing(Marked(m), k))) \in {m, Timeout, Checksum, Suspicious}
  BY DEF MissedPulseNeverLies
<1>1. IsFrame(Marked(m), Bits(m))
  BY MarkedIs
<1> QED BY <1>1, UnevenPulses

\* Whatever a DHT22 measures, both drivers read it, a missed high pulse is made up for, and
\* a missed low one ends as an error or as an impossible humidity, never as another reading.
THEOREM MissedPulsesNeverLie == Spec => []MissedPulse
<1>1. MissedPulse
  <2>1. ReadingIsTheSensors /\ MissedPulseNeverLies
    BY ReadingRight, NeverLies
  <2> QED BY <2>1 DEF MissedPulse
<1> QED BY <1>1, PTL
=============================================================================
