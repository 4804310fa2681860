----------------------------- MODULE SensorInput ----------------------------
(***************************************************************************)
(* The sensors and inputs that a thread of their own reads, reports and    *)
(* sleeps on: BME280 (src/bme280.rs), DHT22 (src/dht22.rs, with the        *)
(* drivers of src/dht22_lib.rs), DS18 (src/ds18.rs) and Gpio               *)
(* (src/gpio.rs).  A reading is one number for all ports of the device;    *)
(* what differs is what each thread does about errors, implausible         *)
(* readings and a chip that got stuck.  What the two DHT22 drivers make of *)
(* the pulses of the line is in Dht22Frames.                               *)
(***************************************************************************)
EXTENDS DeviceReadCore, Dht22Frames

CONSTANTS Devices,     \* device types tried
          Configured,  \* ports with an entry under "inputs" in the config
          Jump,        \* DEVICE_RESET_PRESSURE_DIFF
          Resets,      \* values tried for reset_every_n_readouts
          Never,       \* None: no periodic resets
          MaxFaults,   \* bound: disturbances (changes, bus errors, bad chips, lost pulses)
          MaxQueue     \* bound: events waiting for the consumer of a port

PortsOf == [bme280 |-> {"temperature", "humidity", "pressure"},
            dht22 |-> {"temperature", "humidity"},
            ds18 |-> {"temperature"},
            gpio |-> {"pin"}]

ASSUME SensorAssumption ==
  /\ Readings \subseteq Nat
  /\ Devices \subseteq DOMAIN PortsOf
  /\ Ports = UNION {PortsOf[d] : d \in Devices} /\ Configured \subseteq Ports
  /\ Jump \in Nat \ {0}
  /\ Resets \subseteq (Nat \ {0}) \cup {Never} /\ Resets # {} /\ Never \notin Nat
  /\ MaxFaults \in Nat /\ MaxQueue \in Nat \ {0}

VARIABLES device,         \* the type of the device
          adjust,         \* DHT22: adjust_priority
          every,          \* BME280: reset_every_n_readouts
          pc,             \* where the thread is in its loop
          last_pressure,  \* BME280
          readout_count,  \* BME280
          priority,       \* DHT22: the scheduling priority of the thread
          actual,         \* what the sensor ought to measure
          stuck,          \* BME280: what a chip in a bad state measures until its reset
          faults,         \* bounded by MaxFaults
          shown,          \* history: the last reading that was reported
          inits,          \* history: was the chip initialised since then
          unreset         \* history: readings reported since the chip was initialised, if that is periodic

configVars == <<device, adjust, every>>
threadVars == <<pc, last_pressure, readout_count, priority>>
worldVars == <<actual, stuck, faults>>
historyVars == <<shown, inits, unreset>>
vars == <<readCoreVars, configVars, threadVars, worldVars, historyVars>>

TypeOK ==
  /\ ReadCoreTypeOK
  /\ device \in Devices /\ adjust \in BOOLEAN /\ every \in Resets
  /\ pc \in {"reading", "hanging", "resetting", "periodic", "asleep"}
  /\ last_pressure \in Readings \cup {NoValue}
  /\ readout_count \in Nat
  /\ priority \in {"default", "max"}
  /\ actual \in Readings /\ stuck \in Readings \cup {NoValue}
  /\ faults \in 0 .. MaxFaults
  /\ shown \in Readings \cup {NoValue}

\* new of each device; only Gpio sleeps before its first reading, the others afterwards.
Init ==
  /\ ReadCoreInit
  /\ device \in Devices
  /\ adjust \in (IF device = "dht22" THEN BOOLEAN ELSE {FALSE})
  /\ every \in (IF device = "bme280" THEN Resets ELSE {CHOOSE n \in Resets : TRUE})
  /\ pc = IF device = "gpio" THEN "asleep" ELSE "reading"
  /\ last_pressure = NoValue /\ readout_count = 0 /\ priority = "default"
  /\ actual \in Readings /\ stuck = NoValue /\ faults = 0
  /\ shown = NoValue /\ inits = FALSE /\ unreset = 0

Fault == faults < MaxFaults /\ faults' = faults + 1

\* get_input_port, while the thread already reads.
GetInputPort(p) ==
  /\ p \in Configured \cap PortsOf[device]
  /\ SetUpEvents(p)
  /\ UNCHANGED <<device_values, wakers, received, configVars, threadVars, worldVars, historyVars>>

\* The event task of a port.
Consume(p) ==
  /\ PollEvents(p)
  /\ UNCHANGED <<configVars, threadVars, worldVars, historyVars>>

Roomy == \A p \in mapped : Len(events[p]) < MaxQueue

\* A reading for all ports; every reading but a Gpio's is an event.
Report(m) ==
  /\ UpdateValues([p \in Ports |-> m], device # "gpio", FALSE)
  /\ shown' = m /\ inits' = FALSE
  /\ unreset' = IF device = "bme280" /\ every # Never THEN unreset + 1 ELSE 0

\* set_error_on_all_ports.
ReportError ==
  /\ UpdateValues([p \in Ports |-> Err], TRUE, FALSE)
  /\ UNCHANGED historyVars

\* The readout of a device that has no state but its loop: DS18 and Gpio.
ReadValue ==
  /\ device \in {"ds18", "gpio"}
  /\ pc = "reading" /\ Roomy
  /\ Report(actual)
  /\ pc' = "asleep"
  /\ UNCHANGED <<configVars, last_pressure, readout_count, priority, worldVars>>

\* The file of a DS18 cannot be read or is not a number; reading a GPIO cannot fail.
ReadValueFails ==
  /\ device = "ds18"
  /\ pc = "reading" /\ Roomy
  /\ Fault
  /\ ReportError
  /\ pc' = "asleep"
  /\ UNCHANGED <<configVars, last_pressure, readout_count, priority, actual, stuck>>

Sleep ==
  /\ pc = "asleep"
  /\ pc' = "reading"
  /\ UNCHANGED <<readCoreVars, configVars, last_pressure, readout_count, priority, worldVars, historyVars>>
-----------------------------------------------------------------------------
(***************************************************************************)
(* BME280.                                                                 *)
(***************************************************************************)
Measured == IF stuck = NoValue THEN actual ELSE stuck
Far(m, n) == m \in Readings /\ n \in Readings /\ (m - n >= Jump \/ n - m >= Jump)

\* read_sensor takes a reading: it is counted, and the chip is due for a reset or not.
Measure ==
  /\ device = "bme280"
  /\ pc = "reading" /\ Roomy
  /\ ~Far(Measured, last_pressure)
  /\ last_pressure' = Measured
  /\ Report(Measured)
  /\ readout_count' = IF every = Never THEN 0 ELSE readout_count + 1
  /\ pc' = IF every # Never /\ readout_count' >= every THEN "periodic" ELSE "asleep"
  /\ UNCHANGED <<configVars, priority, worldVars>>

\* MUTANT of MeasureJump: the pressure to compare with is kept.
MeasureJump_Keeps ==
  /\ device = "bme280"
  /\ pc = "reading"
  /\ Far(Measured, last_pressure)
  /\ pc' = "resetting"
  /\ UNCHANGED <<readCoreVars, configVars, last_pressure, readout_count, priority, worldVars, historyVars>>

\* SuspiciousValue: nothing is reported, and the next reading is not compared.
MeasureJump ==
  /\ device = "bme280"
  /\ pc = "reading"
  /\ Far(Measured, last_pressure)
  /\ last_pressure' = NoValue
  /\ pc' = "resetting"
  /\ UNCHANGED <<readCoreVars, configVars, readout_count, priority, worldVars, historyVars>>

\* MUTANT of MeasureFails: forgets the last pressure.
MeasureFails_Forgets ==
  /\ device = "bme280"
  /\ pc = "reading" /\ Roomy
  /\ Fault
  /\ ReportError
  /\ last_pressure' = NoValue
  /\ pc' = "asleep"
  /\ UNCHANGED <<configVars, readout_count, priority, actual, stuck>>

\* measure is an Err: all ports report it, and the last pressure stays.
MeasureFails ==
  /\ device = "bme280"
  /\ pc = "reading" /\ Roomy
  /\ Fault
  /\ ReportError
  /\ pc' = "asleep"
  /\ UNCHANGED <<configVars, last_pressure, readout_count, priority, actual, stuck>>

\* init of the chip, after a jump (then the sensor is read again at once) or because
\* it is time, which alone starts the count again.
ResetSucceeds ==
  /\ pc \in {"resetting", "periodic"}
  /\ stuck' = NoValue
  /\ inits' = TRUE /\ unreset' = 0
  /\ pc' = IF pc = "resetting" THEN "reading" ELSE "asleep"
  /\ readout_count' = IF pc = "resetting" THEN readout_count ELSE 0
  /\ UNCHANGED <<readCoreVars, configVars, last_pressure, priority, actual, faults, shown>>

\* MUTANT of ResetFails: the count starts again although the chip was not reset.
ResetFails_Counts ==
  /\ pc \in {"resetting", "periodic"}
  /\ Fault
  /\ pc' = IF pc = "resetting" THEN "resetting" ELSE "asleep"
  /\ readout_count' = IF pc = "resetting" THEN readout_count ELSE 0
  /\ UNCHANGED <<readCoreVars, configVars, last_pressure, priority, actual, stuck, historyVars>>

\* A failed init is repeated at once after a jump, else after the next reading.
ResetFails ==
  /\ pc \in {"resetting", "periodic"}
  /\ Fault
  /\ pc' = IF pc = "resetting" THEN "resetting" ELSE "asleep"
  /\ UNCHANGED <<readCoreVars, configVars, last_pressure, readout_count, priority, actual, stuck,
                 historyVars>>
-----------------------------------------------------------------------------
(***************************************************************************)
(* DHT22, with either driver.                                              *)
(***************************************************************************)
\* MUTANT of Readout: after an implausible reading the thread leaves its loop.
Readout_Stops ==
  /\ priority' = "default"
  /\ \/ Report(actual) /\ pc' = "asleep" /\ UNCHANGED faults
     \/ Fault /\ ReportError /\ pc' = "asleep"
     \/ Fault /\ UNCHANGED <<readCoreVars, historyVars>> /\ pc' = "resting"

\* The pulses were recorded: the priority is put back before they are decoded into a
\* reading, a checksum error, or a humidity above 100 %, which is dropped.
Readout ==
  /\ priority' = "default"
  /\ pc' = "asleep"
  /\ \/ Report(actual) /\ UNCHANGED faults
     \/ Fault /\ ReportError
     \/ Fault /\ UNCHANGED <<readCoreVars, historyVars>>

\* Timeout, as after every wait for the line: the driver returns at once, with the
\* priority it has raised.
ReadoutTimesOut ==
  /\ \/ pc = "hanging" /\ UNCHANGED faults
     \/ pc = "reading" /\ Fault
  /\ ReportError
  /\ priority' = IF adjust THEN "max" ELSE "default"
  /\ pc' = "asleep"

\* read_pin or read_pin_2 from start to end, and do_read_sensor.
ReadPin ==
  /\ device = "dht22"
  /\ pc \in {"reading", "hanging"} /\ Roomy
  /\ (pc = "reading" /\ Readout) \/ ReadoutTimesOut
  /\ UNCHANGED <<configVars, last_pressure, readout_count, actual, stuck>>

\* read_pin_inner_2 waits for the line to rise, beyond its timeout.
LineStaysLow ==
  /\ device = "dht22"
  /\ pc = "reading"
  /\ Fault
  /\ pc' = "hanging"
  /\ priority' = IF adjust THEN "max" ELSE "default"
  /\ UNCHANGED <<readCoreVars, configVars, last_pressure, readout_count, actual, stuck, historyVars>>
-----------------------------------------------------------------------------
\* What is measured changes, little or much.
WorldChanges ==
  /\ Fault
  /\ actual' \in Readings \ {actual}
  /\ UNCHANGED <<readCoreVars, configVars, threadVars, stuck, historyVars>>

\* A BME280 gets into a state in which it measures something else.
ChipGetsStuck ==
  /\ device = "bme280"
  /\ Fault
  /\ stuck' \in Readings
  /\ UNCHANGED <<readCoreVars, configVars, threadVars, actual, historyVars>>

Next ==
  \/ \E p \in Ports : GetInputPort(p) \/ Consume(p)
  \/ ReadValue \/ ReadValueFails \/ Sleep
  \/ Measure \/ MeasureJump \/ MeasureFails \/ ResetSucceeds \/ ResetFails
  \/ ReadPin \/ LineStaysLow
  \/ WorldChanges \/ ChipGetsStuck

Spec == Init /\ [][Next]_vars

Thread == \/ ReadValue \/ ReadValueFails \/ Sleep
          \/ Measure \/ MeasureJump \/ MeasureFails \/ ResetSucceeds \/ ResetFails
          \/ ReadPin

\* The threads and event tasks run on, and the line of a DHT22 rises in the end.
FairSpec ==
  /\ Spec
  /\ WF_vars(Thread)
  /\ \A p \in Ports : WF_vars(Consume(p))
-----------------------------------------------------------------------------
\* A jump of the pressure is not believed until the chip was reset: between two
\* readings reported one after the other that are far apart the chip was initialised,
\* also when errors were reported in between.
JumpsAreConfirmed ==
  [][device = "bme280" /\ shown' # shown /\ Far(shown', shown) => inits]_vars

\* Periodic resets happen: no more readings are reported without one than configured,
\* not counting those after a reset that failed.
ResetInTime ==
  device = "bme280" /\ every # Never => unreset <= every + faults

\* Once nothing is disturbed any more every mapped port shows what the sensor ought
\* to measure, for good: errors, implausible readings and real jumps all pass.  (A
\* BME280 stuck at a plausible value needs periodic resets.)
ReadingsRecover ==
  \/ []<>(stuck # NoValue /\ every = Never)
  \/ <>[](\A p \in mapped : device_values[p] \in {actual, NoValue})

\* What becomes of a frame of which a DHT22's driver misses a pulse (Dht22Frames): if it
\* is a high one the measurement survives, if it is a low one it never becomes another.
MissedPulse == device = "dht22" => ReadingIsTheSensors /\ MissedPulseNeverLies
=============================================================================
