---------------------------- MODULE Dht22Expander ---------------------------
(***************************************************************************)
(* DHT22Expander (src/dht22_expander.rs): a thread that polls a board with *)
(* DHT22 sensors over I2C.  Each round initiates a readout on the board,   *)
(* waits, and fetches the results; every few rounds it power cycles the    *)
(* sensors instead.  The board may be slow, may have been reset by its     *)
(* watchdog, and any bus operation may fail, with or without effect.       *)
(*                                                                         *)
(* The board is known only from the registers the thread uses, so it is    *)
(* modelled as freely as they allow.  Its measurements are abstracted to   *)
(* how old they are: "new", "used" by an earlier round, or "junk" left by  *)
(* a reset (zeros, which decode to a plausible 0 degrees and 0 %).         *)
(***************************************************************************)
EXTENDS DeviceReadCore, FiniteSets

CONSTANTS Sensors,       \* groups of two ports
          Interval,      \* readout_interval_seconds
          Cycles,        \* values tried for power_cycle_every_n_readouts
          Never,         \* None: no power cycling
          PowerOff,      \* power_cycle_power_off_seconds
          Settle,        \* seconds the sensors need after power-on (2 in the code)
          Late,          \* extra seconds a step may take
          CounterWidth,  \* values of readout_counter (2^16 in the code)
          MaxFaults,     \* bound: bus errors, resets, slow and invalid readouts
          MaxQueue       \* bound: events waiting for the consumer of a port

ASSUME Dht22ExpanderAssumption ==
  /\ Ports = Sensors \X {"temperature", "humidity"}
  /\ Readings = {"new", "used", "junk"}
  /\ Interval \in Nat /\ Settle \in Nat /\ PowerOff \in Nat
  /\ Interval >= Settle                  \* ensure!(readout_interval_seconds >= 2)
  /\ Cycles \subseteq (Nat \ {0}) \cup {Never} /\ Never \notin Nat
  /\ Late \subseteq Nat
  /\ CounterWidth \in Nat \ {0} /\ MaxFaults \in Nat /\ MaxQueue \in Nat \ {0}

VARIABLES every,           \* power_cycle_every_n_readouts
          pc,              \* where the thread is in its loop
          readout_counter,
          bonus,           \* next_bonus_sleep
          spent,           \* seconds since last_wakeup
          powered, on_for, \* board: sensors have power, and for how long (up to Settle)
          pending,         \* board: status bit 0, a readout is in progress
          flagged,         \* board: status bit 1, cleared by a watchdog reset
          buffer,          \* board: the result of each sensor
          faults,          \* bounded by MaxFaults
          uncycled         \* history: readouts initiated since the last power-off, if there are any

threadVars == <<every, pc, readout_counter, bonus, spent>>
boardVars == <<powered, pending, flagged, buffer>>
vars == <<readCoreVars, threadVars, boardVars, on_for, faults, uncycled>>

TypeOK ==
  /\ ReadCoreTypeOK
  /\ every \in Cycles
  /\ pc \in {"asleep", "power_off", "power_on", "init", "readout", "watchdog"}
  /\ readout_counter \in 0 .. CounterWidth - 1
  /\ bonus \in 0 .. Settle + PowerOff
  /\ spent \in Nat
  /\ powered \in BOOLEAN /\ on_for \in 0 .. Settle
  /\ pending \in BOOLEAN /\ flagged \in BOOLEAN
  /\ buffer \in [Sensors -> Results]
  /\ faults \in 0 .. MaxFaults

\* The board may have been in use before: only its sensors are taken to have power.
Init ==
  /\ ReadCoreInit
  /\ every \in Cycles
  /\ pc = "asleep"
  /\ readout_counter = 0 /\ bonus = 0 /\ spent = 0
  /\ powered = TRUE /\ on_for = 0
  /\ pending \in BOOLEAN /\ flagged \in BOOLEAN
  /\ buffer \in [Sensors -> {"used", "junk"}]
  /\ faults = 0 /\ uncycled = 0

Elapse(d) == on_for' = IF powered /\ powered' THEN IF on_for + d < Settle THEN on_for + d ELSE Settle
                       ELSE 0

Fault == faults < MaxFaults /\ faults' = faults + 1

\* A step of the thread that takes d seconds, or more.
Step(from, d) ==
  /\ pc = from
  /\ \E l \in Late : spent' = spent + d + l

\* A bus operation: done, then ok; or an error, and the board may have seen it or not.
BusWrite(effect, ok, failed) ==
  \/ effect /\ ok /\ UNCHANGED faults
  \/ Fault /\ failed /\ (effect \/ UNCHANGED <<boardVars, uncycled>>)
-----------------------------------------------------------------------------
\* get_input_port, while the thread already polls.
GetInputPort(p) ==
  /\ SetUpEvents(p)
  /\ UNCHANGED <<device_values, wakers, received, threadVars, boardVars, on_for, faults, uncycled>>

\* The event task of a port.
Consume(p) ==
  /\ PollEvents(p)
  /\ UNCHANGED <<threadVars, boardVars, on_for, faults, uncycled>>

\* MUTANT of CycleDue: waits for one readout more.
CycleDue_Late(counter) == every # Never /\ counter > every

CycleDue(counter) == every # Never /\ counter >= every

\* MUTANT of NextCount: counts in more bits than the counter has.
NextCount_Wide(counter) == counter + 1

\* readout_counter += 1 on a u16, in a build without overflow checks.
NextCount(counter) == (counter + 1) % CounterWidth

\* Top of the loop: calculate_sleep_duration from the last wake-up, sleep, and
\* count the round before knowing whether it reads.
WakeUp ==
  /\ pc = "asleep"
  /\ readout_counter' = NextCount(readout_counter)
  /\ pc' = IF CycleDue(readout_counter') THEN "power_off" ELSE "init"
  /\ spent' = 0 /\ bonus' = 0
  /\ UNCHANGED <<readCoreVars, every, boardVars, faults, uncycled>>
  /\ \E d \in Late : Elapse((IF spent < Interval + bonus THEN Interval + bonus - spent ELSE 0) + d)

\* power_cycle_sensors, first write: 0x0C takes power from both banks.
PowerDown ==
  /\ Step("power_off", 0)
  /\ BusWrite(/\ powered' = FALSE /\ uncycled' = 0
              /\ UNCHANGED <<pending, flagged, buffer>>,
              pc' = "power_on", pc' = "asleep")
  /\ UNCHANGED <<readCoreVars, every, readout_counter, bonus>>
  /\ Elapse(spent' - spent)

PowersOn == powered' = TRUE /\ UNCHANGED <<pending, flagged, buffer, uncycled>>

\* MUTANT of PowerUp: the bonus leaves out the time the sensors were off.
PowerUp_ShortSleep ==
  /\ Step("power_on", PowerOff)
  /\ BusWrite(PowersOn,
              readout_counter' = 0 /\ bonus' = Settle,
              UNCHANGED <<readout_counter, bonus>>)
  /\ pc' = "asleep"
  /\ UNCHANGED <<readCoreVars, every>>
  /\ Elapse(spent' - spent)

\* power_cycle_sensors, after its sleep: 0x00 gives power back.  Only then the
\* counter starts again; a failure of either write repeats the whole cycle.
PowerUp ==
  /\ Step("power_on", PowerOff)
  /\ BusWrite(PowersOn,
              readout_counter' = 0 /\ bonus' = Settle + PowerOff,
              UNCHANGED <<readout_counter, bonus>>)
  /\ pc' = "asleep"
  /\ UNCHANGED <<readCoreVars, every>>
  /\ Elapse(spent' - spent)

\* init_readout: 0x01 starts a readout, powers the sensors and leaves the watchdog
\* bit alone.  An error ends the round and the ports keep what they report.
InitReadout ==
  /\ Step("init", 0)
  /\ BusWrite(/\ pending' = TRUE /\ powered' = TRUE
              /\ uncycled' = IF every = Never THEN 0 ELSE uncycled + 1
              /\ UNCHANGED <<flagged, buffer>>,
              pc' = "readout", pc' = "asleep")
  /\ UNCHANGED <<readCoreVars, every, readout_counter, bonus>>
  /\ Elapse(spent' - spent)

\* MUTANT of Reading: takes what is there while the board still reads.
Reading_NoWait ==
  IF ~flagged THEN "reset" ELSE "ok"

\* What readout_sensors makes of the status byte; the bits are checked in this order.
Reading ==
  IF pending THEN "not_finished" ELSE IF ~flagged THEN "reset" ELSE "ok"

Roomy == \A p \in mapped : Len(events[p]) < MaxQueue

\* set_error_on_all_ports.
ErrorOnAllPorts == UpdateValues([p \in Ports |-> Err], TRUE, FALSE)

\* handle_results: the two ports of each sensor, under one lock.
HandleResults ==
  /\ UpdateValues([p \in Ports |-> buffer[p[1]]], TRUE, FALSE)
  /\ buffer' = [s \in Sensors |-> IF buffer[s] = "new" THEN "used" ELSE buffer[s]]

\* All ports report a bus error, a readout that is not finished, a reset, or an
\* invalid status byte of some sensor (BadExpander).
FailReadout ==
  /\ \/ Fault /\ pc' = "asleep"
     \/ Reading = "reset" /\ pc' = "watchdog" /\ UNCHANGED faults
  /\ ErrorOnAllPorts
  /\ UNCHANGED buffer

\* Fetch the results, half a second after the readout was initiated.
ReadoutSensors ==
  /\ Roomy
  /\ Step("readout", 0)
  /\ \/ FailReadout
     \/ Reading = "ok" /\ HandleResults /\ pc' = "asleep" /\ UNCHANGED faults
  /\ UNCHANGED <<every, readout_counter, bonus, powered, pending, flagged, uncycled>>
  /\ Elapse(spent' - spent)

\* MUTANT of ResetWatchdog: the flag is left as it is.
ResetWatchdog_Not ==
  /\ Step("watchdog", 0)
  /\ pc' = "asleep"
  /\ UNCHANGED <<readCoreVars, every, readout_counter, bonus, boardVars, faults, uncycled>>
  /\ Elapse(spent' - spent)

\* reset_watchdog: 0x02, without starting a readout; a failure is only logged.
ResetWatchdog ==
  /\ Step("watchdog", 0)
  /\ BusWrite(/\ flagged' = TRUE /\ powered' = TRUE
              /\ UNCHANGED <<pending, buffer, uncycled>>,
              TRUE, TRUE)
  /\ pc' = "asleep"
  /\ UNCHANGED <<readCoreVars, every, readout_counter, bonus>>
  /\ Elapse(spent' - spent)
-----------------------------------------------------------------------------
(***************************************************************************)
(* The board.                                                              *)
(***************************************************************************)
\* A readout ends, with a measurement or an error (checksum, timeout, no start
\* condition, suspicious value) for each sensor.
Complete ==
  /\ pending
  /\ pending' = FALSE
  /\ buffer' \in [Sensors -> IF powered THEN {"new", Err} ELSE {Err}]
  /\ UNCHANGED <<readCoreVars, threadVars, powered, on_for, flagged, faults, uncycled>>

\* The watchdog resets the board: registers go to zero, which gives power to the sensors.
BoardReset ==
  /\ Fault
  /\ flagged' = FALSE /\ pending' = FALSE /\ powered' = TRUE
  /\ buffer' = [s \in Sensors |-> "junk"]
  /\ Elapse(0)
  /\ UNCHANGED <<readCoreVars, threadVars, uncycled>>

Next ==
  \/ \E p \in Ports : GetInputPort(p) \/ Consume(p)
  \/ WakeUp \/ PowerDown \/ PowerUp \/ InitReadout \/ ReadoutSensors \/ ResetWatchdog
  \/ Complete \/ BoardReset

Spec == Init /\ [][Next]_vars

Thread == WakeUp \/ PowerDown \/ PowerUp \/ InitReadout \/ ReadoutSensors \/ ResetWatchdog

\* The thread and the event tasks run on, and the board finishes its readouts.
FairSpec ==
  /\ Spec
  /\ WF_vars(Thread)
  /\ WF_vars(Complete)
  /\ \A p \in Ports : WF_vars(Consume(p))
-----------------------------------------------------------------------------
\* What a port reports was measured by the readout of the round that reported it:
\* never a measurement of an earlier round, fetched again because the board was not
\* finished, and never what a watchdog reset left in its registers.
FreshReports ==
  \A p \in Ports : device_values[p] \notin {"used", "junk"}

\* The steps of a power cycle take no longer than the readout interval beyond their time:
\* the bonus after a power cycle starts with its round, and is not longer.
Punctual == \A l, m \in Late : l + m <= Interval

\* No more power cycles fail in a row than readout_counter can count before it wraps
\* around, from whatever it has counted already.
CounterSuffices == \A n \in Cycles \ {Never} : n + MaxFaults < CounterWidth

\* Sensors are not read before they had their time to settle, whatever failed while
\* they were power cycled, if the steps are Punctual and the CounterSuffices.
SensorsSettled ==
  pc = "init" => powered /\ on_for = Settle

\* With power cycling configured, the sensors lose power before they have been read
\* as often as configured, however often a cycle fails, if the CounterSuffices.
CycledInTime ==
  every # Never => uncycled < every

\* Once the faults are over, results are fetched again and again: no error, reset or
\* power cycle stops the readouts.  (A power cycle every single readout is accepted,
\* but its round takes the place of the readout, and nothing is ever read.)
ReadoutsGoOn ==
  every # 1 => []<>(pc = "readout" /\ Reading = "ok")
=============================================================================
