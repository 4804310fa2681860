--------------------------- MODULE Ds18b20Expander --------------------------
(***************************************************************************)
(* DS18B20Expander (src/ds18b20_expander.rs, src/ds18b20_expander_lib.rs): *)
(* at start the sensors on the buses of a board are scanned, and the place *)
(* of a configured sensor among all IDs found is where its temperature is  *)
(* expected in every later readout.  A command is given two seconds; then  *)
(* the answer is fetched, several times if need be.  Nothing in an answer  *)
(* says which command it answers, or whether the board has finished it.    *)
(*                                                                         *)
(* The board may be slow or lose its memory, and bus operations may fail,  *)
(* with or without effect, or deliver zeros.  A start that fails and a     *)
(* panic end the process (src/main.rs), which is then started again.       *)
(***************************************************************************)
EXTENDS DeviceReadCore, SequencesExt

CONSTANTS Buses,      \* number of buses (4 in the code)
          Wired,      \* the sensors on each bus, in the order the board finds them
          SensorOf,   \* the port mappings of the configuration
          Silent,     \* bound: sensors that may fail to answer
          Retries,    \* readout_retries
          MaxFaults,  \* bound: disturbances of the board and the bus
          MaxQueue,   \* bound: events waiting for the consumer of a port
          Junk        \* an ID or a temperature made of other bytes

INSTANCE Ds18b20Frames

Sensors == ToSet(FlattenSeq(Wired))

ASSUME Ds18b20ExpanderAssumption ==
  /\ Buses \in Nat \ {0} /\ Retries \in Nat \ {0}
  /\ Wired \in [1 .. Buses -> Seq(Sensors)]
  /\ SensorOf \in [Ports -> Sensors] /\ IsInjective(SensorOf)
  /\ Silent \subseteq Sensors
  /\ Readings = (Sensors \X {"new", "used"}) \cup {Junk}
  /\ Sensors \cap (Sensors \X {"new", "used"}) = {}   \* an ID is not a temperature
  /\ MaxFaults \in Nat /\ MaxQueue \in Nat \ {0}

VARIABLES pc,          \* where the thread that starts and then reads the device is
          bus,         \* the bus being scanned
          sensor_ids,  \* the IDs found so far
          tries,       \* failed tries to fetch an answer
          readout,     \* readout_res: an error, or a result for each sensor
          job,         \* board: the command it works on
          found,       \* board: the sensors it knows on each bus
          frame,       \* board: its answer to the last command
          faults,      \* bounded by MaxFaults
          sound,       \* history: the scan was answered in time and in full
          late,        \* history: the answer of this round was fetched before it was ready
          hasty        \* history: so was that of some round of this process

threadVars == <<pc, bus, sensor_ids, tries, readout>>
boardVars == <<job, found, frame>>
historyVars == <<sound, late, hasty>>
vars == <<readCoreVars, threadVars, boardVars, faults, historyVars>>

\* Commands: the bits of the status register.
NoJob == <<>>
Scan(b) == <<"scan", b>>
Measure == <<"readout">>
Items == Sensors \cup (Sensors \X {"new", "used"}) \cup {Err}

TypeOK ==
  /\ ReadCoreTypeOK
  /\ pc \in {"scan", "scanning", "asleep", "reading", "handling", "down"}
  /\ bus \in 1 .. Buses
  /\ sensor_ids \in Seq(Sensors \cup {Junk})
  /\ tries \in 0 .. Retries - 1
  /\ readout \in Seq(Results) \cup {Err}
  /\ job \in {NoJob, Measure} \cup {Scan(b) : b \in 1 .. Buses}
  /\ found \in [1 .. Buses -> Seq(Sensors)]
  /\ frame \in [of : {"ids", "temperatures"}, items : Seq(Items)]
  /\ faults \in 0 .. MaxFaults
  /\ sound \in BOOLEAN /\ late \in BOOLEAN /\ hasty \in BOOLEAN

\* The board has just been switched on, or was in use by an earlier process.
Init ==
  /\ ReadCoreInit
  /\ pc = "scan" /\ bus = 1 /\ sensor_ids = <<>> /\ tries = 0 /\ readout = Err
  /\ job \in {NoJob, Measure}
  /\ \/ found = [b \in 1 .. Buses |-> <<>>] /\ frame = ZeroFrame
     \/ /\ found = Wired
        /\ frame = Frame("temperatures",
                         [i \in 1 .. Len(FlattenSeq(Wired)) |-> <<FlattenSeq(Wired)[i], "used">>])
  /\ faults = 0 /\ sound = TRUE /\ late = FALSE /\ hasty = FALSE

Fault == faults < MaxFaults /\ faults' = faults + 1

\* write_status_register: done, or an error, and the board may have seen it or not.
WriteStatus(command, ok, failed) ==
  \/ job' = command /\ ok /\ UNCHANGED faults
  \/ Fault /\ failed /\ job' \in {job, command}

(***************************************************************************)
(* read_registers with room for n bytes of data gets frame f.  The buffer  *)
(* is cleared before, so that what does not fit counts as zeros: the       *)
(* checksum of a longer frame is right only if it ends in zeros, which     *)
(* temperatures of exactly 0 degrees are.                                  *)
(***************************************************************************)
ReadRegisters(n, f) ==
  \/ /\ f = frame
     /\ DataBytes(f) > n => f.of = "temperatures"
     /\ IF job = NoJob THEN UNCHANGED faults ELSE Fault
  \/ f = ZeroFrame /\ Fault

\* MUTANT of Retry: one try too many.
Retry_OneMore(failed) ==
  \/ tries < Retries /\ tries' = tries + 1 /\ UNCHANGED <<pc, readout>>
  \/ tries = Retries /\ UNCHANGED tries /\ failed

\* read_registers_with_retry: fetch again, unless this was the last try.
Retry(failed) ==
  \/ tries + 1 < Retries /\ tries' = tries + 1 /\ UNCHANGED <<pc, readout>>
  \/ tries + 1 = Retries /\ UNCHANGED tries /\ failed
-----------------------------------------------------------------------------
(***************************************************************************)
(* Start.                                                                  *)
(***************************************************************************)
\* scan_bus_for_devices: tell the board to scan the next bus.
ScanBus ==
  /\ pc = "scan"
  /\ WriteStatus(Scan(bus), pc' = "scanning", pc' = "down")
  /\ tries' = 0
  /\ UNCHANGED <<readCoreVars, bus, sensor_ids, readout, found, frame, historyVars>>

\* The place of a port's sensor among the IDs, 0 without one (port_indices).
IndexIn(ids, p) == SelectInSeq(ids, LAMBDA s : s = SensorOf[p])

\* Its IDs come after those of the buses before.  After the last bus every configured
\* sensor must have been found.
FetchIds ==
  /\ pc = "scanning"
  /\ \E f \in {frame, ZeroFrame} :
       /\ ReadRegisters(ScanBytes, f)
       /\ sound' = (sound /\ job = NoJob /\ f = frame)
       /\ LET ids == ParseDeviceIds(f) IN
          \/ ids = Err /\ pc' = "down" /\ UNCHANGED <<bus, sensor_ids>>
          \/ /\ ids # Err
             /\ sensor_ids' = sensor_ids \o ids
             /\ \/ bus < Buses /\ bus' = bus + 1 /\ pc' = "scan"
                \/ /\ bus = Buses /\ UNCHANGED bus
                   /\ pc' = IF \A p \in Ports : IndexIn(sensor_ids', p) # 0 THEN "asleep" ELSE "down"
  /\ UNCHANGED <<readCoreVars, tries, readout, boardVars, late, hasty>>

\* A bus error, or noise and so a wrong checksum.  A bus that cannot be read is the end
\* of the start.
FetchIdsFails ==
  /\ pc = "scanning"
  /\ Fault
  /\ Retry(pc' = "down" /\ UNCHANGED readout)
  /\ UNCHANGED <<readCoreVars, bus, sensor_ids, boardVars, historyVars>>

\* get_input_port, once the device exists; its thread already reads.
GetInputPort(p) ==
  /\ pc \in {"asleep", "reading", "handling"}
  /\ SetUpEvents(p)
  /\ UNCHANGED <<device_values, wakers, received, threadVars, boardVars, faults, historyVars>>

\* The event task of a port.
Consume(p) ==
  /\ PollEvents(p)
  /\ UNCHANGED <<threadVars, boardVars, faults, historyVars>>

\* The process is started again; the board goes on with what it was doing.
Restart ==
  /\ pc = "down"
  /\ device_values' = [p \in Ports |-> NoValue] /\ events' = [p \in Ports |-> <<>>]
  /\ mapped' = {} /\ wakers' = {} /\ received' = [p \in Ports |-> NoValue]
  /\ pc' = "scan" /\ bus' = 1 /\ sensor_ids' = <<>> /\ tries' = 0 /\ readout' = Err
  /\ sound' = TRUE /\ late' = FALSE /\ hasty' = FALSE
  /\ UNCHANGED <<boardVars, faults>>
-----------------------------------------------------------------------------
(***************************************************************************)
(* The loop of the thread.                                                 *)
(***************************************************************************)
\* After its sleep: init_readout, without retries.
InitReadout ==
  /\ pc = "asleep"
  /\ WriteStatus(Measure,
                 pc' = "reading" /\ UNCHANGED readout,
                 pc' = "handling" /\ readout' = Err)
  /\ tries' = 0 /\ late' = FALSE
  /\ UNCHANGED <<readCoreVars, bus, sensor_ids, found, frame, sound, hasty>>

ReadoutBytes == 2 * Len(sensor_ids)

AsUsed(item) == IF item \in Sensors \X {"new"} THEN <<item[1], "used">> ELSE item

\* fetch_temperatures, two seconds later.  Before the board has finished a readout, its
\* answer is still the IDs of the last bus, which pass for temperatures if they fit.
FetchTemperatures ==
  /\ pc = "reading"
  /\ \E f \in {frame, ZeroFrame} :
       /\ ReadRegisters(ReadoutBytes, f)
       /\ readout' = ParseTemperatures(f)
  /\ late' = (job # NoJob)
  /\ hasty' = (hasty \/ job # NoJob)
  /\ frame' = [frame EXCEPT !.items = [i \in DOMAIN @ |-> AsUsed(@[i])]]
  /\ pc' = "handling"
  /\ UNCHANGED <<readCoreVars, bus, sensor_ids, tries, job, found, sound>>

\* Here a frame that is too long for the request has a wrong checksum, too.
FetchTemperaturesFails ==
  /\ pc = "reading"
  /\ \/ Fault
     \/ job = NoJob /\ DataBytes(frame) > ReadoutBytes /\ UNCHANGED faults
  /\ Retry(pc' = "handling" /\ readout' = Err)
  /\ UNCHANGED <<readCoreVars, bus, sensor_ids, boardVars, historyVars>>

Roomy == \A p \in mapped : Len(events[p]) < MaxQueue

\* MUTANT of Place: temperatures are expected in the order of the mappings.
Place_Mappings(p) == Cardinality({q \in Ports : IndexIn(sensor_ids, q) <= IndexIn(sensor_ids, p)})

\* Where in a readout port p's temperature is expected.
Place(p) == IndexIn(sensor_ids, p)

\* MUTANT of HandleResults: an error is only logged.
HandleResults_OnlyLogs ==
  /\ pc = "handling"
  /\ Roomy
  /\ \/ readout = Err /\ UNCHANGED readCoreVars /\ pc' = "asleep"
     \/ /\ readout # Err /\ Len(readout) <= Len(sensor_ids)
        /\ LET told == {p \in Ports : Place(p) <= Len(readout)}
           IN  UpdatePorts(told, [p \in told |-> readout[Place(p)]])
        /\ pc' = "asleep"
     \/ /\ readout # Err /\ Len(readout) > Len(sensor_ids)
        /\ pc' = "down"
        /\ UNCHANGED readCoreVars
  /\ UNCHANGED <<bus, sensor_ids, tries, readout, boardVars, faults, historyVars>>

\* MUTANT of HandleResults: an error ends the thread.
HandleResults_Returns ==
  /\ pc = "handling"
  /\ Roomy
  /\ \/ /\ readout = Err
        /\ UpdateValues([p \in Ports |-> Err], TRUE, FALSE)
        /\ UNCHANGED pc
     \/ /\ readout # Err /\ Len(readout) <= Len(sensor_ids)
        /\ LET told == {p \in Ports : Place(p) <= Len(readout)}
           IN  UpdatePorts(told, [p \in told |-> readout[Place(p)]])
        /\ pc' = "asleep"
     \/ /\ readout # Err /\ Len(readout) > Len(sensor_ids)
        /\ pc' = "down"
        /\ UNCHANGED readCoreVars
  /\ UNCHANGED <<bus, sensor_ids, tries, readout, boardVars, faults, historyVars>>

(***************************************************************************)
(* The end of a round, under the core's lock: an error goes to all ports,  *)
(* the results to the ports of their sensors.  A readout shorter than the  *)
(* scan leaves the other ports as they are, a longer one is a panic.       *)
(***************************************************************************)
HandleResults ==
  /\ pc = "handling"
  /\ Roomy
  /\ \/ /\ readout = Err
        /\ UpdateValues([p \in Ports |-> Err], TRUE, FALSE)
        /\ pc' = "asleep"
     \/ /\ readout # Err /\ Len(readout) <= Len(sensor_ids)
        /\ LET told == {p \in Ports : Place(p) <= Len(readout)}
           IN  UpdatePorts(told, [p \in told |-> readout[Place(p)]])
        /\ pc' = "asleep"
     \/ /\ readout # Err /\ Len(readout) > Len(sensor_ids)
        /\ pc' = "down"
        /\ UNCHANGED readCoreVars
  /\ UNCHANGED <<bus, sensor_ids, tries, readout, boardVars, faults, historyVars>>
-----------------------------------------------------------------------------
(***************************************************************************)
(* The board.                                                              *)
(***************************************************************************)
\* A scan or a readout ends; sensors that do not answer are errors.
Complete ==
  /\ job # NoJob
  /\ job' = NoJob
  /\ \/ \E b \in 1 .. Buses :
          /\ job = Scan(b)
          /\ found' = [found EXCEPT ![b] = Wired[b]]
          /\ frame' = Frame("ids", Wired[b])
     \/ /\ job = Measure
        /\ \E silent \in SUBSET Silent :
             frame' = Frame("temperatures",
                            [i \in 1 .. Len(FlattenSeq(found)) |->
                               LET s == FlattenSeq(found)[i]
                               IN  IF s \in silent THEN Err ELSE <<s, "new">>])
        /\ UNCHANGED found
  /\ UNCHANGED <<readCoreVars, threadVars, faults, historyVars>>

\* The board loses power for a moment, and with it what it knew.
BoardReset ==
  /\ Fault
  /\ job' = NoJob /\ found' = [b \in 1 .. Buses |-> <<>>] /\ frame' = ZeroFrame
  /\ sound' = (sound /\ pc \notin {"scan", "scanning"})
  /\ UNCHANGED <<readCoreVars, threadVars, late, hasty>>

Thread ==
  \/ ScanBus \/ FetchIds \/ FetchIdsFails
  \/ InitReadout \/ FetchTemperatures \/ FetchTemperaturesFails \/ HandleResults

Next ==
  \/ \E p \in Ports : GetInputPort(p) \/ Consume(p)
  \/ Thread \/ Restart
  \/ Complete \/ BoardReset

Spec == Init /\ [][Next]_vars

\* The thread and the event tasks run on, the board finishes its commands, and a
\* process that ended is started again.
FairSpec ==
  /\ Spec
  /\ WF_vars(Thread) /\ WF_vars(Restart)
  /\ WF_vars(Complete)
  /\ \A p \in Ports : WF_vars(Consume(p))
-----------------------------------------------------------------------------
\* The IDs of the last bus are no longer than the temperatures of all sensors.
IdsFit == DataBytes(Frame("ids", Wired[Buses])) <= ReadoutBytes

\* The order of the IDs in a scan, the configured ports and the order of the results
\* in every readout fit together: after a sound scan a port never reports another
\* sensor's temperature, whatever fails, even if the board forgets its sensors.  What
\* it reports was not measured at all only if the IDs of the last bus are taken for
\* temperatures, for which they must fit and a readout must have been fetched too early.
RightSensor ==
  sound => \A p \in Ports :
    \/ device_values[p] \in {NoValue, Err} \cup ({SensorOf[p]} \X {"new", "used"})
    \/ device_values[p] = Junk /\ hasty /\ IdsFit

\* Every round that fails or has a result for every sensor tells each subscriber an
\* error or a temperature, one that was measured in this round if the answer was ready.
RoundsAreTold ==
  [][pc = "handling" /\ pc' = "asleep" /\ (readout = Err \/ Len(readout) = Len(sensor_ids)) =>
       \A p \in mapped :
         /\ Len(events'[p]) = Len(events[p]) + 1
         /\ sound /\ ~late => events'[p][Len(events'[p])] \in {Err, <<SensorOf[p], "new">>}]_vars

\* Whatever failed, readouts with a result for every sensor come again, unless the board
\* has lost or never told the sensors of the scan: the thread does not scan again.
ReadoutsRecover ==
  \/ []<>(pc = "handling" /\ readout # Err /\ Len(readout) = Len(sensor_ids))
  \/ <>[](sensor_ids # FlattenSeq(found))

\* NoWrongTemperature and AnswersFit, for the program as it starts: temperatures are
\* decoded right or refused, and answers fit the buffer.
Decoding == pc = "scan" /\ bus = 1 /\ faults = 0 => NoWrongTemperature /\ AnswersFit
=============================================================================
