---------------------------- MODULE EventPipeline ---------------------------
(***************************************************************************)
(* The way of an event (src/device_core.rs, src/device.rs): a device       *)
(* thread updates its core, one task per mapped port drains the port's     *)
(* queue, keeps the port's last value for GET requests and publishes every *)
(* event to AMQP.  A publisher error ends the task of its port for good, a *)
(* panic anywhere or a failed start ends the process (src/main.rs).        *)
(***************************************************************************)
EXTENDS DeviceReadCore

CONSTANTS MaxReadings, \* bound: results the device produces
          MaxFaults    \* bound: publications the broker refuses

ASSUME PipelineAssumption == MaxReadings \in Nat /\ MaxFaults \in Nat

VARIABLES task,       \* each port's task: "unborn", "polling", "recording", ...
          last_value, \* PortState::last_value
          published,  \* what the broker accepted, per port
          generated,  \* history: the events queued for each port
          readings,   \* results so far
          faults,     \* refused publications so far
          up          \* the process runs

vars == <<readCoreVars, task, last_value, published, generated, readings, faults, up>>

TypeOK ==
  /\ ReadCoreTypeOK
  /\ task \in [Ports -> {"unborn", "polling", "recording", "publishing", "dead"}]
  /\ last_value \in [Ports -> Results \cup {NoValue}]
  /\ published \in [Ports -> Seq(Results)]
  /\ generated \in [Ports -> Seq(Results)]
  /\ readings \in 0 .. MaxReadings
  /\ faults \in 0 .. MaxFaults
  /\ up \in BOOLEAN

Init ==
  /\ ReadCoreInit
  /\ task = [p \in Ports |-> "unborn"]
  /\ last_value = [p \in Ports |-> NoValue]
  /\ published = [p \in Ports |-> <<>>]
  /\ generated = [p \in Ports |-> <<>>]
  /\ readings = 0
  /\ faults = 0
  /\ up = TRUE

\* Startup: create the queue and spawn the port's task; the device already runs.
MapPort(p) ==
  /\ up
  /\ task[p] = "unborn"
  /\ SetUpEvents(p)
  /\ task' = [task EXCEPT ![p] = "polling"]
  /\ UNCHANGED <<device_values, wakers, received, last_value, published, generated, readings,
                 faults, up>>

\* The device thread reports a result for each port.  Sensors force an event for
\* each reading, expanders and GPIOs do not; only the PCA9685 suppresses Updates.
Report ==
  /\ up
  /\ readings < MaxReadings
  /\ \E new \in [Ports -> Results], force \in BOOLEAN :
       /\ UpdateValues(new, force, FALSE)
       /\ generated' = [p \in Ports |-> generated[p] \o
                          SubSeq(events'[p], Len(events[p]) + 1, Len(events'[p]))]
  /\ readings' = readings + 1
  /\ UNCHANGED <<task, last_value, published, faults, up>>

\* event_stream.next(): the task gets an event, or parks until it is woken.
NextEvent(p) ==
  /\ up
  /\ task[p] = "polling"
  /\ PollEvents(p)
  /\ task' = [task EXCEPT ![p] = IF events[p] = <<>> THEN "polling" ELSE "recording"]
  /\ UNCHANGED <<last_value, published, generated, readings, faults, up>>

\* MUTANT of Record: only values are recorded, errors are just published.
Record_ValuesOnly(p) ==
  /\ up
  /\ task[p] = "recording"
  /\ last_value' = [last_value EXCEPT ![p] = IF received[p] = Err THEN @ ELSE received[p]]
  /\ task' = [task EXCEPT ![p] = "publishing"]
  /\ UNCHANGED <<readCoreVars, published, generated, readings, faults, up>>

\* update_last_value with an Update or an error event.
Record(p) ==
  /\ up
  /\ task[p] = "recording"
  /\ last_value' = [last_value EXCEPT ![p] = received[p]]
  /\ task' = [task EXCEPT ![p] = "publishing"]
  /\ UNCHANGED <<readCoreVars, published, generated, readings, faults, up>>

\* publish_event succeeds: back to the top of the loop.
PublishSucceeds(p) ==
  /\ up
  /\ task[p] = "publishing"
  /\ published' = [published EXCEPT ![p] = Append(@, received[p])]
  /\ task' = [task EXCEPT ![p] = "polling"]
  /\ UNCHANGED <<readCoreVars, last_value, generated, readings, faults, up>>

\* MUTANT of PublishFails: the event is dropped and the loop goes on.
PublishFails_Skips(p) ==
  /\ up
  /\ task[p] = "publishing"
  /\ faults < MaxFaults
  /\ faults' = faults + 1
  /\ task' = [task EXCEPT ![p] = "polling"]
  /\ UNCHANGED <<readCoreVars, last_value, published, generated, readings, up>>

\* publish_event fails: the task logs the error and returns.
PublishFails(p) ==
  /\ up
  /\ task[p] = "publishing"
  /\ faults < MaxFaults
  /\ faults' = faults + 1
  /\ task' = [task EXCEPT ![p] = "dead"]
  /\ UNCHANGED <<readCoreVars, last_value, published, generated, readings, up>>

\* The hook of main: the process exits, and every task with it.
ProcessEnds ==
  /\ up
  /\ up' = FALSE
  /\ UNCHANGED <<readCoreVars, task, last_value, published, generated, readings, faults>>

Task(p) == NextEvent(p) \/ Record(p) \/ PublishSucceeds(p)

Next ==
  \/ \E p \in Ports : MapPort(p) \/ Task(p) \/ PublishFails(p)
  \/ Report
  \/ ProcessEnds

Spec == Init /\ [][Next]_vars
-----------------------------------------------------------------------------
(***************************************************************************)
(* Properties.                                                             *)
(***************************************************************************)
\* The event a task has taken from the queue and not yet published.
InHand(p) == IF task[p] \in {"recording", "publishing", "dead"} THEN <<received[p]>> ELSE <<>>

\* Each event is published once and in order: what the broker has, what the task
\* holds and what is queued are the events generated, in this order.  A dead
\* task loses the event in its hand and everything after it, nothing before.
InOrderOnce == \A p \in Ports : generated[p] = published[p] \o InHand(p) \o events[p]

\* No missed wake-up, and what GET /universe/last_values shows is what the device
\* reports or an event on the way says so: a parked task has taken everything and has
\* recorded the latest report.
ParkedMeansRecorded == \A p \in wakers : events[p] = <<>> /\ last_value[p] = device_values[p]

\* Every report arrives at GET, unless the device reports something else first, the
\* port's task has died of a refused publication, or the process has ended.
ReportsArrive ==
  \A p \in Ports : \A r \in Results :
    p \in mapped /\ device_values[p] = r
      ~> last_value[p] = r \/ device_values[p] # r \/ task[p] = "dead" \/ ~up
=============================================================================
