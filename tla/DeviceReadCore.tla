--------------------------- MODULE DeviceReadCore ---------------------------
(***************************************************************************)
(* DeviceReadCore (src/device_core.rs): what every hardware device keeps   *)
(* about its ports -- the value last read from or written to the hardware, *)
(* and for each mapped port a queue of events and the waker of the task    *)
(* that waits for the next one.  The core lives behind a mutex; each       *)
(* operator below is the effect of one critical section, and the device    *)
(* modules say when it happens.                                            *)
(*                                                                         *)
(* An event is abstracted to what it carries: an Update event is the new   *)
(* value, an error event is Err.  Timestamps and messages are left out.    *)
(***************************************************************************)
EXTENDS Naturals, Sequences

CONSTANTS Ports,     \* indices of the device's ports
          Readings,  \* values an Ok(InputValue) can carry
          Err,       \* an Err(_), whatever its message
          NoValue    \* None: nothing known about the port yet

ASSUME ReadCoreAssumption ==
  /\ Err \notin Readings
  /\ NoValue \notin Readings
  /\ NoValue # Err

VARIABLES device_values, \* [Ports -> Results \cup {NoValue}]
          events,        \* queue per port, oldest first
          mapped,        \* ports whose queue exists (events[p].is_some())
          wakers,        \* ports whose consumer is parked on an empty queue
          received       \* the event each consumer's stream yielded last

readCoreVars == <<device_values, events, mapped, wakers, received>>

Results == Readings \cup {Err}

ReadCoreTypeOK ==
  /\ device_values \in [Ports -> Results \cup {NoValue}]
  /\ events \in [Ports -> Seq(Results)]
  /\ mapped \in SUBSET Ports
  /\ wakers \in SUBSET mapped
  /\ received \in [Ports -> Results \cup {NoValue}]

ReadCoreInit ==
  /\ device_values = [p \in Ports |-> NoValue]
  /\ events = [p \in Ports |-> <<>>]
  /\ mapped = {}
  /\ wakers = {}
  /\ received = [p \in Ports |-> NoValue]

(***************************************************************************)
(* set_up_events.  A second call for the same port is an Err that          *)
(* get_input_port and get_output_port turn into a panic, so p is new here. *)
(***************************************************************************)
SetUpEvents(p) ==
  /\ p \notin mapped
  /\ mapped' = mapped \cup {p}
  /\ events' = [events EXCEPT ![p] = <<>>]

\* MUTANT of GeneratesEvent: forgets that a port recovering from an error is news.
GeneratesEvent_ErrorSticks(old, new, force, suppress) ==
  \/ force
  \/ new = Err
  \/ old = NoValue
  \/ ~suppress /\ old # Err /\ old # new

(***************************************************************************)
(* Whether update_value_and_generate_events queues an event when a port    *)
(* that reported old reports new.  Errors are queued without looking at    *)
(* generate_event, so two equal errors in a row are two events.            *)
(***************************************************************************)
GeneratesEvent(old, new, force, suppress) ==
  \/ force
  \/ new = Err
  \/ old \in {NoValue, Err}
  \/ ~suppress /\ old # new

\* MUTANT of UpdateValues: an event is queued without waking its consumer.
UpdateValues_NoWake(new, force, suppress) ==
  /\ device_values' = [p \in Ports |-> IF p \in mapped THEN new[p] ELSE device_values[p]]
  /\ events' = [p \in Ports |->
                 IF p \in mapped /\ GeneratesEvent(device_values[p], new[p], force, suppress)
                 THEN Append(events[p], new[p])
                 ELSE events[p]]
  /\ UNCHANGED <<wakers, mapped, received>>

(***************************************************************************)
(* update_value_and_generate_events for every port, in one critical        *)
(* section: new gives the result of each port.  A port without a queue     *)
(* keeps no value either; every other consumer is woken, event or not.     *)
(***************************************************************************)
UpdateValues(new, force, suppress) ==
  /\ device_values' = [p \in Ports |-> IF p \in mapped THEN new[p] ELSE device_values[p]]
  /\ events' = [p \in Ports |->
                 IF p \in mapped /\ GeneratesEvent(device_values[p], new[p], force, suppress)
                 THEN Append(events[p], new[p])
                 ELSE events[p]]
  /\ wakers' = wakers \ mapped
  /\ UNCHANGED <<mapped, received>>

(***************************************************************************)
(* update_value_and_generate_events, forced, for some of the ports, in one *)
(* critical section.                                                       *)
(***************************************************************************)
UpdatePorts(told, new) ==
  /\ device_values' = [p \in Ports |-> IF p \in told \cap mapped THEN new[p] ELSE device_values[p]]
  /\ events' = [p \in Ports |-> IF p \in told \cap mapped THEN Append(events[p], new[p]) ELSE events[p]]
  /\ wakers' = wakers \ told
  /\ UNCHANGED <<mapped, received>>

(***************************************************************************)
(* poll_next of a port's stream (poll_events): pop the oldest event, or    *)
(* leave a waker and park.  A parked task polls again only once woken.     *)
(***************************************************************************)
PollEvents(p) ==
  /\ p \in mapped \ wakers
  /\ \/ /\ events[p] = <<>>
        /\ wakers' = wakers \cup {p}
        /\ UNCHANGED <<events, received>>
     \/ /\ events[p] # <<>>
        /\ events' = [events EXCEPT ![p] = Tail(@)]
        /\ received' = [received EXCEPT ![p] = Head(events[p])]
        /\ UNCHANGED wakers
  /\ UNCHANGED <<device_values, mapped>>

\* The event a subscriber of p has seen, or will see, last.
LatestEvent(p) == IF events[p] = <<>> THEN received[p] ELSE events[p][Len(events[p])]
=============================================================================
