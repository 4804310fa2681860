----------------------------- MODULE ButtonInput ----------------------------
(***************************************************************************)
(* The button inputs: MCP23017Input (src/mcp23017_input.rs) and the        *)
(* ButtonExpander (src/button_expander.rs).  A thread polls the pins and   *)
(* turns edges and long presses into Button events; bad readings are       *)
(* ignored, so that no press gets lost, and bus errors put an error on the *)
(* ports.  The queues are not drained here, so they hold the history of    *)
(* each port; EventPipeline has their consumers.  ButtonFrames has what    *)
(* the expander sends for a reading.                                       *)
(***************************************************************************)
EXTENDS DeviceReadCore, ButtonFrames

CONSTANTS On, Off,       \* readings of a pin
          Configured,    \* ports with an entry under "inputs" in the config
          Tolerance,     \* bus errors in a row until an expander's ports report them
          Second,        \* length of a second, in ticks
          Delays,        \* ticks between two readings
          MaxTime        \* bound: length of a behaviour, in ticks

ASSUME ButtonAssumption ==
  /\ Readings = {On, Off} /\ On # Off
  /\ Configured \subseteq Ports
  /\ Tolerance \in Nat \ {0} /\ Second \in Nat \ {0} /\ MaxTime \in Nat
  /\ Delays \subseteq Nat \ {0}

VARIABLES device,    \* which of the two it is: "mcp23017" or "expander"
          now,       \* the clock
          pc,        \* "polling", or "clearing" a watchdog reset
          down,      \* when each button went down, by the last Down event
          down_secs, \* seconds of the last LongPress of the current press
          bus_errors,\* consecutive bus errors
          read_at    \* history: time of the last reading that was used

deviceVars == <<pc, down, down_secs, bus_errors, read_at>>
vars == <<readCoreVars, device, now, deviceVars>>

\* A Button event: span is the duration of a Clicked, the seconds of a LongPress.
ButtonEvents == [button : {"down", "up", "clicked", "long"}, at : 0 .. MaxTime, span : 0 .. MaxTime]

\* Updates and errors are no Button events.
ASSUME EventsAssumption == Results \cap ButtonEvents = {}

TypeOK ==
  /\ device_values \in [Ports -> Results \cup {NoValue}]
  /\ events \in [Ports -> Seq(Results \cup ButtonEvents)]
  /\ mapped \in SUBSET Configured
  /\ device \in {"mcp23017", "expander"}
  /\ now \in 0 .. MaxTime
  /\ pc \in {"polling", "clearing"}
  /\ down \in [Ports -> 0 .. MaxTime]
  /\ down_secs \in [Ports -> 0 .. MaxTime]
  /\ bus_errors \in 0 .. MaxTime
  /\ read_at \in 0 .. MaxTime

\* new: every button counts as pressed since the device was created.
Init ==
  /\ ReadCoreInit
  /\ device \in {"mcp23017", "expander"}
  /\ now = 0
  /\ pc = "polling"
  /\ down = [p \in Ports |-> 0]
  /\ down_secs = [p \in Ports |-> 0]
  /\ bus_errors = 0
  /\ read_at = 0

\* get_input_port, while the thread already polls.
GetInputPort(p) ==
  /\ SetUpEvents(p)
  /\ UNCHANGED <<device_values, wakers, received, device, now, deviceVars>>

\* A wake-up of the polling loop, on time or late.
Tick ==
  /\ \E d \in Delays : now + d <= MaxTime /\ now' = now + d
  /\ UNCHANGED device

Known(p) == device_values[p] \in Readings
DownFor(p) == now' - down[p]

\* MUTANT of GoesDown: looks at the level instead of the edge.
GoesDown_Level(p, new) == Known(p) /\ new[p] = On

GoesDown(p, new) == Known(p) /\ new[p] = On /\ device_values[p] # On
GoesUp(p, new) == Known(p) /\ new[p] = Off /\ device_values[p] = On

\* Still down, and a whole second longer than at the last LongPress.
StaysDown(p, new) ==
  /\ Known(p) /\ new[p] = On /\ device_values[p] = On
  /\ DownFor(p) \div Second > down_secs[p]

\* The Button events of a port for a reading.
Pressing(p, new) ==
  CASE GoesDown(p, new) -> << [button |-> "down", at |-> now', span |-> 0] >>
    [] GoesUp(p, new) -> << [button |-> "up", at |-> now', span |-> 0],
                            [button |-> "clicked", at |-> now', span |-> DownFor(p)] >>
    [] StaysDown(p, new) -> << [button |-> "long", at |-> now',
                                span |-> DownFor(p) \div Second] >>
    [] OTHER -> <<>>

\* MUTANT of UpdateInner: a new press goes on counting the seconds of the last one.
UpdateInner_KeepsSeconds(new) ==
  /\ events' = [p \in Ports |->
                 IF p \in mapped
                 THEN events[p] \o Pressing(p, new) \o
                        IF GeneratesEvent(device_values[p], new[p], FALSE, FALSE)
                        THEN <<new[p]>> ELSE <<>>
                 ELSE events[p]]
  /\ device_values' = [p \in Ports |-> IF p \in mapped THEN new[p] ELSE device_values[p]]
  /\ down' = [p \in Ports |-> IF GoesDown(p, new) THEN now' ELSE down[p]]
  /\ down_secs' = [p \in Ports |-> IF StaysDown(p, new) THEN DownFor(p) \div Second ELSE down_secs[p]]
  /\ wakers' = wakers \ mapped
  /\ UNCHANGED <<mapped, received>>

\* MUTANT of UpdateInner: each LongPress restarts the clock of the press.
UpdateInner_RestartsClock(new) ==
  /\ events' = [p \in Ports |->
                 IF p \in mapped
                 THEN events[p] \o Pressing(p, new) \o
                        IF GeneratesEvent(device_values[p], new[p], FALSE, FALSE)
                        THEN <<new[p]>> ELSE <<>>
                 ELSE events[p]]
  /\ device_values' = [p \in Ports |-> IF p \in mapped THEN new[p] ELSE device_values[p]]
  /\ down' = [p \in Ports |-> IF GoesDown(p, new) \/ StaysDown(p, new) THEN now' ELSE down[p]]
  /\ down_secs' = [p \in Ports |-> IF GoesDown(p, new) THEN 0 ELSE down_secs[p]]
  /\ wakers' = wakers \ mapped
  /\ UNCHANGED <<mapped, received>>

(***************************************************************************)
(* update_inner, with the update_value_and_generate_events it ends with,   *)
(* under one lock: Button events first, then the Update.  Ports without a  *)
(* value (unmapped, or after an error) get no Button events.               *)
(***************************************************************************)
UpdateInner(new) ==
  /\ events' = [p \in Ports |->
                 IF p \in mapped
                 THEN events[p] \o Pressing(p, new) \o
                        IF GeneratesEvent(device_values[p], new[p], FALSE, FALSE)
                        THEN <<new[p]>> ELSE <<>>
                 ELSE events[p]]
  /\ device_values' = [p \in Ports |-> IF p \in mapped THEN new[p] ELSE device_values[p]]
  /\ down' = [p \in Ports |-> IF GoesDown(p, new) THEN now' ELSE down[p]]
  /\ down_secs' = [p \in Ports |-> IF GoesDown(p, new) THEN 0
                                   ELSE IF StaysDown(p, new) THEN DownFor(p) \div Second
                                   ELSE down_secs[p]]
  /\ wakers' = wakers \ mapped
  /\ UNCHANGED <<mapped, received>>

AllOnes == [p \in Ports |-> On]

\* A good reading, or on the MCP23017 any but all ones.
ReadPins ==
  /\ pc = "polling"
  /\ Tick
  /\ \E new \in [Ports -> Readings] :
       /\ device = "mcp23017" => new # AllOnes
       /\ UpdateInner(new)
  /\ bus_errors' = 0
  /\ read_at' = now'
  /\ UNCHANGED pc

\* All ones on the MCP23017, a checksum error of the expander: everything is left as it is.
IgnoreReading ==
  /\ pc = "polling"
  /\ Tick
  /\ bus_errors' = 0
  /\ UNCHANGED <<readCoreVars, pc, down, down_secs, read_at>>

\* set_error_on_all_ports: the MCP23017's ports report a bus error at once, those of
\* the expander only after a number of them in a row.
BusError ==
  /\ pc = "polling"
  /\ Tick
  /\ bus_errors' = bus_errors + 1
  /\ \/ /\ device = "mcp23017" \/ bus_errors' >= Tolerance
        /\ UpdateValues([p \in Ports |-> Err], TRUE, FALSE)
     \/ /\ device = "expander" /\ bus_errors' < Tolerance
        /\ UNCHANGED readCoreVars
  /\ UNCHANGED <<pc, down, down_secs, read_at>>

\* The reading says that the watchdog reset the board: start clearing that.
WatchdogReset ==
  /\ device = "expander"
  /\ pc = "polling"
  /\ Tick
  /\ pc' = "clearing"
  /\ bus_errors' = 0
  /\ UNCHANGED <<readCoreVars, down, down_secs, read_at>>

\* An attempt to clear the reset: reset_watchdog, then read again, without a pause;
\* the pins of the reading that shows it cleared are not used.
ClearWatchdog ==
  /\ pc = "clearing"
  /\ pc' \in {"polling", "clearing"}
  /\ UNCHANGED <<readCoreVars, device, now, down, down_secs, bus_errors, read_at>>

Next ==
  \/ \E p \in Configured : GetInputPort(p)
  \/ ReadPins
  \/ IgnoreReading
  \/ BusError
  \/ WatchdogReset
  \/ ClearWatchdog

Spec == Init /\ [][Next]_vars
-----------------------------------------------------------------------------
(***************************************************************************)
(* Properties of a port's event history.                                   *)
(***************************************************************************)
Is(p, i, b) == events[p][i] \in ButtonEvents /\ events[p][i].button = b
IsError(p, i) == events[p][i] = Err

Before(p, b1, b2) ==
  {ij \in (1 .. Len(events[p])) \X (1 .. Len(events[p])) :
     ij[1] < ij[2] /\ Is(p, ij[1], b1) /\ Is(p, ij[2], b2)}

Between(ij) == ij[1] + 1 .. ij[2] - 1

\* Presses and releases alternate, however many readings were ignored (the comment on
\* ChecksumError: "no (human-caused) events should get lost"): between two Downs of a
\* port there is an Up, between two Ups a Down, or an error that explains its absence.
EdgesAreSeparated ==
  \A p \in Ports :
    /\ \A ij \in Before(p, "down", "down") :
         \E k \in Between(ij) : Is(p, k, "up") \/ IsError(p, k)
    /\ \A ij \in Before(p, "up", "up") :
         \E k \in Between(ij) : Is(p, k, "down") \/ IsError(p, k)

\* A press is timed from its Down to its Up, over any number of readings ignored
\* in between, and whatever long presses it had.
ClickedTellsPress ==
  \A p \in Ports : \A ij \in Before(p, "down", "clicked") :
    (\A k \in Between(ij) : ~Is(p, k, "down") /\ ~IsError(p, k))
      => events[p][ij[2]].span = events[p][ij[2]].at - events[p][ij[1]].at

\* A button that is held has been announced as held for as many whole seconds as
\* it was at the last reading that counted, however late the loop woke up.
HeldIsAnnounced ==
  \A p \in Ports : \A i \in 1 .. Len(events[p]) :
    LET later == i + 1 .. Len(events[p])
        longs == {k \in later : Is(p, k, "long")}
        held  == (read_at - events[p][i].at) \div Second
    IN  Is(p, i, "down") /\ (\A k \in later : ~Is(p, k, "up") /\ ~IsError(p, k))
          => IF longs = {} THEN held = 0
             ELSE \E k \in longs : events[p][k].span = held /\ \A m \in longs : m <= k

\* The README's "clicks (down+up)": each Clicked follows a Down of the same press.
ClicksHaveDowns ==
  \A p \in Ports : \A j \in 1 .. Len(events[p]) :
    Is(p, j, "clicked")
      => \E i \in 1 .. j - 2 : Is(p, i, "down") /\ \A k \in i .. j - 2 : ~Is(p, k, "up")

\* The frames of the button expander (ButtonFrames): a stuck data line does not pass for
\* other buttons, and one good transmission of three has every pin at its port.
FramesTellThePins == device = "expander" => StuckLineNeverLies /\ OneTransmissionIsEnough
=============================================================================
