# Submarine in TLA+

Models, model-checking runs and proofs about
[submarine](../src/README.md), a program that runs on a Raspberry Pi,
drives hardware over I2C, GPIO and HTTP, takes set requests over HTTP and
publishes events to AMQP. Source positions are relative to `src/src/` unless
they say otherwise.

## 1. The system

| component | state it keeps | operations | interacts with |
|---|---|---|---|
| device core (`device_core.rs`) | per port: last value, event queue, waker; output devices also a buffer and a dirty bit; one mutex around all of it | `set_up_events`, `update_value_and_generate_events`, `set_error_on_all_ports`, `poll_events`, `set`, `finish_update` | every device thread, every event task, the HTTP handler |
| MCP23017 output (`mcp23017.rs`) | a condition variable, the chip's latches | `update` notifies; a thread waits, copies, writes, reports | core mutex, condition variable, I2C bus |
| PCA9685 output (`pca9685.rs`, `poll.rs`) | whether the oscillator runs, the time of the last change | a thread polls, writes, puts the chip to sleep, restarts it | core mutex, I2C bus |
| synchronized PCA9685s (`pca9685_sync.rs`) | the same for each chip of a bus | one thread serves all of them in turn | core mutexes, I2C bus |
| Tasmota relays (`tasmota_relay_expander.rs`) | a channel that holds one update | `update` takes the buffer and spawns a blocking sender; a task writes each update with an HTTP request | core mutex, channel, HTTP device |
| universe (`device.rs`, `http.rs`, `main.rs`) | devices, aliases, addresses, the universe mutex | startup: create devices, map ports, set defaults, spawn event tasks; then GET and POST requests; a panic of any thread ends the process | all devices |
| event tasks (`device.rs:505`) | last value of each port | take an event, record it, publish it | core queue and waker, AMQP publisher |
| button inputs (`mcp23017_input.rs`, `button_expander.rs`) | when each button went down, seconds of its last long press | a thread polls the pins, turns edges into events, ignores bad readings | core mutex, I2C bus |
| GPIO, DS18, DHT22, BME280 sensors | none or retry counters | a thread reads and reports | core mutex, GPIO, I2C, sysfs |
| DHT22 and DS18B20 expanders | readout counters; the board has a state of its own | a thread starts a readout, waits, fetches and decodes it, clears watchdog resets | core mutex, I2C bus |
| configuration (`config.rs`) | none after start | reads YAML files, joins their devices, refuses equal aliases | universe startup |
| metrics, logging, I2C mock | counters and log lines | | nothing reads them |

What is hard here: every device has a thread (or task) of its own that works on
a copy of the core while requests change the original; wake-ups pass through a
condition variable, a channel and the wakers of asynchronous tasks; writes fail
half done and are retried; readings fail and are ignored or reported; boards
with a life of their own answer late, or what was asked before; and what
clients and subscribers are told has to agree with all of it. There is no
persistent state, so a crash loses everything but what the hardware holds: the
models start from hardware in any state, and where a board works on while the
process restarts, the restart is an action.

What makes the components correct:

* **core**: a subscriber's latest event is what the device reports; no event is
  queued without waking its consumer;
* **output devices**: nothing set is forgotten, a superseded buffer never
  comes back, what is reported was written, failures are reported and retried;
* **universe**: an acknowledged request takes effect; an address or an alias
  leads to one port, which is the same for every kind of request;
* **event tasks**: events are published once and in order, the last values
  follow the reports, and a GET is not behind the broker;
* **button inputs**: Down, Up, Clicked and LongPress tell one consistent story
  of each press, ignored readings notwithstanding;
* **sensors and expanders**: a reported measurement was taken in this round by
  the sensor the port is configured for, and that was powered, frames with errors are not reported as values,
  implausible jumps are confirmed by a reset, one failure does not stop later
  readouts.

## 2. Modules

```
DeviceReadCore          the read core (EXTENDS nothing of ours)
 +- DeviceRWCore        buffer and dirty bit on top of it
 |   +- OutputUniverse  startup, set requests and event tasks around one device
 |       +- Mcp23017Output   } each adds its worker, `update`, the hardware,
 |       +- Pca9685Output    } Next, fairness and properties
 |       +- TasmotaOutput    }
 +- EventPipeline       core, event tasks, last values, broker, end of the process
 |   +- Universe        configurations, startup of many devices, GET requests
 +- ButtonInput         polling loop and button events
 +- Dht22Expander       readout protocol between thread and board
 +- Ds18b20Expander     scan, readouts and restarts, thread against board
 +- SensorInput         loops of BME280, DHT22, DS18 and Gpio
ButtonFrames            wire format of the button expander (operators)
Dht22Frames             decoding of a DHT22's pulses (operators)
Ds18b20Frames           frames of the DS18B20 expander (operators)
OutputDevice            abstract: what an output device promises
```

`ButtonInput` extends `ButtonFrames`, `SensorInput` extends `Dht22Frames`: a
device's loop and its wire format are checked in one run. `Ds18b20Expander` is an instance of `Ds18b20Frames`, because its
frames are part of its state. `MC*.tla` give constants their values for TLC.
`*_proofs.tla` hold theorems (section 5).
Operators whose comment starts with `MUTANT` are deliberate errors, each a
plausible bug of the definition after it; substituting one makes a property
fail. They are not part of any specification.

**DeviceReadCore** has `device_values`, `events`, `wakers` as in the struct,
with `mapped` for "the queue exists" and `received` for the event a consumer
got last. Each operator is one critical section. Values and errors are
elements of small sets; an Update event is its value, an error event is `Err`
(two errors with different messages are the same here, which changes nothing:
an error is queued unconditionally). `UpdateValues` covers the loops over all
ports in `update_and_generate_events` and `set_error_on_all_ports`, which run
under one lock; `UpdatePorts` covers the loop over the ports that a DS18B20
readout has results for.

**DeviceRWCore** adds `buffered_values` and `dirty`; `finish_update` gets what
the worker wrote, or a failure, which makes the core dirty again.

**OutputUniverse** is the environment of an output device: `MapPort` and
`SetDefault` are one iteration of `create_output_port_mappings` (the worker
runs already), `ReceiveRequest`, `SetAddress`, `RejectAlias` and
`AnswerRequest` are `handle_set_requests` under the universe mutex, one action
for each time the core's lock is taken, and `PollStream` is the stream of an
event task. The devices conjoin their `update` with `AnswerRequest`: the
response is the next thing after it.

**Mcp23017Output**: `Take`, `Wait`, `SpuriousWakeup`, `WriteSucceeds`,
`WriteFails` and `Finish` are the loop of `handle_update_async` cut where it
takes or releases the lock. A failed write leaves any subset of the latches
changed. Initially the latches are arbitrary.

**Pca9685Output**: `Begin` (`poll_loop_begin`), then one of `LeaveAlone`,
`PutToSleep`, `Restart`, `WriteSucceeds`, `WriteFails`
(`handle_update_async_inner_outer`), then `Finish` (`poll_loop_end`). Elapsed
time is not modelled: a clean round may or may not be long enough after the
last change. The chip's oscillator (`awake`) and the program's belief
(`device_enabled`) are separate: a sleep or a restart that fails may have taken
effect or not, and the program believes it did not. `unnoticed` is a history: a
sleep command took effect although it failed, and none has succeeded since.
`Linear` is the linear scaling; the logarithmic one (floating point) is
left to the constant `Level`. Synchronized PCA9685s (`pca9685_sync.rs`) share
a thread that calls the same functions for one chip after another, with no
state in common but the loop. The model is one of them: its worker is `unborn`
until `StartSynchronized`, when the ports of all devices are mapped, and the
time the thread spends on the others is time this worker sleeps.

**TasmotaOutput**: `Update` takes the values of the mapped ports, `Send` is any
of the blocking tasks getting into the channel, `Receive`, `WriteSucceeds`,
`WriteFails`, `Finish` are the worker task. Updates are numbered by the
request they belong to, only so that properties can speak about their order.

**EventPipeline**: any device reporting any results, forced or not; the task of
a port is `NextEvent`, `Record`, `PublishSucceeds` or `PublishFails`, after
which it is dead. Button events pass through the same queue and are not
recorded in the last value; they are left out here. `ProcessEnds` is the panic
hook of `main`: nothing happens after it.

**Universe** extends the pipeline, whose device is now one of several.
`UniverseInit` chooses a configuration, that is a sequence of device files with
their aliases, mappings and groups of synchronized chips. `CreateDevice`,
`MapNext` and `Serve` are the iterations of `create_universe_state` and of the
two `create_*_port_mappings`, each with its errors, after which the process
`Dies`. Names are model values with `Lower` for `to_lowercase` and `PortAlias`
for the alias made of the device's and the port's. `GetLastValues` and
`ShowNext` are `get_all_last_values`, cut where it takes the lock of the next
port; event tasks run in between. `Pipeline` is everything the pipeline does.

**ButtonInput** is both button devices; the variable `device` says which one a
behaviour is about. `UpdateInner` is `update_inner` with the core update it
ends with. The queues have no consumer here, so that they are the history the
properties look at. `Tolerance` is 10000 in the source.

**ButtonFrames** is `mod device` of `button_expander.rs` with bytes as numbers:
the rotations, the checksum, the permutation of pins and the choice among three
transmissions. The reference definitions are the table of pins in the comment of
`reorder_pin_positions` and `Sent`, what a board must send for the decoder to
accept it. Arithmetic wraps, as in a release build.

**Dht22Expander** is the loop of `run` cut at every bus operation. The board is
known only from what the thread reads and writes (status bits, power of the
sensors, results), and is modelled as freely as that allows: readouts of any
length, resets by its watchdog at any time, bus errors with or without effect.
A measurement is "new", "used" by an earlier round or "junk" (the zeros after a
reset, which pass the checksum). Seconds are counted per round (`spent`) and
since power-on (`on_for`), because a bonus sleep has to make up for a wake-up
that is counted from the last one.

**Ds18b20Expander** starts before the device exists: `ScanBus`, `FetchIds` and
`FetchIdsFails` are `scan_for_devices`, at the end of which `new` looks up every
configured sensor. Then `InitReadout`, `FetchTemperatures`,
`FetchTemperaturesFails` and `HandleResults` are the rounds of `run`. The board
(`Complete`, `BoardReset`) answers when it likes and forgets its sensors when it
loses power. A transfer fetches the frame that is there, zeros, or fails; a
fetch before the board is done is a fault, of which there are `MaxFaults`. A
frame is the kind of its items and the items: IDs, temperatures of this or an
earlier measurement, errors of single sensors. It knows its length, so that an
answer of the wrong kind is cut to `Junk` as in the code: nothing in a frame says
which command it answers, so the IDs of the last bus pass for temperatures where
they fit into a readout. `Restart` is a new process on the same board. Three
histories record what the board did, and change no step: `sound` (the scan was
answered in time and in full), `late` (the answer of this round was fetched before
it was ready) and `hasty` (so was that of some round of this process).

**Ds18b20Frames** has the lengths, what the parsers make of the bytes of
either kind of frame, and the decoding of one 16-bit word.

**SensorInput** has the loops of four devices; `device` says which one a
behaviour is about. A reading is one number for all ports of the device. A
BME280 may get `stuck` at another number until it is initialised; a DHT22's
readout may end in a reading, an error, an implausible reading that is dropped,
or a timeout, and the line may stay low.

**Dht22Frames** has the pulses of a frame as lengths in microseconds and both
decoders: the first, which counts loop iterations and compares with a mean, and
the second, which takes times and puts back a missed pulse. The loops that
record pulses are abstracted to the pulses they record. `FramesAssumption` says
what a sensor can send: a humidity of up to 100 %, which is what the code accepts,
and a temperature whose magnitude fits into the fifteen bits it has.

**OutputDevice** is the abstraction: `wanted` is what was set last, `pending`
the buffers that may still reach the outputs, `outputs` the hardware. `Write`
puts a whole pending buffer on the outputs and leaves only the wanted one
pending; `Tear` is a failed write. The refinement maps `pending` to the
current buffer and the copy in the worker's hands.

## 3. Runs

All are exhaustive. States are those of the given bounds.

| run | what it shows | states |
|---|---|---|
| `mcp23017` | two ports, three values of which two mean "on", one default, two requests out of three (two ports at once, one with an alias behind a valid entry), one failed write | 117,000 |
| `pca9685` | one configured port and one that is an invalid address, three values of which two have the same on-time, two requests, two failed commands (a failed sleep, with or without effect, and a failed restart or write) | 101,000 |
| `tasmota` | two relays, three requests (one writing, one in the channel, one in a sender), one failure | 43,000 |
| `universe` | one right configuration and seven with one thing wrong each (equal aliases of devices, of ports, in other case; a port mapped twice; inputs of an output device; groups with other intervals or none), three devices with up to four ports, four reports on the followed one, one refused publication, GETs and panics at any time | 191,000 |
| `buttons` | one mapped pin and one unmapped, nine ticks of half a second, polls on time or a second late, all readings and errors | 89,000 |
| | and the frames of 4,472 pairs of register contents, each data line stuck at each level | |
| `dht22_expander` | one sensor, power cycles after 1, 2, 3 readouts or never, two faults, steps on time or a second late, a counter of 8 values | 262,000 |
| `ds18b20_expander` | four buses, one of them empty and one with two sensors; two of the four sensors are configured, two tries per fetch, two faults, one event per queue, any number of restarts | 179,000 |
| | and every measurable temperature in both representations of a sign | |
| `sensors` | four devices with up to two mapped ports, three measurements of which two are near, three disturbances, periodic resets every two readouts or never | 160,000 |
| | and the frames of 20 measurements, each pulse missed | |
| `mcp23017_flush` | violated: a default is never flushed | |
| `pca9685_events` | violated: a written value without an event | |
| `tasmota_order` | violated: the relays end at older values | |
| `buttons_clicks` | violated: a click without a Down | |

**Output devices.** `CleanMeansWritten` is the point of the dirty bit: when a
worker is between two writes and the bit is clear, the hardware shows the
buffer. It would be broken by clearing the bit after the write, by reading and
clearing under different locks, by an error that does not set it again.
For the Tasmota relays it holds only when the newest update was written last,
`CleanMeansWrittenInOrder`. `ReportedMeansWritten` says that a reported value
is on the hardware, except between a write and its report;
`SubscriberUpToDate` that the last event is the report (for the PCA9685 only
as far as errors go, `SubscriberKnowsErrors`).
`AcknowledgedIsAwake` excludes the lost wake-up. `WritesWhileAwake` excludes
writes that do not show, and `ChangesAreShown` says that what is set is written to
a running chip in the end. Neither can be had without an exception, `unnoticed`:
the code writes to a chip that was put to sleep by a command that failed (section
4). What the properties add is that nothing else leads there, no other failed
sleep, restart or write in any order, and that a sleep that succeeds ends it.
`ImplementsOutputDevice` is the refinement. Liveness:
`AcknowledgedIsWritten`, `ChangesAreShown`, `UpdatesAreWritten`.

**Event tasks and universe.** `InOrderOnce` equates all events generated with
those published, in hand and queued, in this order. `ParkedMeansRecorded` is
the waker protocol up to the last values: a task that waits has recorded what
the device reports. `ReportsArrive` is the liveness of the whole chain.
`AddressesAgree` says that the addresses told to clients are unique and that a
set request finds at them exactly the outputs. `GetIsNotBehind` relates a GET
to the broker: when it is answered, it has under the alias of each port an
event at least as new as the last one published before the request came; an
answer is not a snapshot, and none is claimed.

**Buttons.** `EdgesAreSeparated`, `ClickedTellsPress` and `HeldIsAnnounced` are
about the event history of a port; errors in the history excuse a missing edge,
ignored readings do not.

**Wire formats.** `FramesTellThePins` says that nine bytes with one bit position
forced to a level never pass for other buttons, which is what the rotations are
for, and that any one transmission puts every pin of the table on its port.
`MissedPulse` says that both drivers return what the sensor measured, signs
included, in any unit of counts, that the second driver's repair restores the
measurement for whichever high pulse was missed, and that no missed pulse, high
or low, becomes a wrong reading that `do_read_sensor` accepts (some frames have
a correct checksum and are only caught by the humidity). The runs evaluate both
for some registers and measurements, the proofs show them for all (section 5). `Decoding` says that
no temperature of a DS18B20 becomes another one, although the code reads sign
and magnitude and the sensor's own format is two's complement, and that a
request for any number of sensors fits into the buffer.

**DS18B20 expander.** `RightSensor`: after a sound scan a port never reports
another sensor's temperature, whatever is fetched late, cut or lost; the scan is
sound if each answer was fetched when it was ready, which the code assumes of a
board that has two seconds. The exception, which the instance reaches, is a
temperature that nobody measured: the IDs of the last bus (section 4). It
needs a readout fetched too early and IDs that fit into a readout. `RoundsAreTold`: a round that fails, or has a result
for every sensor, is an event for every subscriber, and one that was measured in
this round if the answer was ready. `ReadoutsRecover`: complete readouts come
again and again, unless the board has lost the sensors of the scan for good: the
thread never scans again, and a shorter readout leaves the last values.

**DHT22 expander.** `FreshReports`: what is reported was measured in the round
that reports it. `SensorsSettled`: whatever failed in a power cycle, a readout
starts with sensors that have had power for two seconds. `CycledInTime`: no
more readouts than configured without a power cycle. Both need conditions that
the instance meets and the code does not enforce. `Punctual`: two steps in a row
are late together by no more than the readout interval; the bonus sleep makes up
for the cycle itself, so that a thread that is held up longer between waking up
and power-up reads sensors that have not settled (the least interval is two
seconds). `CounterSuffices`: every failed power cycle is counted
like a readout, and after about 65,500 of them in a row the counter is back at
zero and the next round reads instead of power cycling. With delays of two
seconds, or a counter of four values, TLC finds either property violated.
`ReadoutsGoOn`: after the last fault results are fetched again and again.

**Sensors.** `JumpsAreConfirmed`: two reports of a BME280 that are far apart
have an initialisation of the chip between them, errors in between or not.
`ResetInTime`: periodic resets are not put off by one that failed.
`ReadingsRecover`: once disturbances end, ports show what is measured (unless a
BME280 is stuck at a plausible value and no periodic resets are configured).

**Bounds.** Two ports are the least for which a buffer can be torn or mixed up;
two values with one level (1 and 2 on the MCP23017, 0 and 1 on the PCA9685)
tell the dirty bit, which compares values, from the hardware, which shows
levels. The protocols between core and worker have no state that grows with
the number of requests; two of them, with the defaults, let a set fall into a
write and into its retry. `MaxRequests`, `MaxFaults`, `MaxReadings`,
`MaxQueue` and `MaxTime` are the only bounds on behaviours. Two faults let a fault hit the
recovery from another (a failed second write of a power cycle, then a failed
retry; a reset, then a failed clearing of its flag); three let an error come
between two jumps of a pressure. Three measurements 0, 1, 3 with a threshold of
two have a step that is a jump and one that is not, in both directions. On the
DS18B20 expander an unconfigured sensor lies between the two configured ones,
whose order differs from that of the buses, so that places and ports differ. The
ID on the last bus is as long as the temperatures of all four sensors, so that it
passes for a readout. `Silent`, the sensors that may fail to answer, are the two
configured ones: only their errors are told to anybody.
Each wrong configuration of the universe differs from the right one in the one
thing a check is for. The
register contents are multiples of 5 and 3, zeros and ones included; the
frames include data whose damaged frames have a correct checksum. Counters of
readouts wrap at eight instead of 65536, which is above every power-cycle
interval tried.

**Fairness.** (`ReportsArrive` assumes it of the event tasks only; in
`ds18b20_expander` it is that of the thread, of the event tasks, of the board's
commands, which end, and of whoever restarts the process. `ReadoutsGoOn` and `ReadingsRecover` also assume that the board
of a DHT22 expander finishes its readouts and that the line of a DHT22 rises in
the end: the code waits for the first only once per round, for the second
without a timeout.) Threads and spawned tasks are weakly fair: the scheduler does not
leave them out forever, sleeps end, HTTP and I2C calls return. Failures,
client requests, spurious wake-ups and sensor readings are not fair. Where a
failure competes with a success, the bound on failures stands for "the
hardware works again at some time". The Tasmota worker has no request
timeout, so for it fairness also assumes that the device answers or the
connection breaks.

`CHECK_DEADLOCK FALSE` is given where the system rests once the bounded
requests, reports or ticks are used up; in the other runs a worker or a thread
always has a next step.

## 4. Where the code does something else than its documentation

* **Defaults are not flushed** (`device.rs:458`). The MCP23017's worker starts
  dirty and writes zeros while ports are still being mapped; the default that
  follows makes the core dirty and notifies nobody. `README.md:105` promises
  a flush "as soon as a new value is written". The next successful request
  repairs it. The same happens to the entries before an alias in a set request
  (`http.rs:170`), which returns without an update.
* **The PCA9685 announces nothing** (`pca9685.rs:180`). Update events are
  suppressed; `README.md:26` says that they are generated.
* **Tasmota updates can overtake each other** (`tasmota_relay_expander.rs:225`).
  Blocking tasks race for the channel. Once the older update is written last,
  relays differ from the buffer, the core is clean, and setting the same value
  again changes nothing.
* **Clicks without a Down** (`mcp23017_input.rs:270`), when the button was held
  at the first reading or during an error; `README.md:31` says a click is down
  and up.

Other things the models made visible, without a run of their own:

* `power_cycle_every_n_readouts` counts the round of the power cycle itself, so
  that there are n − 1 readouts between two cycles, and with n = 1, which is
  accepted, none at all (`dht22_expander.rs:215`).
* Both DHT22 drivers return before `set_default_priority` after a timeout
  (`dht22_lib.rs:175` and 196); the thread keeps its priority until a readout
  that does not time out.
* `config.rs:36` says that later `program` blocks cause errors; device files
  have no such field and a block in them is ignored.
* A DS18B20 expander is scanned once. A board that loses its memory answers
  with no temperatures, which is a success and tells nobody; one that reports
  more than the scan found is an index out of range, which ends the process.
* The IDs of the last bus are in the registers of the DS18B20 expander until its
  first readout ends, and nothing in a frame says what it is
  (`ds18b20_expander_lib.rs:163` and 210). If they are as long as the temperatures
  of all sensors (eight bytes: one sensor on each of four buses) and the first
  readout is fetched before it is ready, ports report pieces of an ID as
  temperatures.
* A sleep command of the PCA9685 may take effect and yet return an error
  (`pca9685.rs:204`). `device_enabled` stays true, so following changes are written
  without a restart (line 215) and reported, but the outputs stay off, until a
  later sleep succeeds and the change after it restarts the chip.
* A readout that cannot be started leaves the ports of a DHT22 expander at
  their last values; only a failed fetch reports an error
  (`dht22_expander.rs:247`).
* Nine zero bytes pass the checksum of the button expander and a frame of zeros
  passes that of the DS18B20 expander.
* In a build with overflow checks `button_expander.rs:170` panics for about
  half of all readings and `dht22_expander.rs:211` after 65535 rounds without
  a power cycle.

## 5. Proofs

All theorems hold for every value of the constants that the named assumptions
of the modules allow: any ports, values, configurations, requests, intervals,
bounds, numbers of faults and restarts. There is a module of proofs for each
component; it begins with lemmas about the operators of the core and, for output
devices, of the universe, which the theorems cite.

| module | theorem | property | inductive invariant |
|---|---|---|---|
| `Mcp23017Output_proofs` | `TypeCorrect` | `TypeOK` | itself |
| | `CleanIsWritten` | `CleanMeansWritten` | `WriteInv` |
| | `NoLostWakeup` | `AcknowledgedIsAwake` | `AwakeInv` |
| | `SubscribersUpToDate` | `SubscriberUpToDate` | `StreamInv` |
| | `ReportedIsWritten` | `ReportedMeansWritten` | `WriteInv`, `StreamInv` |
| | `Refinement` | `ImplementsOutputDevice` | `TypeOK` |
| `Pca9685Output_proofs` | `TypeCorrect` | `TypeOK` | itself |
| | `CleanIsWritten` | `CleanMeansWritten` | `WriteInv` |
| | `AwakeForWrites` | `WritesWhileAwake` | `EnabledInv` |
| | `ErrorsAreKnown` | `SubscriberKnowsErrors` | `ErrorInv` |
| | `Refinement` | `ImplementsOutputDevice` | `TypeOK` |
| `TasmotaOutput_proofs` | `TypeCorrect` | `TypeOK` | itself |
| | `CleanIsWrittenInOrder` | `CleanMeansWrittenInOrder` | `NumbersInv`, `NewestInv`, `RelaysInv` |
| `Universe_proofs` | `TypeCorrect` (of `EventPipeline`) | | `TypeInv`, with `TaskInv` |
| | `PublishedInOrder` | `InOrderOnce` | itself, with `TaskInv` |
| | `NoMissedWakeup` | `ParkedMeansRecorded` | `RecordInv` |
| | `IsEventPipeline` | | |
| | `UniversePublishesInOrder` | `InOrderOnce` | from `EventPipeline` |
| | `UniverseMissesNoWakeup` | `ParkedMeansRecorded` | from `EventPipeline` |
| | `UniverseTypeCorrect` | | `UniverseTypeInv` |
| | `AddressesAreUnique` | `AddressesAgree` | `AddressInv` |
| | `LastValuesAreNotBehind` | `GetIsNotBehind` | `LastInv`, `GetInv` |
| `ButtonInput_proofs` | `TypeCorrect` | | `TypeInv` |
| | `EdgesSeparated` | `EdgesAreSeparated` | `HistoryInv` |
| | `ClicksTellPresses` | `ClickedTellsPress` | `HistoryInv` |
| | `HeldAnnounced` | `HeldIsAnnounced` | `HistoryInv` |
| | `FramesAreTrusted` | `FramesTellThePins` | none: a constant fact |
| `Dht22Expander_proofs` | `TypeCorrect` | `TypeOK` | `TypeInv` |
| | `ReportsAreFresh` | `FreshReports` | `FreshInv` |
| | `CyclesInTime` | `CycledInTime` | `CountInv`, `UncycledInv` |
| | `SettledBeforeReadout` | `SensorsSettled` | `CountInv`, `SettleInv` |
| `Ds18b20Expander_proofs` | `TypeCorrect` | `TypeOK` | `TypeInv`, with `PlacesInv` |
| | `PortsReportTheirSensors` | `RightSensor` | `SoundInv`, `LateInv` |
| | `EveryRoundIsTold` | `RoundsAreTold` | `SoundInv`, `LateInv` |
| | `TemperaturesDecoded` | `Decoding` | none: a constant fact |
| `SensorInput_proofs` | `TypeCorrect` | `TypeOK` | `TypeInv` |
| | `JumpsConfirmed` | `JumpsAreConfirmed` | `JumpInv` |
| | `ResetsInTime` | `ResetInTime` | `CountInv` |
| | `UnevenPulses`, `UnevenCounts` | | none: constant facts |
| | `MissedPulsesNeverLie` | `MissedPulse` | none: a constant fact |

*Writes.* `CleanMeansWritten` is not inductive because it is silent during a
write. `WriteInv` adds that there a clean core means that the copy is still the
buffer, and that after a successful write the latches hold the copy: a set
during the write makes the core dirty, so the parts hand the buffer from the
copying to the report. For the PCA9685 a worker that is not started yet leaves
the core dirty, and a round that found it clean has nothing to write. `EnabledInv`
says of the PCA9685 that a chip the program believes to be running is running,
or was put to sleep by a command that failed: a failed restart leaves the belief
false, and a successful sleep makes both false. For
the Tasmota relays buffers are many: `NumbersInv` numbers them, `NewestInv`
says that while the core is clean the newest has the values of the buffer, and
`RelaysInv` that the relays have what was written last.

*Wake-ups and events.* `AwakeInv` adds to `AcknowledgedIsAwake` that requests
are served only after startup, so that the only sets after an acknowledgement
belong to the next request. `StreamInv` extends `SubscriberUpToDate` to
unmapped ports, which have neither events nor values; the step that matters is
that `update_value_and_generate_events` skips an event only for a value equal
to the last one. `ErrorInv` is what remains of it when Updates are suppressed.
`RecordInv` is the same for a task that may hold the event.

*Universe.* Its steps are steps of the pipeline or leave it alone
(`IsEventPipeline`), so its theorems carry over. `AddressInv` keeps the counter
ahead of every address given. `GetInv` splits the ports of a request into those
still to be read and those answered, and uses that aliases are unique; a port
just read is answered because of `LastInv`: the last value is the event
published last, or the one in hand.

*Buttons.* The properties speak of two events far apart, and the second is
generated from the port's state alone. `HistoryInv` says what the first of them,
while it is the last of its kind, makes of that state: a press without an end is
a value of `On` (`Levels`), the latest Down is the time `down` (`LatestDown`),
and the seconds of a press under way are those at the last reading used and
those of its last LongPress (`Held`).

*DHT22 expander.* `FreshInv` follows a measurement from the registers to the
ports: once the thread waits for a readout, what is in the registers is not yet
reported. `CountInv` says where a power cycle is due: in the steps of one, and
from its first failure until it succeeds, while each round in between was a
fault. This is where `CounterSuffices` is used, a hypothesis of `CyclesInTime`
and of `SettledBeforeReadout`; the latter also has `Punctual`. `UncycledInv`
bounds the readouts since the last power-off by the counter, and `SettleInv`
says that the time the sensors have had power and the rest of the thread's sleep
together are enough, wherever in a cycle or in its repetition the thread is.

*DS18B20 expander.* `RightSensor` relates the report of a port to the wiring of
a bus scanned long before. `ScanInv` says that after a sound scan of some buses
the thread knows their sensors in the order of the wiring (`Before`), and the
board does, too; `AnswerInv` that the answer it takes next is the next bus's.
`RunningInv` carries the order to the rounds: the board has either the scan's
sensors or none, so that an answer has results in the order of the IDs
(`ResultsOf`), no results, or the IDs of the last bus; `ReadoutInv` says it of what
was fetched. A readout made of IDs is one of `Junk`, fetched before it was ready,
and has no more bytes than a readout (`TookIds`, `IdsTaken`). It also
holds across `Restart`, because a scan that was sound found what is wired.
`RoundsAreTold` needs besides that an answer fetched when it was ready has
temperatures of this round only (`ReadyInv`, `FreshInv`). The IDs of all buses in
a row are `FlattenSeq`, which is a fold over a sequence: the module proves that
it is the concatenation step by step with an induction over sets of numbers
(`SetInduction`, from the well-ordering of the numbers), because the theorems of
the library for induction take an operator. Assumed of the constants: an ID is
not a temperature. `Decoding` is a fact about numbers, by cases of the sign.

*Sensors.* `JumpInv` says that the pressure the thread compares with is the one
reported last, unless the chip was initialised since then or is about to be.
`CountInv` bounds the readings without a reset by the thread's counter, and this
by the interval and the resets that failed. `Resets # {}` is assumed: a sensor
has an interval of resets, which may be "never". An interval of 0, which the
configuration allows, is not tried: the code resets after every readout, as with 1
(`bme280.rs:147`).

*Wire format of the button expander.* A bus line stuck at a level forces one bit
of all nine bytes. Undoing the rotation of a transmission turns that into a
forced bit of its two registers and its checksum, at the same place in each
(`StuckDecodes`). A transmission that still matches its checksum has changed in
no register: a bit changed in the second register counts three places higher in
the sum, the whole sum is rotated by another three, and the checksum itself may
only differ in the place that is forced, so that no changes in two or three of
the bytes cancel. Bytes of ones, which a lost transmission reads as, never match.
Where a pin ends up is a calculation by bits (`PortsShowPins`).

*Wire format of the DHT22.* Decoding forty bits undoes what the sensor does to
the measurement (`DecodeSent`). The pulses of a real line vary, so the lemmas are
about any frame with low pulses of 48 to 55 µs, short high ones of 25 to 30, long
ones of 68 to 75, and a start marker of more than 51 (`IsFrame`); the nominal
lengths of `Marked` are one such frame, and `UnevenPulses` says of all of them what
`MissedPulse` says of these. The ranges are what the thresholds 51, 120 and 160
of the code allow: a missed high pulse makes one of 121 to 140 µs or of 164 to
185 µs out of three; it is the only one after the start marker longer than 120 µs,
and on either side of 160 µs, so the repair puts back its bit (`MissedHigh`,
`FixIs`). (A short high pulse of 24 µs between two low ones of 48 µs would not be
recognised.) If the high pulse of the start marker is missed, the record has 81
pulses, but its bits are in place. A missed low pulse joins the bits around it
(`MissedLow`). If one of them is set, the joined pulse is too long and becomes a
low pulse, a bit and a low pulse; both bits are then read from these low pulses, as
zeros. The sum of the data or else the checksum changes by 1 to 192, or, where the
pair straddles them, one by at most 1 and the other by 0 or 128: never by the same
modulo 256, so the checksum fails (`LostBitsFail`). If neither is set the joined
pulse, of at most 115 µs, goes unnoticed, nothing is repaired, and the high pulse
of the start marker is read as the first bit: a humidity of at least 3276.8 %,
unless the checksum fails already (`FirstBitSet`).

For the first driver `UnevenCounts` says that it reads the measurement from any
counts in which short high pulses are less than every low one and long ones no less
than any. The mean of the low pulses is then between both (`MeanOfLows`, by
`SetInduction`; `SumExists` constructs the sum step by step). That there is a
difference in each unit that `MissedPulse` tries is a calculation (`Thresholds`).

What stays with TLC:

* liveness (`AcknowledgedIsWritten`, `ChangesAreShown`, `UpdatesAreWritten`,
  `ReportsArrive`, `ReadoutsGoOn`, `ReadoutsRecover`, `ReadingsRecover`), since
  fairness and ENABLED are out of the prover's reach.

Every other property of a passing run is a theorem.

## 6. Not modelled, and what could follow

Left out for good, because no state of the program depends on it: logging,
metrics, the I2C mock (a stand-in that logs), routes and JSON, the answer of
`/universe/config` (constant data), YAML syntax and the reading of files,
signals. The logarithmic scaling is floating point and enters as the constant
`Level`. The loops of `dht22_lib.rs` that poll the GPIO are abstracted to the
pulses they record. Elapsed time is modelled only in `ButtonInput` and
`Dht22Expander`. The counter of addresses is a `u16` that would overflow after
65,535 mapped ports; the model has numbers without a limit. A build with overflow
checks, where `button_expander.rs:170` panics, has no run of its own.

What could follow: several output devices in one universe, which share no state
but the mutex that requests take.
