--------------------------- MODULE Mcp23017Output ---------------------------
(***************************************************************************)
(* MCP23017 (src/mcp23017.rs): a GPIO expander written by a worker thread  *)
(* that sleeps on a condition variable while the core is clean.  update    *)
(* wakes it; a failed write makes the core dirty, so the worker retries.   *)
(* Modelled with the universe's startup and requests, its only callers.    *)
(***************************************************************************)
EXTENDS OutputUniverse

CONSTANT MaxFaults  \* bound: failed I2C writes in one behaviour

ASSUME FaultAssumption == MaxFaults \in Nat

VARIABLES pc,       \* where the worker is in handle_update_async
          snapshot, \* its copy of the buffer
          write_ok, \* whether its write succeeded
          latched,  \* the output latches of the chip
          faults    \* writes that failed so far

workerVars == <<pc, snapshot, write_ok, latched, faults>>
vars == <<coreVars, universeVars, workerVars>>

\* compute_registers: the bit of a port is set iff its value is not zero.
Level == [v \in Values |-> v # 0]
Registers(b) == [p \in Ports |-> Level[b[p]]]

TypeOK ==
  /\ CoreTypeOK
  /\ UniverseTypeOK
  /\ pc \in {"checking", "waiting", "writing", "finishing"}
  /\ snapshot \in Buffers
  /\ write_ok \in BOOLEAN
  /\ latched \in [Ports -> BOOLEAN]
  /\ faults \in 0 .. MaxFaults

(***************************************************************************)
(* new starts the worker before any port is mapped.  Nothing has reset the *)
(* latches: they are what an earlier run of the program left there.        *)
(***************************************************************************)
Init ==
  /\ CoreInitDirty
  /\ UniverseInit
  /\ pc = "checking"
  /\ snapshot = buffered_values
  /\ write_ok = FALSE
  /\ latched \in [Ports -> BOOLEAN]
  /\ faults = 0

\* Lock, dirty: clear the bit and copy the buffer.
Take ==
  /\ pc = "checking"
  /\ dirty
  /\ dirty' = FALSE
  /\ snapshot' = buffered_values
  /\ pc' = "writing"
  /\ UNCHANGED <<readCoreVars, buffered_values, universeVars, write_ok, latched, faults>>

\* Lock, clean: wait on the condition variable, which releases the lock.
Wait ==
  /\ pc = "checking"
  /\ ~dirty
  /\ pc' = "waiting"
  /\ UNCHANGED <<coreVars, universeVars, snapshot, write_ok, latched, faults>>

\* Condvar::wait may return without a notification.
SpuriousWakeup ==
  /\ pc = "waiting"
  /\ pc' = "checking"
  /\ UNCHANGED <<coreVars, universeVars, snapshot, write_ok, latched, faults>>

\* write_gpioab succeeds: both output latches hold the snapshot.
WriteSucceeds ==
  /\ pc = "writing"
  /\ latched' = Registers(snapshot)
  /\ write_ok' = TRUE
  /\ pc' = "finishing"
  /\ UNCHANGED <<coreVars, universeVars, snapshot, faults>>

\* write_gpioab fails after none, some or all of the latches took their bit.
WriteFails ==
  /\ pc = "writing"
  /\ faults < MaxFaults
  /\ \E done \in SUBSET Ports :
       latched' = [p \in Ports |-> IF p \in done THEN Registers(snapshot)[p] ELSE latched[p]]
  /\ write_ok' = FALSE
  /\ faults' = faults + 1
  /\ pc' = "finishing"
  /\ UNCHANGED <<coreVars, universeVars, snapshot>>

\* MUTANT of Finish: the bit is cleared after the write instead of with the copy.
Finish_ClearsDirty ==
  /\ pc = "finishing"
  /\ UpdateValues(IF write_ok THEN snapshot ELSE AllFailed, ~write_ok, FALSE)
  /\ dirty' = ~write_ok
  /\ pc' = "checking"
  /\ UNCHANGED <<buffered_values, universeVars, snapshot, write_ok, latched, faults>>

\* MUTANT of Finish: reports the current buffer instead of what was written.
Finish_ReportsBuffer ==
  /\ pc = "finishing"
  /\ FinishUpdate(write_ok, buffered_values, FALSE, FALSE)
  /\ pc' = "checking"
  /\ UNCHANGED <<universeVars, snapshot, write_ok, latched, faults>>

\* MUTANT of Finish: a failed write is repeated with the same, by now old, copy.
Finish_RetriesCopy ==
  /\ pc = "finishing"
  /\ FinishUpdate(write_ok, snapshot, FALSE, FALSE)
  /\ pc' = IF write_ok THEN "checking" ELSE "writing"
  /\ UNCHANGED <<universeVars, snapshot, write_ok, latched, faults>>

\* Lock again: finish_update, and back to the top of the loop.
Finish ==
  /\ pc = "finishing"
  /\ FinishUpdate(write_ok, snapshot, FALSE, FALSE)
  /\ pc' = "checking"
  /\ UNCHANGED <<universeVars, snapshot, write_ok, latched, faults>>

\* MUTANT of Update: the condition variable is never notified.
Update_NoNotify ==
  /\ AnswerRequest
  /\ pc' = pc
  /\ UNCHANGED <<coreVars, snapshot, write_ok, latched, faults>>

\* update, called at the end of a request: notify the worker if the core is dirty.
Update ==
  /\ AnswerRequest
  /\ pc' = IF dirty /\ pc = "waiting" THEN "checking" ELSE pc
  /\ UNCHANGED <<coreVars, snapshot, write_ok, latched, faults>>

Worker == Take \/ Wait \/ WriteSucceeds \/ WriteFails \/ Finish

Next ==
  \/ UniverseStep /\ UNCHANGED workerVars
  \/ Update
  \/ Worker
  \/ SpuriousWakeup

(***************************************************************************)
(* The worker is an OS thread and the universe's steps are tokio tasks:    *)
(* neither is left out forever.  A client need not send requests, the bus  *)
(* need not fail and a condition variable need not wake up on its own.     *)
(***************************************************************************)
Fairness ==
  /\ WF_vars(Take \/ Wait \/ WriteSucceeds \/ Finish)
  /\ WF_vars((\E p \in Configured : MapPort(p) \/ SetDefault(p)) /\ UNCHANGED workerVars)
  /\ WF_vars((SetAddress \/ RejectAlias) /\ UNCHANGED workerVars)
  /\ WF_vars(Update)

Spec == Init /\ [][Next]_vars

FairSpec == Spec /\ Fairness
-----------------------------------------------------------------------------
(***************************************************************************)
(* Safety.                                                                 *)
(***************************************************************************)

\* A worker with nothing to do has nothing left to do: whenever it is between
\* two writes and the dirty bit is clear, the chip shows the buffer, whatever
\* sets and failures fell into the write (dirty is cleared with the copy in
\* handle_update_async, set again by set and by a failed finish_update).
CleanMeansWritten ==
  pc \in {"checking", "waiting"} /\ ~dirty => latched = Registers(buffered_values)

\* A value a port reports (device_values, last_value) is on the chip; a failed
\* write is reported as an error, until the worker has published a result the
\* previous report may be out of date.
ReportedMeansWritten ==
  \A p \in Ports :
    pc # "finishing" /\ device_values[p] \in Values => latched[p] = Level[device_values[p]]

\* Subscribers lose nothing: the last event of a port, queued or delivered, is
\* what the device reports for the port (update_value_and_generate_events
\* skips an event only if it would repeat the previous one).
SubscriberUpToDate == \A p \in mapped : LatestEvent(p) = device_values[p]

\* No lost wake-up: once a request was answered with OK the worker does not
\* sleep on a dirty core (update notifies under the lock the worker waits with).
AcknowledgedIsAwake == Acknowledged /\ pc = "waiting" => ~dirty

(***************************************************************************)
(* Liveness, under FairSpec.                                               *)
(***************************************************************************)

\* What an OK answer promises: each buffered value reaches the chip, unless a
\* later request replaces it first.
AcknowledgedIsWritten ==
  \A p \in Ports, v \in Values :
    Acknowledged /\ buffered_values[p] = v
      ~> latched[p] = Level[v] \/ buffered_values[p] # v

\* The README's "flush as soon as a new value is written": a buffered value
\* reaches the chip, whether or not the set that buffered it ended with update.
FlushedWhenSet ==
  \A p \in Ports, v \in Values :
    http = "idle" /\ buffered_values[p] = v
      ~> latched[p] = Level[v] \/ buffered_values[p] # v

(***************************************************************************)
(* Refinement: the buffer in the worker's hands, if any, and the current   *)
(* one are what may still reach the chip.                                  *)
(***************************************************************************)
Pending == {buffered_values} \cup IF pc = "writing" THEN {snapshot} ELSE {}

Device == INSTANCE OutputDevice
            WITH Levels <- BOOLEAN, Level <- [p \in Ports |-> Level], wanted <- buffered_values,
                 pending <- Pending, outputs <- latched

\* The chip only ever shows whole buffers, or a failed write's mix of one with
\* what was there, and never goes back to a buffer once it got a later one.
ImplementsOutputDevice == Device!Spec
=============================================================================
