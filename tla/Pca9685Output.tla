---------------------------- MODULE Pca9685Output ---------------------------
(***************************************************************************)
(* PCA9685 (src/pca9685.rs, src/poll.rs): a PWM generator whose worker     *)
(* thread polls the core at a fixed interval.  It writes when the core is  *)
(* dirty, puts the chip to sleep after a time without changes, and wakes   *)
(* it before the next write.  update does nothing.                         *)
(*                                                                         *)
(* Synchronized PCA9685s (src/pca9685_sync.rs) share a worker that serves  *)
(* one after another.  They share no state, so this is also one of them:   *)
(* its worker is started once the ports of all devices are mapped.         *)
(***************************************************************************)
EXTENDS OutputUniverse

CONSTANTS Levels,    \* 12-bit on-times used in the model
          Level,     \* on-time a port's scaling gives to each value
          SleepAfter,\* whether sleep_after_millis is configured
          MaxFaults  \* bound: failed I2C commands in one behaviour

ASSUME PcaAssumption ==
  /\ Levels \subseteq 0 .. 4095
  /\ Level \in [Ports -> [Values -> Levels]]
  /\ SleepAfter \in BOOLEAN
  /\ MaxFaults \in Nat

VARIABLES pc,             \* where the worker is in handle_update_async
          taken,          \* the dirty bit it found when it woke up
          snapshot,       \* its copy of the buffer
          ok,             \* whether the update succeeded
          device_enabled, \* what the program believes of the oscillator
          awake,          \* what is true of it: asleep, outputs do not change
          unnoticed,      \* history: a sleep command took effect though it failed, and
                          \* none has succeeded since
          latched,        \* the on-time registers of the chip
          faults          \* commands that failed so far

workerVars == <<pc, taken, snapshot, ok, device_enabled, awake, unnoticed, latched, faults>>
vars == <<coreVars, universeVars, workerVars>>

(***************************************************************************)
(* calculate_on_off_values for a linear scaling: 16-bit values are mapped  *)
(* to from..to, the full range as it is, and cut to 12 bits.  Scalings     *)
(* enter the model through Level.                                          *)
(***************************************************************************)
Linear(from, to) ==
  [v \in Values |-> IF from = 0 /\ to = 65535
                    THEN v \div 16
                    ELSE (from + (v * (to - from)) \div 65535) \div 16]

Registers(b) == [p \in Ports |-> Level[p][b[p]]]

TypeOK ==
  /\ CoreTypeOK
  /\ UniverseTypeOK
  /\ pc \in {"unborn", "sleeping", "updating", "finishing"}
  /\ taken \in BOOLEAN
  /\ snapshot \in Buffers
  /\ ok \in BOOLEAN
  /\ device_enabled \in BOOLEAN
  /\ awake \in BOOLEAN
  /\ unnoticed \in BOOLEAN
  /\ latched \in [Ports -> Levels]
  /\ faults \in 0 .. MaxFaults

\* set_up_device enabled the chip, unless it is a synchronized one; its registers are
\* from an earlier run.
Init ==
  /\ CoreInitDirty
  /\ UniverseInit
  /\ pc \in {"unborn", "sleeping"}
  /\ taken = FALSE
  /\ snapshot = buffered_values
  /\ ok = TRUE
  /\ device_enabled = TRUE
  /\ awake = (pc = "sleeping")
  /\ unnoticed = FALSE
  /\ latched \in [Ports -> Levels]
  /\ faults = 0

\* synchronize_pcas: set_up_device enables the chip, and the shared thread starts.
StartSynchronized ==
  /\ pc = "unborn"
  /\ Serving
  /\ pc' = "sleeping"
  /\ awake' = TRUE
  /\ UNCHANGED <<coreVars, universeVars, taken, snapshot, ok, device_enabled, unnoticed,
                 latched, faults>>

\* poll_loop_begin: the interval is over; copy the buffer and clear the dirty bit.
Begin ==
  /\ pc = "sleeping"
  /\ taken' = dirty
  /\ snapshot' = buffered_values
  /\ dirty' = FALSE
  /\ pc' = "updating"
  /\ UNCHANGED <<readCoreVars, buffered_values, universeVars, ok, device_enabled, awake,
                 unnoticed, latched, faults>>

\* The end of handle_update_async_inner_outer.
Done(success) ==
  /\ ok' = success
  /\ faults' = IF success THEN faults ELSE faults + 1
  /\ pc' = "finishing"
  /\ UNCHANGED <<coreVars, universeVars, taken, snapshot>>

MayFail == faults < MaxFaults

\* Clean, and not long enough for a sleep or none configured.
LeaveAlone ==
  /\ pc = "updating" /\ ~taken
  /\ Done(TRUE)
  /\ UNCHANGED <<device_enabled, awake, unnoticed, latched>>

\* Clean for longer than sleep_after (elapsed time is not modelled).  A sleep command
\* that fails may have put the chip to sleep all the same: the program goes on
\* believing it enabled.
PutToSleep ==
  /\ pc = "updating" /\ ~taken
  /\ SleepAfter /\ device_enabled
  /\ \/ /\ Done(TRUE)
        /\ device_enabled' = FALSE
        /\ awake' = FALSE
        /\ unnoticed' = FALSE
     \/ /\ MayFail
        /\ Done(FALSE)
        /\ \E effect \in BOOLEAN :
             /\ awake' = (awake /\ ~effect)
             /\ unnoticed' = (unnoticed \/ effect)
        /\ UNCHANGED device_enabled
  /\ UNCHANGED latched

\* A dirty core and a chip the program put to sleep.
NeedsRestart == pc = "updating" /\ taken /\ ~device_enabled

\* MUTANT of Restart: the chip is believed to be on before the command has succeeded.
Restart_BelievedFirst ==
  /\ NeedsRestart
  /\ device_enabled' = TRUE
  /\ \/ /\ awake' = TRUE
        /\ UNCHANGED <<coreVars, universeVars, pc, taken, snapshot, ok, faults>>
     \/ /\ MayFail
        /\ Done(FALSE)
        /\ awake' \in {awake, TRUE}
  /\ UNCHANGED <<unnoticed, latched>>

\* restart: a failure leaves the chip asleep, or awake without the program knowing.
Restart ==
  /\ NeedsRestart
  /\ \/ /\ device_enabled' = TRUE
        /\ awake' = TRUE
        /\ UNCHANGED <<coreVars, universeVars, pc, taken, snapshot, ok, faults>>
     \/ /\ MayFail
        /\ Done(FALSE)
        /\ awake' \in {awake, TRUE}
        /\ UNCHANGED device_enabled
  /\ UNCHANGED <<unnoticed, latched>>

\* set_all_on_off succeeds: every register holds the snapshot.
WriteSucceeds ==
  /\ pc = "updating" /\ taken /\ ~NeedsRestart
  /\ latched' = Registers(snapshot)
  /\ Done(TRUE)
  /\ UNCHANGED <<device_enabled, awake, unnoticed>>

\* set_all_on_off fails with some of the registers written.
WriteFails ==
  /\ pc = "updating" /\ taken /\ ~NeedsRestart
  /\ MayFail
  /\ \E done \in SUBSET Ports :
       latched' = [p \in Ports |-> IF p \in done THEN Registers(snapshot)[p] ELSE latched[p]]
  /\ Done(FALSE)
  /\ UNCHANGED <<device_enabled, awake, unnoticed>>

\* MUTANT of Finish: a failed update is only reported.
Finish_NoRetry ==
  /\ pc = "finishing"
  /\ UpdateValues(IF ok THEN snapshot ELSE AllFailed, ~ok, TRUE)
  /\ pc' = "sleeping"
  /\ UNCHANGED <<buffered_values, dirty, universeVars, taken, snapshot, ok, device_enabled,
                 awake, unnoticed, latched, faults>>

\* MUTANT of Finish: a failed update is repeated at once with the same copy.
Finish_RetriesCopy ==
  /\ pc = "finishing"
  /\ FinishUpdate(ok, snapshot, FALSE, TRUE)
  /\ pc' = IF ok THEN "sleeping" ELSE "updating"
  /\ taken' = ~ok
  /\ UNCHANGED <<universeVars, snapshot, ok, device_enabled, awake, unnoticed, latched, faults>>

\* poll_loop_end: finish_update in every round, dirty or not, without Update events.
Finish ==
  /\ pc = "finishing"
  /\ FinishUpdate(ok, snapshot, FALSE, TRUE)
  /\ pc' = "sleeping"
  /\ UNCHANGED <<universeVars, taken, snapshot, ok, device_enabled, awake, unnoticed, latched,
                 faults>>

\* update, called at the end of a request, leaves everything to the next round.
Update == AnswerRequest /\ UNCHANGED <<coreVars, workerVars>>

Worker ==
  \/ StartSynchronized \/ Begin \/ LeaveAlone \/ PutToSleep
  \/ Restart \/ WriteSucceeds \/ WriteFails \/ Finish

Next ==
  \/ UniverseStep /\ (pc = "unborn" => http' = "idle") /\ UNCHANGED workerVars
  \/ Update
  \/ Worker

\* The worker is an OS thread that always comes back from its sleep; the
\* universe's startup runs to its end.  Nothing makes a client send requests.
Fairness ==
  /\ WF_vars(Worker)
  /\ WF_vars((\E p \in Configured : MapPort(p) \/ SetDefault(p)) /\ UNCHANGED workerVars)

Spec == Init /\ [][Next]_vars

FairSpec == Spec /\ Fairness
-----------------------------------------------------------------------------
(***************************************************************************)
(* Safety.                                                                 *)
(***************************************************************************)

\* Between two rounds a clean core is a written one: nothing set during a
\* round, and nothing a failed round left half done, is forgotten.
CleanMeansWritten == pc = "sleeping" /\ ~dirty => latched = Registers(buffered_values)

\* Update events are suppressed, errors are not: a subscriber whose last event is
\* an error knows that the port still fails, any other that it does not.
SubscriberKnowsErrors ==
  \A p \in mapped : (LatestEvent(p) = Err) <=> (device_values[p] = Err)

\* The README's "generates Change events once the hardware device successfully
\* set new target values": the last event is what the device reports.
SubscriberUpToDate == \A p \in mapped : LatestEvent(p) = device_values[p]

\* A write goes to a sleeping chip, where it does not show, only if the last sleep
\* commands took effect and failed: the program, which looks at device_enabled
\* alone, then writes without a restart.  No other failed sleep, restart or write
\* leads there, and a sleep command that succeeds ends it.
WritesWhileAwake == [][latched' # latched => awake \/ unnoticed]_vars

(***************************************************************************)
(* Liveness, under FairSpec.                                               *)
(***************************************************************************)

\* Whatever is set, by a default, a request or the part of a request before an
\* alias, is written unless it is replaced first, and the chip shows it unless
\* it sleeps unnoticed.
ChangesAreShown ==
  \A p \in Ports, v \in Values :
    dirty /\ buffered_values[p] = v
      ~> (latched[p] = Level[p][v] /\ (awake \/ unnoticed)) \/ buffered_values[p] # v

(***************************************************************************)
(* Refinement.                                                             *)
(***************************************************************************)
Pending == {buffered_values} \cup IF pc = "updating" /\ taken THEN {snapshot} ELSE {}

Device == INSTANCE OutputDevice WITH wanted <- buffered_values, pending <- Pending,
                                     outputs <- latched

\* The registers only ever take whole buffers, or a failed write's mix, and never
\* one that was superseded before the last write.
ImplementsOutputDevice == Device!Spec
=============================================================================
