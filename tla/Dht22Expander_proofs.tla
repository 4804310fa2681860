------------------------ MODULE Dht22Expander_proofs ------------------------
(***************************************************************************)
(* Proofs about Dht22Expander, for any sensors, intervals, delays, widths  *)
(* of the counter, and any number of faults.                               *)
(***************************************************************************)
EXTENDS Dht22Expander, TLAPS

(***************************************************************************)
(* Types.                                                                  *)
(***************************************************************************)
TypeInv == TypeOK /\ uncycled \in Nat

SwitchesType == powered \in BOOLEAN /\ pending \in BOOLEAN /\ flagged \in BOOLEAN

\* An update of every port with readings or errors keeps the types of the core.
LEMMA UpdateValuesType ==
  ASSUME ReadCoreTypeOK, NEW new \in [Ports -> Results],
         NEW force \in BOOLEAN, NEW suppress \in BOOLEAN,
         UpdateValues(new, force, suppress)
  PROVE  ReadCoreTypeOK'
BY DEF ReadCoreTypeOK, UpdateValues, Results

\* poll_events keeps the types of the core, whether the queue yields an event or the task parks.
LEMMA PollEventsType ==
  ASSUME ReadCoreTypeOK, NEW p \in Ports, PollEvents(p)
  PROVE  ReadCoreTypeOK'
<1>1. CASE events[p] = <<>>
  BY <1>1 DEF ReadCoreTypeOK, PollEvents
<1>2. CASE events[p] # <<>>
  <2>1. events[p] \in Seq(Results)
    BY DEF ReadCoreTypeOK
  <2> DEFINE event == Head(events[p])
             rest == Tail(events[p])
  <2>2. event \in Results /\ rest \in Seq(Results)
    BY <1>2, <2>1
  <2>3. /\ events' = [events EXCEPT ![p] = rest] /\ received' = [received EXCEPT ![p] = event]
        /\ UNCHANGED <<device_values, mapped, wakers>>
    BY <1>2 DEF PollEvents
  <2> HIDE DEF event, rest
  <2> QED BY <2>2, <2>3 DEF ReadCoreTypeOK
<1> QED BY <1>1, <1>2

\* The sensors are powered for a time from 0 to Settle, however much of it passes.
LEMMA ElapseType ==
  ASSUME Dht22ExpanderAssumption, NEW d \in Nat, on_for \in 0 .. Settle, Elapse(d)
  PROVE  on_for' \in 0 .. Settle
BY DEF Elapse, Dht22ExpanderAssumption

\* The time of a step.
LEMMA StepTime ==
  ASSUME Dht22ExpanderAssumption, spent \in Nat, NEW from, NEW d \in Nat, Step(from, d)
  PROVE  spent' \in Nat /\ spent' - spent \in Nat
BY DEF Step, Dht22ExpanderAssumption

\* The counter counts as far as it can.
LEMMA NextCountType ==
  ASSUME NEW w \in Nat \ {0}, NEW n \in 0 .. w - 1
  PROVE  (n + 1) % w \in 0 .. w - 1 /\ (n + 1 < w => (n + 1) % w = n + 1)
OBVIOUS

\* Every step keeps the types.
LEMMA TypeInvStep ==
  ASSUME TypeInv, [Next]_vars
  PROVE  TypeInv'
<1> USE Dht22ExpanderAssumption, ReadCoreAssumption
<1>1. ASSUME NEW p \in Ports, GetInputPort(p)
      PROVE  TypeInv'
  BY <1>1 DEF GetInputPort, SetUpEvents, TypeInv, TypeOK, ReadCoreTypeOK, threadVars, boardVars
<1>2. ASSUME NEW p \in Ports, Consume(p)
      PROVE  TypeInv'
  <2>1. ReadCoreTypeOK'
    BY <1>2, PollEventsType DEF Consume, TypeInv, TypeOK
  <2> QED BY <1>2, <2>1 DEF Consume, TypeInv, TypeOK, threadVars, boardVars
<1>3. CASE WakeUp
  <2>1. readout_counter' \in 0 .. CounterWidth - 1
    BY <1>3, NextCountType DEF WakeUp, NextCount, TypeInv, TypeOK
  <2>2. on_for' \in 0 .. Settle
    <3>1. PICK l \in Late :
            Elapse((IF spent < Interval + bonus THEN Interval + bonus - spent ELSE 0) + l)
      BY <1>3 DEF WakeUp
    <3>2. (IF spent < Interval + bonus THEN Interval + bonus - spent ELSE 0) + l \in Nat
      BY DEF TypeInv, TypeOK
    <3> QED BY <3>1, <3>2, ElapseType DEF TypeInv, TypeOK
  <2>3. ReadCoreTypeOK'
    BY <1>3 DEF WakeUp, TypeInv, TypeOK, ReadCoreTypeOK, readCoreVars
  <2> QED BY <1>3, <2>1, <2>2, <2>3 DEF WakeUp, TypeInv, TypeOK, boardVars
<1>4. CASE PowerDown
  <2>1. spent' \in Nat /\ on_for' \in 0 .. Settle
    BY <1>4, StepTime, ElapseType DEF PowerDown, TypeInv, TypeOK
  <2>2. ReadCoreTypeOK'
    BY <1>4 DEF PowerDown, TypeInv, TypeOK, ReadCoreTypeOK, readCoreVars
  <2>3. SwitchesType'
    BY <1>4, Zenon DEF PowerDown, BusWrite, boardVars, TypeInv, TypeOK, SwitchesType
  <2> QED BY <1>4, <2>1, <2>2, <2>3 DEF SwitchesType, PowerDown, Step, BusWrite, Fault, TypeInv, TypeOK, boardVars
<1>5. CASE PowerUp
  <2>1. spent' \in Nat /\ on_for' \in 0 .. Settle
    BY <1>5, StepTime, ElapseType DEF PowerUp, TypeInv, TypeOK
  <2>2. ReadCoreTypeOK'
    BY <1>5 DEF PowerUp, TypeInv, TypeOK, ReadCoreTypeOK, readCoreVars
  <2>3. SwitchesType'
    BY <1>5, Zenon DEF PowerUp, PowersOn, BusWrite, boardVars, TypeInv, TypeOK, SwitchesType
  <2> QED BY <1>5, <2>1, <2>2, <2>3 DEF SwitchesType, PowerUp, PowersOn, Step, BusWrite, Fault, TypeInv, TypeOK, boardVars
<1>6. CASE InitReadout
  <2>1. spent' \in Nat /\ on_for' \in 0 .. Settle
    BY <1>6, StepTime, ElapseType DEF InitReadout, TypeInv, TypeOK
  <2>2. ReadCoreTypeOK'
    BY <1>6 DEF InitReadout, TypeInv, TypeOK, ReadCoreTypeOK, readCoreVars
  <2>3. SwitchesType'
    BY <1>6, Zenon DEF InitReadout, BusWrite, boardVars, TypeInv, TypeOK, SwitchesType
  <2> QED BY <1>6, <2>1, <2>2, <2>3 DEF SwitchesType, InitReadout, Step, BusWrite, Fault, TypeInv, TypeOK, boardVars
<1>7. CASE ReadoutSensors
  <2>1. spent' \in Nat /\ on_for' \in 0 .. Settle
    BY <1>7, StepTime, ElapseType DEF ReadoutSensors, TypeInv, TypeOK
  <2>2. ReadCoreTypeOK' /\ buffer' \in [Sensors -> Results]
    <3>1. CASE FailReadout
      <4>1. [p \in Ports |-> Err] \in [Ports -> Results] /\ UNCHANGED buffer
        BY <3>1 DEF FailReadout, Results
      <4> QED BY <3>1, <4>1, UpdateValuesType DEF FailReadout, ErrorOnAllPorts, TypeInv, TypeOK
    <3>2. CASE HandleResults
      <4>1. [p \in Ports |-> buffer[p[1]]] \in [Ports -> Results]
        BY DEF TypeInv, TypeOK
      <4>2. buffer' \in [Sensors -> Results]
        BY <3>2 DEF HandleResults, TypeInv, TypeOK, Results
      <4> QED BY <3>2, <4>1, <4>2, UpdateValuesType DEF HandleResults, TypeInv, TypeOK
    <3> QED BY <1>7, <3>1, <3>2 DEF ReadoutSensors
  <2>3. faults' \in 0 .. MaxFaults /\ pc' \in {"asleep", "watchdog"}
    BY <1>7 DEF ReadoutSensors, FailReadout, Fault, TypeInv, TypeOK
  <2>4. SwitchesType'
    BY <1>7, Zenon DEF ReadoutSensors, TypeInv, TypeOK, SwitchesType
  <2> QED BY <1>7, <2>1, <2>2, <2>3, <2>4 DEF SwitchesType, ReadoutSensors, TypeInv, TypeOK
<1>8. CASE ResetWatchdog
  <2>1. spent' \in Nat /\ on_for' \in 0 .. Settle
    BY <1>8, StepTime, ElapseType DEF ResetWatchdog, TypeInv, TypeOK
  <2>2. ReadCoreTypeOK'
    BY <1>8 DEF ResetWatchdog, TypeInv, TypeOK, ReadCoreTypeOK, readCoreVars
  <2>3. SwitchesType'
    BY <1>8, Zenon DEF ResetWatchdog, BusWrite, boardVars, TypeInv, TypeOK, SwitchesType
  <2> QED BY <1>8, <2>1, <2>2, <2>3 DEF SwitchesType, ResetWatchdog, Step, BusWrite, Fault, TypeInv, TypeOK, boardVars
<1>9. CASE Complete
  <2>1. buffer' \in [Sensors -> Results]
    BY <1>9 DEF Complete, Results
  <2>2. SwitchesType'
    BY <1>9, Zenon DEF Complete, TypeInv, TypeOK, SwitchesType
  <2> QED BY <1>9, <2>1, <2>2 DEF SwitchesType, Complete, TypeInv, TypeOK, ReadCoreTypeOK, readCoreVars, threadVars
<1>10. CASE BoardReset
  <2>1. on_for' \in 0 .. Settle
    BY <1>10, ElapseType DEF BoardReset, TypeInv, TypeOK
  <2>2. buffer' \in [Sensors -> Results]
    BY <1>10 DEF BoardReset, Results
  <2>3. SwitchesType'
    BY <1>10, Zenon DEF BoardReset, TypeInv, TypeOK, SwitchesType
  <2> QED BY <1>10, <2>1, <2>2, <2>3 DEF SwitchesType, BoardReset, Fault, TypeInv, TypeOK, ReadCoreTypeOK, readCoreVars, threadVars
<1>11. CASE UNCHANGED vars
  BY <1>11 DEF TypeInv, TypeOK, ReadCoreTypeOK, vars, readCoreVars, threadVars, boardVars
<1> QED
  BY <1>1, <1>2, <1>3, <1>4, <1>5, <1>6, <1>7, <1>8, <1>9, <1>10, <1>11 DEF Next

\* The types hold at the start.
LEMMA TypeInvInit == Init => TypeInv
<1> SUFFICES ASSUME Init PROVE TypeInv
  OBVIOUS
<1>1. ReadCoreTypeOK
  BY DEF Init, ReadCoreInit, ReadCoreTypeOK, Results
<1> QED
  BY <1>1, Dht22ExpanderAssumption DEF Init, TypeInv, TypeOK, Results

\* The types, with that of the history variable.
LEMMA TypeInvHolds == Spec => []TypeInv
BY TypeInvInit, TypeInvStep, PTL DEF Spec

\* Every variable of the core, the thread and the board keeps its type; in particular
\* the counter stays in its width and the bonus is at most that of a power cycle.
THEOREM TypeCorrect == Spec => []TypeOK
<1>1. TypeInv => TypeOK
  BY DEF TypeInv
<1> QED BY <1>1, TypeInvHolds, PTL

-----------------------------------------------------------------------------
(***************************************************************************)
(* What a port reports: a readout that is done, of a board that was not    *)
(* reset since, has left a measurement or an error of each sensor.         *)
(***************************************************************************)
FreshInv ==
  /\ FreshReports
  /\ pc = "readout" /\ ~pending /\ flagged => \A s \in Sensors : buffer[s] \in {"new", Err}


\* A readout that is initiated discards what it finds, and only its end or a reset of the
\* board, which shows, brings a result.
LEMMA FreshInvStep ==
  ASSUME TypeInv, FreshInv, [Next]_vars
  PROVE  FreshInv'
<1> USE Dht22ExpanderAssumption, ReadCoreAssumption
<1>1. ASSUME NEW p \in Ports, GetInputPort(p)
      PROVE  FreshInv'
  BY <1>1 DEF GetInputPort, FreshInv, FreshReports, threadVars, boardVars
<1>2. ASSUME NEW p \in Ports, Consume(p)
      PROVE  FreshInv'
  BY <1>2 DEF Consume, PollEvents, FreshInv, FreshReports, threadVars, boardVars
<1>3. CASE WakeUp
  BY <1>3 DEF WakeUp, FreshInv, FreshReports, readCoreVars
<1>4. CASE PowerDown
  BY <1>4 DEF PowerDown, BusWrite, FreshInv, FreshReports, readCoreVars
<1>5. CASE PowerUp
  BY <1>5 DEF PowerUp, FreshInv, FreshReports, readCoreVars
<1>6. CASE InitReadout
  BY <1>6 DEF InitReadout, BusWrite, FreshInv, FreshReports, readCoreVars
<1>7. CASE ReadoutSensors
  <2>1. pc' # "readout"
    BY <1>7 DEF ReadoutSensors, FailReadout
  <2>2. FreshReports'
    <3>1. CASE FailReadout
      BY <3>1 DEF FailReadout, ErrorOnAllPorts, UpdateValues, FreshInv, FreshReports
    <3>2. CASE Reading = "ok" /\ HandleResults
      <4>1. \A s \in Sensors : buffer[s] \in {"new", Err}
        BY <1>7, <3>2 DEF ReadoutSensors, Step, Reading, FreshInv
      <4>2. \A p \in Ports : p[1] \in Sensors
        OBVIOUS
      <4> QED BY <3>2, <4>1, <4>2 DEF HandleResults, UpdateValues, FreshInv, FreshReports
    <3> QED BY <1>7, <3>1, <3>2 DEF ReadoutSensors
  <2> QED BY <2>1, <2>2 DEF FreshInv
<1>8. CASE ResetWatchdog
  BY <1>8 DEF ResetWatchdog, FreshInv, FreshReports, readCoreVars
<1>9. CASE Complete
  BY <1>9 DEF Complete, FreshInv, FreshReports, readCoreVars, threadVars
<1>10. CASE BoardReset
  BY <1>10 DEF BoardReset, FreshInv, FreshReports, readCoreVars, threadVars
<1>11. CASE UNCHANGED vars
  BY <1>11 DEF FreshInv, FreshReports, vars, readCoreVars, threadVars, boardVars
<1> QED
  BY <1>1, <1>2, <1>3, <1>4, <1>5, <1>6, <1>7, <1>8, <1>9, <1>10, <1>11 DEF Next

\* A port never reports what an earlier round has read already, nor what a watchdog
\* reset left in the registers.
THEOREM ReportsAreFresh == Spec => []FreshReports
<1>1. Init => FreshInv
  BY ReadCoreAssumption, Dht22ExpanderAssumption DEF Init, ReadCoreInit, FreshInv, FreshReports
<1>2. FreshInv => FreshReports
  BY DEF FreshInv
<1> QED BY <1>1, <1>2, FreshInvStep, TypeInvHolds, PTL DEF Spec

-----------------------------------------------------------------------------
(***************************************************************************)
(* The power cycles.  One is due from the round that begins with enough    *)
(* readouts counted until it succeeds; each further round was a fault, and *)
(* this keeps the counter from wrapping around while one is due.           *)
(***************************************************************************)
Due == CycleDue(readout_counter)

CountInv ==
  /\ pc \in {"init", "readout", "watchdog"} => ~Due
  /\ pc \in {"power_off", "power_on"} => Due /\ readout_counter <= every + faults
  /\ pc = "asleep" /\ Due => readout_counter < every + faults

\* Until a cycle succeeds, one stays due: the counter does not wrap around.
LEMMA CountInvStep ==
  ASSUME CounterSuffices, TypeInv, CountInv, [Next]_vars
  PROVE  CountInv'
<1> USE Dht22ExpanderAssumption
<1>0. every' = every
  BY DEF Next, GetInputPort, Consume, WakeUp, PowerDown, PowerUp, InitReadout, ReadoutSensors,
         ResetWatchdog, Complete, BoardReset, threadVars, vars
<1>never. CASE every = Never
  <2>1. ~Due' /\ ~Due
    BY <1>0, <1>never DEF Due, CycleDue
  <2>2. pc' \notin {"power_off", "power_on"}
    BY <1>0, <1>never, <2>1 DEF Next, GetInputPort, Consume, WakeUp, CycleDue, PowerDown, PowerUp,
         InitReadout, ReadoutSensors, FailReadout, ResetWatchdog, Complete, BoardReset, BusWrite,
         Step, CountInv, threadVars, vars
  <2> QED BY <2>1, <2>2 DEF CountInv
<1> SUFFICES ASSUME every # Never
             PROVE  CountInv'
  BY <1>never
<1>n. /\ every \in Nat \ {0} /\ readout_counter \in Nat /\ faults \in 0 .. MaxFaults
      /\ every + MaxFaults < CounterWidth
  BY DEF TypeInv, TypeOK, CounterSuffices
<1>1. CASE UNCHANGED <<pc, readout_counter, faults>>
  BY <1>0, <1>1 DEF CountInv, Due, CycleDue
<1>2. CASE WakeUp
  <2>1. readout_counter + 1 < CounterWidth
    BY <1>0, <1>2, <1>n DEF WakeUp, CountInv, Due, CycleDue
  <2>2. readout_counter' = readout_counter + 1
    BY <1>2, <2>1, NextCountType DEF WakeUp, NextCount, TypeInv, TypeOK
  <2>3. pc' = (IF CycleDue(readout_counter') THEN "power_off" ELSE "init") /\ faults' = faults
    BY <1>2 DEF WakeUp
  <2> QED BY <1>0, <1>2, <1>n, <2>2, <2>3 DEF WakeUp, CountInv, Due, CycleDue
<1>3. CASE PowerDown
  BY <1>0, <1>3, <1>n DEF PowerDown, Step, BusWrite, Fault, CountInv, Due, CycleDue
<1>4. CASE PowerUp
  BY <1>0, <1>4, <1>n DEF PowerUp, Step, BusWrite, Fault, CountInv, Due, CycleDue
<1>5. CASE InitReadout
  BY <1>0, <1>5, <1>n DEF InitReadout, Step, BusWrite, Fault, CountInv, Due, CycleDue
<1>6. CASE ReadoutSensors
  BY <1>0, <1>6, <1>n DEF ReadoutSensors, FailReadout, Step, Fault, CountInv, Due, CycleDue
<1>7. CASE ResetWatchdog
  BY <1>0, <1>7, <1>n DEF ResetWatchdog, Step, BusWrite, Fault, CountInv, Due, CycleDue
<1>8. CASE BoardReset
  BY <1>0, <1>8, <1>n DEF BoardReset, Fault, threadVars, CountInv, Due, CycleDue
<1> QED
  BY <1>1, <1>2, <1>3, <1>4, <1>5, <1>6, <1>7, <1>8
     DEF Next, GetInputPort, Consume, Complete, threadVars, vars

\* No cycle is due at the start.
LEMMA CountInvInit == Init => CountInv
BY Dht22ExpanderAssumption DEF Init, CountInv, Due, CycleDue

\* The readouts since the last power-off are counted, up to the first round of the cycle.
UncycledInv ==
  every # Never =>
    /\ uncycled < every
    /\ pc \in {"asleep", "readout", "watchdog"} => uncycled <= readout_counter
    /\ pc = "init" => uncycled < readout_counter
    /\ pc = "power_on" => uncycled = 0

\* Each readout was counted before it began.
LEMMA UncycledInvStep ==
  ASSUME CounterSuffices, TypeInv, CountInv, UncycledInv, [Next]_vars
  PROVE  UncycledInv'
<1> USE Dht22ExpanderAssumption
<1> SUFFICES ASSUME every' # Never
             PROVE  UncycledInv'
  BY DEF UncycledInv
<1>0. every' = every
  BY DEF Next, GetInputPort, Consume, WakeUp, PowerDown, PowerUp, InitReadout, ReadoutSensors,
         ResetWatchdog, Complete, BoardReset, threadVars, vars
<1>n. /\ every \in Nat \ {0} /\ readout_counter \in Nat /\ faults \in 0 .. MaxFaults
      /\ uncycled \in Nat /\ every + MaxFaults < CounterWidth
  BY <1>0 DEF TypeInv, TypeOK, CounterSuffices
<1>1. CASE UNCHANGED <<pc, readout_counter, uncycled>>
  BY <1>0, <1>1 DEF UncycledInv
<1>2. CASE WakeUp
  <2>1. readout_counter + 1 < CounterWidth
    BY <1>0, <1>2, <1>n DEF WakeUp, CountInv, Due, CycleDue
  <2>2. readout_counter' = readout_counter + 1
    BY <1>2, <2>1, NextCountType DEF WakeUp, NextCount, TypeInv, TypeOK
  <2> QED BY <1>0, <1>2, <1>n, <2>2 DEF WakeUp, UncycledInv
<1>3. CASE PowerDown
  BY <1>0, <1>3, <1>n DEF PowerDown, Step, BusWrite, boardVars, UncycledInv, CountInv, Due, CycleDue
<1>4. CASE PowerUp
  BY <1>0, <1>4, <1>n DEF PowerUp, PowersOn, Step, BusWrite, boardVars, UncycledInv
<1>5. CASE InitReadout
  BY <1>0, <1>5, <1>n DEF InitReadout, Step, BusWrite, boardVars, UncycledInv, CountInv, Due, CycleDue
<1>6. CASE ReadoutSensors
  BY <1>0, <1>6, <1>n DEF ReadoutSensors, FailReadout, Step, UncycledInv
<1>7. CASE ResetWatchdog
  BY <1>0, <1>7, <1>n DEF ResetWatchdog, Step, BusWrite, boardVars, UncycledInv
<1> QED
  BY <1>1, <1>2, <1>3, <1>4, <1>5, <1>6, <1>7
     DEF Next, GetInputPort, Consume, Complete, BoardReset, threadVars, vars

\* With power cycling configured, the sensors lose power before they have been read as
\* often as configured, however often a cycle fails.
THEOREM CyclesInTime ==
  ASSUME CounterSuffices
  PROVE  Spec => []CycledInTime
<1>1. Init => UncycledInv
  BY Dht22ExpanderAssumption DEF Init, UncycledInv
<1>2. UncycledInv => CycledInTime
  BY DEF UncycledInv, CycledInTime
<1>3. TypeInv /\ CountInv /\ [Next]_vars => CountInv'
  BY CountInvStep
<1>4. TypeInv /\ CountInv /\ UncycledInv /\ [Next]_vars => UncycledInv'
  BY UncycledInvStep
<1> QED BY <1>1, <1>2, <1>3, <1>4, CountInvInit, TypeInvHolds, PTL DEF Spec

\* What is left of the sleep of the thread.
Rest == IF spent < Interval + bonus THEN Interval + bonus - spent ELSE 0

(***************************************************************************)
(* Whenever the next round reads, the sensors have power, and have settled *)
(* at the latest when the thread has slept.                                *)
(***************************************************************************)
SettleInv ==
  /\ pc \in {"init", "readout", "watchdog"} => powered /\ on_for = Settle
  /\ pc = "asleep" /\ ~Due => powered /\ on_for + Rest >= Settle
  /\ pc = "power_off" => spent = 0
  /\ pc = "power_on" => spent \in Late

\* What a step of the thread or a reset of the board does to the time the sensors had power.
LEMMA PoweredLonger ==
  ASSUME Dht22ExpanderAssumption, NEW d \in Nat, on_for \in 0 .. Settle, powered, powered', Elapse(d)
  PROVE  /\ on_for' \in 0 .. Settle /\ on_for' >= on_for
         /\ on_for + d >= Settle => on_for' = Settle
BY DEF Elapse, Dht22ExpanderAssumption

\* The next wake-up is counted from the last one, so that the bonus has to make up for
\* the time of the cycle itself.
LEMMA SettleInvStep ==
  ASSUME Punctual, CounterSuffices, TypeInv, CountInv, SettleInv, [Next]_vars
  PROVE  SettleInv'
<1> USE Dht22ExpanderAssumption
<1>0. every' = every
  BY DEF Next, GetInputPort, Consume, WakeUp, PowerDown, PowerUp, InitReadout, ReadoutSensors,
         ResetWatchdog, Complete, BoardReset, threadVars, vars
<1>n. /\ spent \in Nat /\ bonus \in Nat /\ Interval \in Nat /\ Rest \in Nat
      /\ on_for \in 0 .. Settle /\ Settle \in Nat
  BY DEF TypeInv, TypeOK, Rest
<1>s. \A x \in 0 .. Settle, y \in Nat : x = Settle \/ y >= Settle => x + y >= Settle
  BY <1>n
<1>r. \A t, b \in Nat : (IF t < Interval + b THEN Interval + b - t ELSE 0) \in Nat
  BY <1>n
<1>1. CASE UNCHANGED <<pc, readout_counter, bonus, spent, powered, on_for>>
  BY <1>0, <1>1 DEF SettleInv, Rest, Due, CycleDue
<1>2. CASE WakeUp
  <2>1. PICK l \in Late : Elapse(Rest + l)
    BY <1>2 DEF WakeUp, Rest
  <2>2. Rest + l \in Nat /\ on_for + (Rest + l) >= on_for + Rest
    BY <1>n
  <2>3. pc' = (IF Due' THEN "power_off" ELSE "init") /\ spent' = 0
    BY <1>0, <1>2 DEF WakeUp, Due, CycleDue
  <2>4. ASSUME ~Due' PROVE powered' /\ on_for' = Settle
    <3>1. ~Due
      BY <1>0, <1>2, <2>4, NextCountType DEF WakeUp, NextCount, Due, CycleDue, CountInv, CounterSuffices, TypeInv, TypeOK
    <3>2. powered /\ on_for + Rest >= Settle /\ powered' = powered
      BY <1>2, <3>1 DEF WakeUp, SettleInv, boardVars
    <3>3. on_for + (Rest + l) >= Settle
      BY <1>n, <2>2, <3>2
    <3> QED BY <1>n, <2>1, <2>2, <3>2, <3>3, PoweredLonger
  <2> QED BY <2>3, <2>4 DEF SettleInv
<1>3. CASE PowerDown
  <2>1. spent' \in Late
    BY <1>3 DEF PowerDown, Step, SettleInv
  <2>2. Due' /\ pc' \in {"power_on", "asleep"}
    BY <1>0, <1>3 DEF PowerDown, Step, BusWrite, Due, CycleDue, CountInv
  <2> QED BY <2>1, <2>2 DEF SettleInv
<1>4. CASE PowerUp
  <2>1. pc' = "asleep" /\ pc = "power_on"
    BY <1>4 DEF PowerUp, Step
  <2>2. ASSUME ~Due'
        PROVE  powered' /\ on_for' + Rest' >= Settle
    <3>1. PowersOn /\ bonus' = Settle + PowerOff
      BY <1>0, <1>4, <2>1, <2>2 DEF PowerUp, BusWrite, Due, CycleDue, CountInv
    <3>2. PICK l, m \in Late : spent = l /\ spent' = l + PowerOff + m
      BY <1>4, <2>1 DEF PowerUp, Step, SettleInv
    <3>3. l + m <= Interval /\ l \in Nat /\ m \in Nat
      BY DEF Punctual
    <3>4. Rest' >= Settle /\ Rest' \in Nat
      BY <3>1, <3>2, <3>3 DEF Rest
    <3>5. on_for' \in 0 .. Settle
      BY <1>4, <1>n, StepTime, ElapseType DEF PowerUp
    <3>6. on_for' + Rest' >= Settle
      BY <1>s, <3>4, <3>5, Zenon
    <3> QED BY <3>1, <3>6, Zenon DEF PowersOn
  <2> QED BY <2>1, <2>2 DEF SettleInv
<1>5. CASE InitReadout \/ ResetWatchdog
  <2>1. pc \in {"init", "watchdog"} /\ pc' \in {"readout", "asleep"}
    BY <1>5 DEF InitReadout, ResetWatchdog, Step, BusWrite
  <2>2. powered /\ on_for = Settle
    BY <2>1 DEF SettleInv
  <2>3. powered'
    BY <1>5, <2>2 DEF InitReadout, ResetWatchdog, BusWrite, boardVars
  <2>4. spent' - spent \in Nat /\ spent' \in Nat /\ Elapse(spent' - spent) /\ bonus' = bonus
    BY <1>5, <1>n, StepTime DEF InitReadout, ResetWatchdog
  <2>5. on_for' \in 0 .. Settle /\ on_for' >= on_for
    BY <1>n, <2>2, <2>3, <2>4, PoweredLonger, Zenon
  <2>6. on_for' = Settle
    BY <1>n, <2>2, <2>5
  <2>7. Rest' \in Nat
    <3>1. spent' \in Nat /\ bonus' \in Nat
      BY <1>n, <2>4
    <3> QED BY <1>r, <3>1, Zenon DEF Rest
  <2>8. on_for' + Rest' >= Settle
    BY <1>s, <2>5, <2>6, <2>7, Zenon
  <2> QED BY <2>1, <2>3, <2>6, <2>8, Zenon DEF SettleInv
<1>6. CASE ReadoutSensors
  <2>1. pc = "readout" /\ pc' \in {"watchdog", "asleep"} /\ powered' = powered
    BY <1>6 DEF ReadoutSensors, FailReadout, Step
  <2>2. powered /\ on_for = Settle
    BY <2>1 DEF SettleInv
  <2>4. spent' - spent \in Nat /\ spent' \in Nat /\ Elapse(spent' - spent) /\ bonus' = bonus
    BY <1>6, <1>n, StepTime DEF ReadoutSensors
  <2>5. on_for' \in 0 .. Settle /\ on_for' >= on_for
    BY <1>n, <2>1, <2>2, <2>4, PoweredLonger, Zenon
  <2>6. on_for' = Settle
    BY <1>n, <2>2, <2>5
  <2>7. Rest' \in Nat
    <3>1. spent' \in Nat /\ bonus' \in Nat
      BY <1>n, <2>4
    <3> QED BY <1>r, <3>1, Zenon DEF Rest
  <2>8. on_for' + Rest' >= Settle
    BY <1>s, <2>5, <2>6, <2>7, Zenon
  <2> QED BY <2>1, <2>2, <2>6, <2>8, Zenon DEF SettleInv
<1>7. CASE BoardReset
  <2>1. powered' /\ Elapse(0) /\ UNCHANGED <<pc, readout_counter, bonus, spent>>
    BY <1>7 DEF BoardReset, threadVars
  <2>2. powered => on_for' >= on_for /\ on_for' \in 0 .. Settle
    BY <1>n, <2>1, PoweredLonger
  <2>3. Rest' = Rest /\ (Due' <=> Due)
    BY <1>0, <2>1 DEF Rest, Due, CycleDue
  <2> QED BY <1>n, <2>1, <2>2, <2>3 DEF SettleInv
<1> QED
  BY <1>1, <1>2, <1>3, <1>4, <1>5, <1>6, <1>7
     DEF Next, GetInputPort, Consume, Complete, threadVars, boardVars, vars

\* Sensors are not read before they had their time to settle, whatever failed while they
\* were power cycled.
THEOREM SettledBeforeReadout ==
  ASSUME Punctual, CounterSuffices
  PROVE  Spec => []SensorsSettled
<1>1. Init => SettleInv
  BY Dht22ExpanderAssumption DEF Init, SettleInv, Rest
<1>2. SettleInv => SensorsSettled
  BY DEF SettleInv, SensorsSettled
<1>3. TypeInv /\ CountInv /\ [Next]_vars => CountInv'
  BY CountInvStep
<1>4. TypeInv /\ CountInv /\ SettleInv /\ [Next]_vars => SettleInv'
  BY SettleInvStep
<1> QED BY <1>1, <1>2, <1>3, <1>4, CountInvInit, TypeInvHolds, PTL DEF Spec
=============================================================================
