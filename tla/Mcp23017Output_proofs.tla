----------------------- MODULE Mcp23017Output_proofs -----------------------
(***************************************************************************)
(* Proofs about Mcp23017Output, for any ports, values, configuration and   *)
(* requests, and any number of failed writes.                              *)
(***************************************************************************)
EXTENDS Mcp23017Output, SequenceTheorems, TLAPS

(***************************************************************************)
(* The operations of the core and the steps of the universe: what they     *)
(* keep for every device.                                                  *)
(***************************************************************************)
\* An update of every port with readings or errors keeps the types of the core.
LEMMA UpdateValuesType ==
  ASSUME ReadCoreTypeOK, NEW new \in [Ports -> Results],
         NEW force \in BOOLEAN, NEW suppress \in BOOLEAN,
         UpdateValues(new, force, suppress)
  PROVE  ReadCoreTypeOK'
BY DEF ReadCoreTypeOK, UpdateValues, Results

\* poll_events keeps the types of the core, whether the queue yields an event or the task parks.
LEMMA PollEventsType ==
  ASSUME ReadCoreTypeOK, NEW p \in Ports, PollEvents(p)
  PROVE  ReadCoreTypeOK'
<1>1. CASE events[p] = <<>>
  BY <1>1 DEF ReadCoreTypeOK, PollEvents
<1>2. CASE events[p] # <<>>
  <2>1. events[p] \in Seq(Results)
    BY DEF ReadCoreTypeOK
  <2> DEFINE event == Head(events[p])
             rest == Tail(events[p])
  <2>2. event \in Results /\ rest \in Seq(Results)
    BY <1>2, <2>1
  <2>3. /\ events' = [events EXCEPT ![p] = rest] /\ received' = [received EXCEPT ![p] = event]
        /\ UNCHANGED <<device_values, mapped, wakers>>
    BY <1>2 DEF PollEvents
  <2> HIDE DEF event, rest
  <2> QED BY <2>2, <2>3 DEF ReadCoreTypeOK
<1> QED BY <1>1, <1>2

\* The last element of a queue stays the last when the first is taken, or is the first.
LEMMA TailLast ==
  ASSUME NEW S, NEW s \in Seq(S), s # <<>>
  PROVE  /\ Tail(s) = <<>> => Head(s) = s[Len(s)]
         /\ Tail(s) # <<>> => Tail(s)[Len(Tail(s))] = s[Len(s)]
<1>1. /\ Len(Tail(s)) = Len(s) - 1 /\ Len(s) \in Nat \ {0} /\ Tail(s) \in Seq(S)
      /\ \A i \in 1 .. Len(Tail(s)) : Tail(s)[i] = s[i + 1]
  BY HeadTailProperties
<1>2. Len(<<>>) = 0 /\ \A t \in Seq(S) : t # <<>> => Len(t) \in Nat \ {0}
  BY EmptySeq, Zenon
<1>3. ASSUME Tail(s) = <<>>
      PROVE  Head(s) = s[Len(s)]
  <2>1. Len(s) \in Nat /\ Len(s) - 1 = 0
    BY <1>1, <1>2, <1>3, Zenon
  <2>2. Len(s) = 1
    BY <2>1
  <2> QED BY <2>2
<1>4. ASSUME Tail(s) # <<>>
      PROVE  Tail(s)[Len(Tail(s))] = s[Len(s)]
  <2>1. Len(Tail(s)) \in Nat \ {0}
    BY <1>1, <1>2, <1>4
  <2> QED BY <1>1, <2>1
<1> QED BY <1>3, <1>4

\* A poll moves the oldest event from the queue to the consumer, or parks it: the
\* latest event of every port stays what it is, and no event is made up.
LEMMA PollEventsLatest ==
  ASSUME ReadCoreTypeOK, NEW q \in Ports, PollEvents(q), NEW p \in Ports
  PROVE  LatestEvent(p)' = LatestEvent(p) /\ (events[p] = <<>> => events'[p] = <<>>)
<1>1. CASE events[q] = <<>> \/ p # q
  BY <1>1 DEF PollEvents, LatestEvent, ReadCoreTypeOK
<1>2. CASE events[q] # <<>> /\ p = q
  <2>1. events'[q] = Tail(events[q]) /\ received'[q] = Head(events[q])
    BY <1>2 DEF PollEvents, ReadCoreTypeOK
  <2>2. events[q] \in Seq(Results)
    BY DEF ReadCoreTypeOK
  <2> QED BY <1>2, <2>1, <2>2, TailLast, Zenon DEF LatestEvent
<1> QED BY <1>1, <1>2

\* finish_update keeps the types of the core, whether the write succeeded or not.
LEMMA FinishUpdateType ==
  ASSUME CoreTypeOK, NEW ok \in BOOLEAN, NEW written \in Buffers,
         NEW force \in BOOLEAN, NEW suppress \in BOOLEAN,
         FinishUpdate(ok, written, force, suppress)
  PROVE  CoreTypeOK'
<1>1. written \in [Ports -> Results] /\ AllFailed \in [Ports -> Results]
  BY RWCoreAssumption DEF Buffers, Results, AllFailed
<1>2. ReadCoreTypeOK'
  BY <1>1, UpdateValuesType DEF FinishUpdate, CoreTypeOK
<1> QED BY <1>2 DEF CoreTypeOK, FinishUpdate

\* So does set, for the values a request can carry.
LEMMA SetBufferedType ==
  ASSUME CoreTypeOK, NEW p \in Ports, NEW v \in Values, SetBuffered(p, v)
  PROVE  CoreTypeOK'
BY DEF CoreTypeOK, ReadCoreTypeOK, SetBuffered, Buffers, readCoreVars

\* Startup, requests and event tasks keep the types of core and universe.
LEMMA UniverseStepType ==
  ASSUME CoreTypeOK, UniverseTypeOK, UniverseStep
  PROVE  CoreTypeOK' /\ UniverseTypeOK'
<1> USE UniverseAssumption
<1>1. ASSUME NEW p \in Configured, MapPort(p)
      PROVE  CoreTypeOK' /\ UniverseTypeOK'
  BY <1>1 DEF MapPort, GetOutputPort, SetUpEvents, CoreTypeOK, ReadCoreTypeOK, UniverseTypeOK
<1>2. ASSUME NEW p \in Configured, SetDefault(p)
      PROVE  CoreTypeOK' /\ UniverseTypeOK'
  <2>1. UniverseTypeOK'
    BY <1>2 DEF SetDefault, UniverseTypeOK
  <2>2. CASE Default[p] # NoValue
    BY <1>2, <2>1, <2>2, SetBufferedType DEF SetDefault
  <2>3. CASE Default[p] = NoValue
    BY <1>2, <2>1, <2>3 DEF SetDefault, coreVars, readCoreVars, CoreTypeOK, ReadCoreTypeOK
  <2> QED BY <2>2, <2>3
<1>3. ASSUME NEW r \in Requests, ReceiveRequest(r)
      PROVE  CoreTypeOK' /\ UniverseTypeOK'
  <2>1. targets' \in Seq(Targets) /\ served' \in 0 .. MaxRequests
    BY <1>3 DEF ReceiveRequest, UniverseTypeOK
  <2>2. CoreTypeOK'
    BY <1>3 DEF ReceiveRequest, CoreTypeOK, ReadCoreTypeOK, coreVars, readCoreVars
  <2> QED BY <1>3, <2>1, <2>2 DEF ReceiveRequest, UniverseTypeOK
<1>4. ASSUME SetAddress
      PROVE  CoreTypeOK' /\ UniverseTypeOK'
  <2>1. Head(targets) \in Targets /\ Tail(targets) \in Seq(Targets)
    BY <1>4 DEF SetAddress, UniverseTypeOK
  <2>2. UniverseTypeOK'
    BY <1>4, <2>1 DEF SetAddress, UniverseTypeOK
  <2>3. CASE Head(targets).target \in mapped
    BY <1>4, <2>1, <2>2, <2>3, SetBufferedType
       DEF SetAddress, Targets, CoreTypeOK, ReadCoreTypeOK
  <2>4. CASE Head(targets).target \notin mapped
    BY <1>4, <2>2, <2>4 DEF SetAddress, coreVars, readCoreVars, CoreTypeOK, ReadCoreTypeOK
  <2> QED BY <2>3, <2>4
<1>5. ASSUME RejectAlias
      PROVE  CoreTypeOK' /\ UniverseTypeOK'
  BY <1>5 DEF RejectAlias, CoreTypeOK, ReadCoreTypeOK, UniverseTypeOK, coreVars, readCoreVars
<1>6. ASSUME NEW p \in Ports, PollStream(p)
      PROVE  CoreTypeOK' /\ UniverseTypeOK'
  BY <1>6, PollEventsType DEF PollStream, CoreTypeOK, UniverseTypeOK, universeVars
<1> QED BY <1>1, <1>2, <1>3, <1>4, <1>5, <1>6 DEF UniverseStep

\* A universe step may set values, and then leaves the core dirty.
LEMMA UniverseStepBuffer ==
  ASSUME CoreTypeOK, UniverseTypeOK, UniverseStep, ~dirty'
  PROVE  ~dirty /\ buffered_values' = buffered_values
<1> USE UniverseAssumption
<1>1. ASSUME NEW p \in Ports, NEW v \in Values, SetBuffered(p, v)
      PROVE  ~dirty /\ buffered_values' = buffered_values
  BY <1>1 DEF SetBuffered, CoreTypeOK, Buffers
<1>2. ASSUME NEW p \in Configured, MapPort(p) \/ SetDefault(p)
      PROVE  ~dirty /\ buffered_values' = buffered_values
  BY <1>1, <1>2 DEF MapPort, GetOutputPort, SetDefault, coreVars
<1>3. ASSUME SetAddress
      PROVE  ~dirty /\ buffered_values' = buffered_values
  <2>1. Head(targets) \in Targets
    BY <1>3 DEF SetAddress, UniverseTypeOK
  <2> QED
    BY <1>1, <1>3, <2>1 DEF SetAddress, Targets, coreVars, CoreTypeOK, ReadCoreTypeOK
<1> QED
  BY <1>2, <1>3 DEF UniverseStep, ReceiveRequest, RejectAlias, PollStream, coreVars

(***************************************************************************)
(* Reports and events.  A port that is not mapped has neither; for every   *)
(* port the latest event is the report.                                    *)
(***************************************************************************)
StreamInv ==
  \A p \in Ports :
    /\ LatestEvent(p) = device_values[p]
    /\ p \notin mapped => device_values[p] = NoValue /\ events[p] = <<>>

\* One port in update_value_and_generate_events: no event only if nothing changed.
LEMMA UpdateValuesStream ==
  ASSUME ReadCoreTypeOK, StreamInv, NEW new \in [Ports -> Results],
         NEW force \in BOOLEAN, UpdateValues(new, force, FALSE)
  PROVE  StreamInv'
<1> SUFFICES ASSUME NEW p \in Ports
             PROVE  /\ LatestEvent(p)' = device_values'[p]
                    /\ p \notin mapped' => device_values'[p] = NoValue /\ events'[p] = <<>>
  BY DEF StreamInv
<1>1. events[p] \in Seq(Results) /\ new[p] \in Results
  BY DEF ReadCoreTypeOK
<1>2. CASE p \in mapped /\ GeneratesEvent(device_values[p], new[p], force, FALSE)
  <2>1. events'[p] = Append(events[p], new[p]) /\ device_values'[p] = new[p] /\ p \in mapped'
    BY <1>2 DEF UpdateValues
  <2>2. Append(events[p], new[p]) # <<>>
        /\ Append(events[p], new[p])[Len(Append(events[p], new[p]))] = new[p]
    BY <1>1
  <2> QED BY <2>1, <2>2 DEF LatestEvent
<1>3. CASE p \in mapped /\ ~GeneratesEvent(device_values[p], new[p], force, FALSE)
  <2>1. new[p] = device_values[p]
    BY <1>3 DEF GeneratesEvent
  <2> QED BY <1>3, <2>1 DEF UpdateValues, StreamInv, LatestEvent
<1>4. CASE p \notin mapped
  BY <1>4 DEF UpdateValues, StreamInv, LatestEvent
<1> QED BY <1>2, <1>3, <1>4

\* A poll keeps StreamInv.
LEMMA PollEventsStream ==
  ASSUME ReadCoreTypeOK, StreamInv, NEW q \in Ports, PollEvents(q)
  PROVE  StreamInv'
<1>1. device_values' = device_values /\ mapped' = mapped
  BY DEF PollEvents
<1>2. \A p \in Ports : LatestEvent(p)' = LatestEvent(p) /\ (events[p] = <<>> => events'[p] = <<>>)
  BY PollEventsLatest
<1> QED BY <1>1, <1>2, Zenon DEF StreamInv

-----------------------------------------------------------------------------
\* TypeOK is inductive: every variable of the core, the universe and the
\* worker keeps its type in all reachable states.
THEOREM TypeCorrect == Spec => []TypeOK
<1> USE UniverseAssumption, FaultAssumption
<1>1. Init => TypeOK
  <2> SUFFICES ASSUME Init
               PROVE  TypeOK
    OBVIOUS
  <2>1. CoreTypeOK
    BY RWCoreAssumption DEF Init, CoreInitDirty, ReadCoreInit, CoreTypeOK, ReadCoreTypeOK, Buffers
  <2>2. failures \in BOOLEAN /\ write_ok \in BOOLEAN
    BY Zenon DEF Init, UniverseInit
  <2>3. served \in 0 .. MaxRequests /\ faults \in 0 .. MaxFaults /\ targets \in Seq(Targets)
    BY DEF Init, UniverseInit
  <2>4. UniverseTypeOK
    BY <2>2, <2>3, Zenon DEF Init, UniverseInit, UniverseTypeOK
  <2> QED BY <2>1, <2>2, <2>3, <2>4, Zenon DEF Init, TypeOK, CoreTypeOK
<1>2. TypeOK /\ [Next]_vars => TypeOK'
  <2> SUFFICES ASSUME TypeOK, [Next]_vars
               PROVE  TypeOK'
    OBVIOUS
  <2>1. CASE UniverseStep /\ UNCHANGED workerVars
    BY <2>1, UniverseStepType DEF TypeOK, workerVars
  <2>2. CASE Update
    BY <2>2 DEF Update, AnswerRequest, TypeOK, CoreTypeOK, ReadCoreTypeOK,
                UniverseTypeOK, coreVars, readCoreVars
  <2>3. CASE Take
    BY <2>3 DEF Take, TypeOK, CoreTypeOK, ReadCoreTypeOK, UniverseTypeOK,
                readCoreVars, universeVars
  <2>4. CASE Wait \/ SpuriousWakeup \/ WriteSucceeds \/ WriteFails
    <3>1. CoreTypeOK' /\ UniverseTypeOK'
      BY <2>4 DEF Wait, SpuriousWakeup, WriteSucceeds, WriteFails, TypeOK, CoreTypeOK,
                  ReadCoreTypeOK, UniverseTypeOK, coreVars, readCoreVars, universeVars
    <3>2. Registers(snapshot) \in [Ports -> BOOLEAN]
      BY DEF TypeOK, Buffers, Registers, Level
    <3>3. latched' \in [Ports -> BOOLEAN]
      BY <2>4, <3>2 DEF Wait, SpuriousWakeup, WriteSucceeds, WriteFails, TypeOK
    <3>4. faults' \in 0 .. MaxFaults
      BY <2>4 DEF Wait, SpuriousWakeup, WriteSucceeds, WriteFails, TypeOK
    <3> QED
      BY <2>4, <3>1, <3>3, <3>4 DEF Wait, SpuriousWakeup, WriteSucceeds, WriteFails, TypeOK
  <2>5. CASE Finish
    BY <2>5, FinishUpdateType DEF Finish, TypeOK, UniverseTypeOK, universeVars
  <2>6. CASE UNCHANGED vars
    BY <2>6 DEF vars, workerVars, universeVars, coreVars, readCoreVars, TypeOK,
                CoreTypeOK, ReadCoreTypeOK, UniverseTypeOK
  <2> QED BY <2>1, <2>2, <2>3, <2>4, <2>5, <2>6 DEF Next, Worker
<1> QED BY <1>1, <1>2, PTL DEF Spec

-----------------------------------------------------------------------------
(***************************************************************************)
(* The dirty bit.  CleanMeansWritten is not inductive: it says nothing     *)
(* while a write is on its way.  There, a clean core means that the copy   *)
(* is still the buffer, and a write that succeeded put the copy on the     *)
(* chip.                                                                   *)
(***************************************************************************)
WriteInv ==
  /\ CleanMeansWritten
  /\ pc \in {"writing", "finishing"} /\ ~dirty => snapshot = buffered_values
  /\ pc = "finishing" /\ write_ok => latched = Registers(snapshot)

\* No step of the worker, the universe or a client breaks WriteInv.
LEMMA WriteInvStep ==
  ASSUME TypeOK, WriteInv, [Next]_vars
  PROVE  WriteInv'
<1> USE DEF WriteInv, CleanMeansWritten
<1>1. CASE UniverseStep /\ UNCHANGED workerVars
  BY <1>1, UniverseStepBuffer DEF workerVars, TypeOK, Registers
<1>2. CASE Update
  BY <1>2 DEF Update, coreVars, Registers
<1>3. CASE Take
  BY <1>3 DEF Take, Registers
<1>4. CASE Wait \/ SpuriousWakeup
  BY <1>4 DEF Wait, SpuriousWakeup, coreVars, Registers
<1>5. CASE WriteSucceeds \/ WriteFails
  BY <1>5, Zenon DEF WriteSucceeds, WriteFails, coreVars, Registers
<1>6. CASE Finish
  BY <1>6 DEF Finish, FinishUpdate, Registers
<1>7. CASE UNCHANGED vars
  BY <1>7 DEF vars, workerVars, coreVars, Registers
<1> QED BY <1>1, <1>2, <1>3, <1>4, <1>5, <1>6, <1>7 DEF Next, Worker

\* Whenever the worker is between two writes and the core is clean, the chip
\* shows the buffer, whatever was set or failed in between.
THEOREM CleanIsWritten == Spec => []CleanMeansWritten
<1>1. Init => WriteInv
  BY DEF Init, CoreInitDirty, WriteInv, CleanMeansWritten
<1>2. TypeOK /\ WriteInv /\ [Next]_vars => WriteInv'
  BY WriteInvStep
<1>3. WriteInv => CleanMeansWritten
  BY DEF WriteInv
<1> QED BY <1>1, <1>2, <1>3, TypeCorrect, PTL DEF Spec

-----------------------------------------------------------------------------
(***************************************************************************)
(* No lost wake-up.  The dirty bit can only be set while the worker waits  *)
(* by a set, and every set is part of the startup or of a request.         *)
(***************************************************************************)
AwakeInv ==
  /\ AcknowledgedIsAwake
  /\ http = "setting" \/ reply = "ok" => Serving

\* No step breaks AwakeInv: update wakes the worker exactly when it matters.
LEMMA AwakeInvStep ==
  ASSUME TypeOK, AwakeInv, [Next]_vars
  PROVE  AwakeInv'
<1> USE DEF AwakeInv, AcknowledgedIsAwake, Acknowledged, Serving
<1>1. CASE UniverseStep /\ UNCHANGED workerVars
  <2>1. ASSUME NEW p \in Configured, MapPort(p) \/ SetDefault(p)
        PROVE  AwakeInv'
    BY <2>1, UniverseAssumption DEF MapPort, SetDefault
  <2>2. ASSUME NEW r \in Requests, ReceiveRequest(r)
        PROVE  AwakeInv'
    BY <2>2 DEF ReceiveRequest
  <2>3. CASE SetAddress \/ RejectAlias
    BY <2>3 DEF SetAddress, RejectAlias
  <2>4. ASSUME NEW p \in Ports, PollStream(p)
        PROVE  AwakeInv'
    BY <1>1, <2>4 DEF PollStream, universeVars, workerVars
  <2> QED BY <1>1, <2>1, <2>2, <2>3, <2>4 DEF UniverseStep
<1>2. CASE Update
  BY <1>2 DEF Update, AnswerRequest, coreVars
<1>3. CASE Take \/ Wait \/ WriteSucceeds \/ WriteFails \/ Finish \/ SpuriousWakeup
  <2>1. UNCHANGED universeVars /\ (pc' = "waiting" => ~dirty')
    <3>1. CASE Wait
      BY <3>1 DEF Wait, coreVars
    <3>2. CASE Take \/ WriteSucceeds \/ WriteFails \/ Finish \/ SpuriousWakeup
      BY <3>2 DEF Take, WriteSucceeds, WriteFails, Finish, SpuriousWakeup
    <3> QED BY <1>3, <3>1, <3>2
  <2> QED BY <2>1 DEF universeVars
<1>4. CASE UNCHANGED vars
  BY <1>4 DEF vars, workerVars, coreVars, universeVars
<1> QED BY <1>1, <1>2, <1>3, <1>4 DEF Next, Worker

\* Once a request was answered with OK, the worker never sleeps on a dirty core.
THEOREM NoLostWakeup == Spec => []AcknowledgedIsAwake
<1>1. Init => AwakeInv
  BY DEF Init, UniverseInit, AwakeInv, AcknowledgedIsAwake, Acknowledged
<1>2. TypeOK /\ AwakeInv /\ [Next]_vars => AwakeInv'
  BY AwakeInvStep
<1>3. AwakeInv => AcknowledgedIsAwake
  BY DEF AwakeInv
<1> QED BY <1>1, <1>2, <1>3, TypeCorrect, PTL DEF Spec

-----------------------------------------------------------------------------
(***************************************************************************)
(* Reports and events: every step keeps StreamInv, and with it every       *)
(* subscriber up to date.                                                  *)
(***************************************************************************)
\* No step breaks StreamInv.
LEMMA StreamInvStep ==
  ASSUME TypeOK, StreamInv, [Next]_vars
  PROVE  StreamInv'
<1>1. CASE UniverseStep /\ UNCHANGED workerVars
  <2>1. ASSUME NEW p \in Ports, PollStream(p)
        PROVE  StreamInv'
    BY <2>1, PollEventsStream DEF PollStream, TypeOK, CoreTypeOK
  <2>2. ASSUME NEW p \in Configured, MapPort(p)
        PROVE  StreamInv'
    BY <2>2, UniverseAssumption
       DEF MapPort, GetOutputPort, SetUpEvents, StreamInv, LatestEvent, TypeOK, CoreTypeOK,
           ReadCoreTypeOK
  <2>3. CASE \/ \E p \in Configured : SetDefault(p)
             \/ \E r \in Requests : ReceiveRequest(r)
             \/ SetAddress
             \/ RejectAlias
    BY <2>3 DEF SetDefault, ReceiveRequest, SetAddress, RejectAlias, SetBuffered, coreVars,
                readCoreVars, StreamInv, LatestEvent
  <2> QED BY <1>1, <2>1, <2>2, <2>3 DEF UniverseStep
<1>2. CASE Update \/ Take \/ Wait \/ WriteSucceeds \/ WriteFails \/ SpuriousWakeup
  BY <1>2 DEF Update, Take, Wait, WriteSucceeds, WriteFails, SpuriousWakeup, coreVars,
              readCoreVars, StreamInv, LatestEvent
<1>3. CASE Finish
  <2>1. snapshot \in [Ports -> Results] /\ AllFailed \in [Ports -> Results]
    BY RWCoreAssumption DEF TypeOK, Buffers, Results, AllFailed
  <2> QED
    BY <1>3, <2>1, UpdateValuesStream DEF Finish, FinishUpdate, TypeOK, CoreTypeOK
<1>4. CASE UNCHANGED vars
  BY <1>4 DEF vars, coreVars, readCoreVars, StreamInv, LatestEvent
<1> QED BY <1>1, <1>2, <1>3, <1>4 DEF Next, Worker

\* The last event of each mapped port, queued or delivered, is what the device
\* reports for it: an event is skipped only if it would repeat the previous one.
THEOREM SubscribersUpToDate == Spec => []SubscriberUpToDate
<1>1. Init => StreamInv
  BY DEF Init, CoreInitDirty, ReadCoreInit, StreamInv, LatestEvent
<1>2. TypeOK /\ StreamInv /\ [Next]_vars => StreamInv'
  BY StreamInvStep
<1>3. TypeOK /\ StreamInv => SubscriberUpToDate
  BY DEF StreamInv, SubscriberUpToDate, TypeOK, CoreTypeOK, ReadCoreTypeOK
<1> QED BY <1>1, <1>2, <1>3, TypeCorrect, PTL DEF Spec

\* No step breaks ReportedMeansWritten, given the invariants above.
LEMMA ReportInvStep ==
  ASSUME TypeOK, WriteInv, StreamInv, ReportedMeansWritten, [Next]_vars
  PROVE  ReportedMeansWritten'
<1> USE DEF ReportedMeansWritten
<1>1. CASE UniverseStep /\ UNCHANGED workerVars
  <2>1. UNCHANGED device_values
    BY <1>1 DEF UniverseStep, MapPort, GetOutputPort, SetDefault, ReceiveRequest, SetAddress,
                RejectAlias, PollStream, PollEvents, SetBuffered, coreVars, readCoreVars
  <2> QED BY <1>1, <2>1 DEF workerVars
<1>2. CASE Update \/ Take \/ Wait \/ SpuriousWakeup
  BY <1>2 DEF Update, Take, Wait, SpuriousWakeup, coreVars, readCoreVars
<1>3. CASE WriteSucceeds \/ WriteFails
  BY <1>3 DEF WriteSucceeds, WriteFails
<1>4. CASE Finish
  <2> SUFFICES ASSUME NEW p \in Ports, device_values'[p] \in Values
               PROVE  latched'[p] = Level[device_values'[p]]
    OBVIOUS
  <2>1. NoValue \notin Values /\ Err \notin Values
    BY ReadCoreAssumption, RWCoreAssumption
  <2>2. p \in mapped
    BY <1>4, <2>1 DEF Finish, FinishUpdate, UpdateValues, StreamInv
  <2>3. write_ok /\ device_values'[p] = snapshot[p]
    BY <1>4, <2>1, <2>2 DEF Finish, FinishUpdate, UpdateValues, AllFailed
  <2>4. latched' = Registers(snapshot)
    BY <1>4, <2>3 DEF Finish, WriteInv
  <2> QED BY <2>3, <2>4 DEF Registers
<1>5. CASE UNCHANGED vars
  BY <1>5 DEF vars, workerVars, coreVars, readCoreVars
<1> QED BY <1>1, <1>2, <1>3, <1>4, <1>5 DEF Next, Worker

\* A value a port reports is on the chip, except between a write and its report.
THEOREM ReportedIsWritten == Spec => []ReportedMeansWritten
<1>1. Init => WriteInv /\ StreamInv /\ ReportedMeansWritten
  BY ReadCoreAssumption, RWCoreAssumption
     DEF Init, CoreInitDirty, ReadCoreInit, WriteInv, CleanMeansWritten, StreamInv, LatestEvent,
         ReportedMeansWritten
<1>2. TypeOK /\ WriteInv /\ StreamInv /\ ReportedMeansWritten /\ [Next]_vars
        => WriteInv' /\ StreamInv' /\ ReportedMeansWritten'
  BY WriteInvStep, StreamInvStep, ReportInvStep
<1> QED BY <1>1, <1>2, TypeCorrect, PTL DEF Spec

-----------------------------------------------------------------------------
(***************************************************************************)
(* Refinement: the expander is an OutputDevice.                            *)
(***************************************************************************)
\* The chip only shows whole buffers, or what a failed write of one left, and
\* once it got a buffer it never goes back to one superseded before.
THEOREM Refinement == Spec => ImplementsOutputDevice
<1>1. Init => Device!Init
  BY RWCoreAssumption
     DEF Init, CoreInitDirty, Device!Init, Device!Buffers, Pending
<1>2. TypeOK /\ [Next]_vars => [Device!Next]_Device!vars
  <2> SUFFICES ASSUME TypeOK, [Next]_vars
               PROVE  Device!Next \/ UNCHANGED Device!vars
    OBVIOUS
  <2> USE DEF Pending, Device!vars
  <2>1. ASSUME NEW p \in Ports, NEW v \in Values, SetBuffered(p, v), UNCHANGED workerVars
        PROVE  Device!Next
    BY <2>1 DEF SetBuffered, workerVars, Device!Next, Device!Set
  <2>2. CASE UniverseStep /\ UNCHANGED workerVars
    <3>1. ASSUME NEW p \in Configured, MapPort(p) \/ SetDefault(p)
          PROVE  Device!Next \/ UNCHANGED Device!vars
      BY <2>1, <2>2, <3>1, UniverseAssumption
         DEF MapPort, GetOutputPort, SetDefault, coreVars, workerVars
    <3>2. CASE SetAddress
      <4>1. Head(targets) \in Targets
        BY <3>2 DEF SetAddress, TypeOK, UniverseTypeOK
      <4> QED
        BY <2>1, <2>2, <3>2, <4>1
           DEF SetAddress, Targets, coreVars, workerVars, TypeOK, CoreTypeOK, ReadCoreTypeOK
    <3>3. CASE \/ \E r \in Requests : ReceiveRequest(r)
               \/ RejectAlias
               \/ \E p \in Ports : PollStream(p)
      BY <2>2, <3>3 DEF ReceiveRequest, RejectAlias, PollStream, coreVars, workerVars
    <3> QED BY <2>2, <3>1, <3>2, <3>3 DEF UniverseStep
  <2>3. CASE Update \/ Wait \/ SpuriousWakeup
    BY <2>3 DEF Update, Wait, SpuriousWakeup, coreVars
  <2>4. CASE Take
    BY <2>4 DEF Take
  <2>5. CASE WriteSucceeds
    BY <2>5 DEF WriteSucceeds, coreVars, Registers, Device!Next, Device!Write
  <2>6. CASE WriteFails
    <3>1. /\ latched' \in [Ports -> BOOLEAN]
          /\ \A p \in Ports : latched'[p] \in {latched[p], Level[snapshot[p]]}
      BY <2>6 DEF WriteFails, Registers, TypeOK, Buffers, Level
    <3> QED BY <2>6, <3>1 DEF WriteFails, coreVars, Device!Next, Device!Tear
  <2>7. CASE Finish
    BY <2>7 DEF Finish, FinishUpdate
  <2>8. CASE UNCHANGED vars
    BY <2>8 DEF vars, workerVars, coreVars
  <2> QED BY <2>2, <2>3, <2>4, <2>5, <2>6, <2>7, <2>8 DEF Next, Worker
<1> QED BY <1>1, <1>2, TypeCorrect, PTL DEF Spec, ImplementsOutputDevice, Device!Spec
=============================================================================
