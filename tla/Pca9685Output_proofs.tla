------------------------ MODULE Pca9685Output_proofs ------------------------
(***************************************************************************)
(* Proofs about Pca9685Output, synchronized or not, for any ports, values, *)
(* scalings, configuration and requests, and any number of failures.       *)
(***************************************************************************)
EXTENDS Pca9685Output, SequenceTheorems, TLAPS

(***************************************************************************)
(* The operations of the core and the steps of the universe: what they     *)
(* keep for every device.                                                  *)
(***************************************************************************)
\* An update of every port with readings or errors keeps the types of the core.
LEMMA UpdateValuesType ==
  ASSUME ReadCoreTypeOK, NEW new \in [Ports -> Results],
         NEW force \in BOOLEAN, NEW suppress \in BOOLEAN,
         UpdateValues(new, force, suppress)
  PROVE  ReadCoreTypeOK'
BY DEF ReadCoreTypeOK, UpdateValues, Results

\* poll_events keeps the types of the core, whether the queue yields an event or the task parks.
LEMMA PollEventsType ==
  ASSUME ReadCoreTypeOK, NEW p \in Ports, PollEvents(p)
  PROVE  ReadCoreTypeOK'
<1>1. CASE events[p] = <<>>
  BY <1>1 DEF ReadCoreTypeOK, PollEvents
<1>2. CASE events[p] # <<>>
  <2>1. events[p] \in Seq(Results)
    BY DEF ReadCoreTypeOK
  <2> DEFINE event == Head(events[p])
             rest == Tail(events[p])
  <2>2. event \in Results /\ rest \in Seq(Results)
    BY <1>2, <2>1
  <2>3. /\ events' = [events EXCEPT ![p] = rest] /\ received' = [received EXCEPT ![p] = event]
        /\ UNCHANGED <<device_values, mapped, wakers>>
    BY <1>2 DEF PollEvents
  <2> HIDE DEF event, rest
  <2> QED BY <2>2, <2>3 DEF ReadCoreTypeOK
<1> QED BY <1>1, <1>2

\* The last element of a queue stays the last when the first is taken, or is the first.
LEMMA TailLast ==
  ASSUME NEW S, NEW s \in Seq(S), s # <<>>
  PROVE  /\ Tail(s) = <<>> => Head(s) = s[Len(s)]
         /\ Tail(s) # <<>> => Tail(s)[Len(Tail(s))] = s[Len(s)]
<1>1. /\ Len(Tail(s)) = Len(s) - 1 /\ Len(s) \in Nat \ {0} /\ Tail(s) \in Seq(S)
      /\ \A i \in 1 .. Len(Tail(s)) : Tail(s)[i] = s[i + 1]
  BY HeadTailProperties
<1>2. Len(<<>>) = 0 /\ \A t \in Seq(S) : t # <<>> => Len(t) \in Nat \ {0}
  BY EmptySeq, Zenon
<1>3. ASSUME Tail(s) = <<>>
      PROVE  Head(s) = s[Len(s)]
  <2>1. Len(s) \in Nat /\ Len(s) - 1 = 0
    BY <1>1, <1>2, <1>3, Zenon
  <2>2. Len(s) = 1
    BY <2>1
  <2> QED BY <2>2
<1>4. ASSUME Tail(s) # <<>>
      PROVE  Tail(s)[Len(Tail(s))] = s[Len(s)]
  <2>1. Len(Tail(s)) \in Nat \ {0}
    BY <1>1, <1>2, <1>4
  <2> QED BY <1>1, <2>1
<1> QED BY <1>3, <1>4

\* A poll moves the oldest event from the queue to the consumer, or parks it: the
\* latest event of every port stays what it is, and no event is made up.
LEMMA PollEventsLatest ==
  ASSUME ReadCoreTypeOK, NEW q \in Ports, PollEvents(q), NEW p \in Ports
  PROVE  LatestEvent(p)' = LatestEvent(p) /\ (events[p] = <<>> => events'[p] = <<>>)
<1>1. CASE events[q] = <<>> \/ p # q
  BY <1>1 DEF PollEvents, LatestEvent, ReadCoreTypeOK
<1>2. CASE events[q] # <<>> /\ p = q
  <2>1. events'[q] = Tail(events[q]) /\ received'[q] = Head(events[q])
    BY <1>2 DEF PollEvents, ReadCoreTypeOK
  <2>2. events[q] \in Seq(Results)
    BY DEF ReadCoreTypeOK
  <2> QED BY <1>2, <2>1, <2>2, TailLast, Zenon DEF LatestEvent
<1> QED BY <1>1, <1>2

\* finish_update keeps the types of the core, whether the write succeeded or not.
LEMMA FinishUpdateType ==
  ASSUME CoreTypeOK, NEW done \in BOOLEAN, NEW written \in Buffers,
         NEW force \in BOOLEAN, NEW suppress \in BOOLEAN,
         FinishUpdate(done, written, force, suppress)
  PROVE  CoreTypeOK'
<1>1. written \in [Ports -> Results] /\ AllFailed \in [Ports -> Results]
  BY RWCoreAssumption DEF Buffers, Results, AllFailed
<1>2. ReadCoreTypeOK'
  BY <1>1, UpdateValuesType DEF FinishUpdate, CoreTypeOK
<1> QED BY <1>2 DEF CoreTypeOK, FinishUpdate

\* So does set, for the values a request can carry.
LEMMA SetBufferedType ==
  ASSUME CoreTypeOK, NEW p \in Ports, NEW v \in Values, SetBuffered(p, v)
  PROVE  CoreTypeOK'
BY DEF CoreTypeOK, ReadCoreTypeOK, SetBuffered, Buffers, readCoreVars

\* Startup, requests and event tasks keep the types of core and universe.
LEMMA UniverseStepType ==
  ASSUME CoreTypeOK, UniverseTypeOK, UniverseStep
  PROVE  CoreTypeOK' /\ UniverseTypeOK'
<1> USE UniverseAssumption
<1>1. ASSUME NEW p \in Configured, MapPort(p)
      PROVE  CoreTypeOK' /\ UniverseTypeOK'
  BY <1>1 DEF MapPort, GetOutputPort, SetUpEvents, CoreTypeOK, ReadCoreTypeOK, UniverseTypeOK
<1>2. ASSUME NEW p \in Configured, SetDefault(p)
      PROVE  CoreTypeOK' /\ UniverseTypeOK'
  <2>1. UniverseTypeOK'
    BY <1>2 DEF SetDefault, UniverseTypeOK
  <2>2. CASE Default[p] # NoValue
    BY <1>2, <2>1, <2>2, SetBufferedType DEF SetDefault
  <2>3. CASE Default[p] = NoValue
    BY <1>2, <2>1, <2>3 DEF SetDefault, coreVars, readCoreVars, CoreTypeOK, ReadCoreTypeOK
  <2> QED BY <2>2, <2>3
<1>3. ASSUME NEW r \in Requests, ReceiveRequest(r)
      PROVE  CoreTypeOK' /\ UniverseTypeOK'
  <2>1. targets' \in Seq(Targets) /\ served' \in 0 .. MaxRequests
    BY <1>3 DEF ReceiveRequest, UniverseTypeOK
  <2>2. CoreTypeOK'
    BY <1>3 DEF ReceiveRequest, CoreTypeOK, ReadCoreTypeOK, coreVars, readCoreVars
  <2> QED BY <1>3, <2>1, <2>2 DEF ReceiveRequest, UniverseTypeOK
<1>4. ASSUME SetAddress
      PROVE  CoreTypeOK' /\ UniverseTypeOK'
  <2>1. Head(targets) \in Targets /\ Tail(targets) \in Seq(Targets)
    BY <1>4 DEF SetAddress, UniverseTypeOK
  <2>2. UniverseTypeOK'
    BY <1>4, <2>1 DEF SetAddress, UniverseTypeOK
  <2>3. CASE Head(targets).target \in mapped
    BY <1>4, <2>1, <2>2, <2>3, SetBufferedType
       DEF SetAddress, Targets, CoreTypeOK, ReadCoreTypeOK
  <2>4. CASE Head(targets).target \notin mapped
    BY <1>4, <2>2, <2>4 DEF SetAddress, coreVars, readCoreVars, CoreTypeOK, ReadCoreTypeOK
  <2> QED BY <2>3, <2>4
<1>5. ASSUME RejectAlias
      PROVE  CoreTypeOK' /\ UniverseTypeOK'
  BY <1>5 DEF RejectAlias, CoreTypeOK, ReadCoreTypeOK, UniverseTypeOK, coreVars, readCoreVars
<1>6. ASSUME NEW p \in Ports, PollStream(p)
      PROVE  CoreTypeOK' /\ UniverseTypeOK'
  BY <1>6, PollEventsType DEF PollStream, CoreTypeOK, UniverseTypeOK, universeVars
<1> QED BY <1>1, <1>2, <1>3, <1>4, <1>5, <1>6 DEF UniverseStep

\* A universe step may set values, and then leaves the core dirty.
LEMMA UniverseStepBuffer ==
  ASSUME CoreTypeOK, UniverseTypeOK, UniverseStep, ~dirty'
  PROVE  ~dirty /\ buffered_values' = buffered_values
<1> USE UniverseAssumption
<1>1. ASSUME NEW p \in Ports, NEW v \in Values, SetBuffered(p, v)
      PROVE  ~dirty /\ buffered_values' = buffered_values
  BY <1>1 DEF SetBuffered, CoreTypeOK, Buffers
<1>2. ASSUME NEW p \in Configured, MapPort(p) \/ SetDefault(p)
      PROVE  ~dirty /\ buffered_values' = buffered_values
  BY <1>1, <1>2 DEF MapPort, GetOutputPort, SetDefault, coreVars
<1>3. ASSUME SetAddress
      PROVE  ~dirty /\ buffered_values' = buffered_values
  <2>1. Head(targets) \in Targets
    BY <1>3 DEF SetAddress, UniverseTypeOK
  <2> QED
    BY <1>1, <1>3, <2>1 DEF SetAddress, Targets, coreVars, CoreTypeOK, ReadCoreTypeOK
<1> QED
  BY <1>2, <1>3 DEF UniverseStep, ReceiveRequest, RejectAlias, PollStream, coreVars

-----------------------------------------------------------------------------
\* The steps of the worker that leave the core alone.
OnChip == LeaveAlone \/ PutToSleep \/ Restart \/ WriteSucceeds \/ WriteFails

\* None of them touches the core, the universe, the copy or what it found.
LEMMA OnChipFrame ==
  ASSUME OnChip
  PROVE  UNCHANGED <<coreVars, universeVars, taken, snapshot>> /\ pc = "updating"
BY DEF OnChip, LeaveAlone, PutToSleep, NeedsRestart, Restart, WriteSucceeds, WriteFails, Done

-----------------------------------------------------------------------------
\* What the registers of the chip can be after a step of the worker on it.
LEMMA OnChipWrites ==
  ASSUME TypeOK, OnChip
  PROVE  /\ latched' \in [Ports -> Levels]
         /\ \/ latched' = latched
            \/ taken /\ device_enabled /\ latched' = Registers(snapshot)
            \/ /\ taken /\ device_enabled
               /\ \A p \in Ports : latched'[p] \in {latched[p], Level[p][snapshot[p]]}
<1>1. Registers(snapshot) \in [Ports -> Levels]
  BY PcaAssumption DEF TypeOK, Buffers, Registers
<1>2. CASE LeaveAlone \/ PutToSleep \/ Restart
  BY <1>2 DEF LeaveAlone, PutToSleep, Restart, TypeOK
<1>3. CASE WriteSucceeds
  BY <1>1, <1>3 DEF WriteSucceeds, NeedsRestart
<1>4. CASE WriteFails
  BY <1>1, <1>4 DEF WriteFails, NeedsRestart, Registers, TypeOK
<1> QED BY <1>2, <1>3, <1>4 DEF OnChip

\* TypeOK is inductive.
THEOREM TypeCorrect == Spec => []TypeOK
<1> USE UniverseAssumption
<1>1. Init => TypeOK
  <2> SUFFICES ASSUME Init
               PROVE  TypeOK
    OBVIOUS
  <2>1. CoreTypeOK
    BY RWCoreAssumption DEF Init, CoreInitDirty, ReadCoreInit, CoreTypeOK, ReadCoreTypeOK, Buffers
  <2>2. failures \in BOOLEAN /\ taken \in BOOLEAN /\ ok \in BOOLEAN /\ device_enabled \in BOOLEAN
        /\ awake \in BOOLEAN /\ unnoticed \in BOOLEAN
    BY Zenon DEF Init, UniverseInit
  <2>3. served \in 0 .. MaxRequests /\ faults \in 0 .. MaxFaults /\ targets \in Seq(Targets)
    BY PcaAssumption DEF Init, UniverseInit
  <2>4. UniverseTypeOK
    BY <2>2, <2>3, Zenon DEF Init, UniverseInit, UniverseTypeOK
  <2> QED BY <2>1, <2>2, <2>3, <2>4, Zenon DEF Init, TypeOK, CoreTypeOK
<1>2. TypeOK /\ [Next]_vars => TypeOK'
  <2> SUFFICES ASSUME TypeOK, [Next]_vars
               PROVE  TypeOK'
    OBVIOUS
  <2>1. CASE UniverseStep /\ UNCHANGED workerVars
    BY <2>1, UniverseStepType DEF TypeOK, workerVars
  <2>2. CASE Update
    BY <2>2 DEF Update, AnswerRequest, TypeOK, CoreTypeOK, ReadCoreTypeOK,
                UniverseTypeOK, coreVars, readCoreVars, workerVars
  <2>3. CASE Begin \/ StartSynchronized
    <3>1. CoreTypeOK' /\ UniverseTypeOK'
      BY <2>3 DEF Begin, StartSynchronized, TypeOK, CoreTypeOK, ReadCoreTypeOK, UniverseTypeOK,
                  coreVars, readCoreVars, universeVars
    <3> QED BY <2>3, <3>1 DEF Begin, StartSynchronized, TypeOK, CoreTypeOK
  <2>4. CASE OnChip
    <3>1. CoreTypeOK' /\ UniverseTypeOK' /\ taken' \in BOOLEAN /\ snapshot' \in Buffers
      BY <2>4, OnChipFrame DEF TypeOK, CoreTypeOK, ReadCoreTypeOK, UniverseTypeOK, coreVars,
                               readCoreVars, universeVars
    <3>2. faults' \in 0 .. MaxFaults
      <4>1. faults' = faults \/ (faults < MaxFaults /\ faults' = faults + 1)
        BY <2>4, Zenon DEF OnChip, LeaveAlone, PutToSleep, Restart, WriteSucceeds, WriteFails,
                           Done, MayFail
      <4>2. faults \in 0 .. MaxFaults /\ MaxFaults \in Nat
        BY PcaAssumption DEF TypeOK
      <4> QED BY <4>1, <4>2
    <3>3. /\ pc' \in {"unborn", "sleeping", "updating", "finishing"}
          /\ ok' \in BOOLEAN /\ device_enabled' \in BOOLEAN /\ awake' \in BOOLEAN
          /\ unnoticed' \in BOOLEAN
      BY <2>4, Zenon DEF OnChip, LeaveAlone, PutToSleep, Restart, WriteSucceeds, WriteFails, Done,
                         TypeOK
    <3> QED BY <2>4, <3>1, <3>2, <3>3, OnChipWrites DEF TypeOK
  <2>5. CASE Finish
    BY <2>5, FinishUpdateType DEF Finish, TypeOK, UniverseTypeOK, universeVars
  <2>6. CASE UNCHANGED vars
    BY <2>6 DEF vars, workerVars, universeVars, coreVars, readCoreVars, TypeOK,
                CoreTypeOK, ReadCoreTypeOK, UniverseTypeOK
  <2> QED BY <2>1, <2>2, <2>3, <2>4, <2>5, <2>6 DEF Next, Worker, OnChip
<1> QED BY <1>1, <1>2, PTL DEF Spec

-----------------------------------------------------------------------------
(***************************************************************************)
(* The dirty bit.  While a round is under way, a clean core means that the *)
(* copy is still the buffer; a round that found the core clean has nothing *)
(* to write, and one that succeeds has written the copy.                   *)
(***************************************************************************)
WriteInv ==
  /\ CleanMeansWritten
  /\ pc = "unborn" => dirty
  /\ pc \in {"updating", "finishing"} /\ ~dirty => snapshot = buffered_values
  /\ pc = "updating" /\ ~taken => latched = Registers(snapshot)
  /\ pc = "finishing" /\ ok => latched = Registers(snapshot)

\* No step breaks WriteInv.
LEMMA WriteInvStep ==
  ASSUME TypeOK, WriteInv, [Next]_vars
  PROVE  WriteInv'
<1> USE DEF WriteInv, CleanMeansWritten
<1>1. CASE UniverseStep /\ UNCHANGED workerVars
  BY <1>1, UniverseStepBuffer DEF workerVars, TypeOK, CoreTypeOK, Registers
<1>2. CASE Update
  BY <1>2 DEF Update, coreVars, workerVars, Registers
<1>3. CASE Begin \/ StartSynchronized
  BY <1>3 DEF Begin, StartSynchronized, coreVars, Registers
<1>4. CASE LeaveAlone \/ PutToSleep \/ Restart
  BY <1>4, Zenon DEF LeaveAlone, PutToSleep, Restart, NeedsRestart, Done, coreVars, Registers
<1>5. CASE WriteSucceeds \/ WriteFails
  BY <1>5, Zenon DEF WriteSucceeds, WriteFails, Done, coreVars, Registers
<1>6. CASE Finish
  BY <1>6 DEF Finish, FinishUpdate, Registers
<1>7. CASE UNCHANGED vars
  BY <1>7 DEF vars, workerVars, coreVars, Registers
<1> QED BY <1>1, <1>2, <1>3, <1>4, <1>5, <1>6, <1>7 DEF Next, Worker

\* Between two rounds a clean core is a written one.
THEOREM CleanIsWritten == Spec => []CleanMeansWritten
<1>1. Init => WriteInv
  BY DEF Init, CoreInitDirty, WriteInv, CleanMeansWritten
<1>2. TypeOK /\ WriteInv /\ [Next]_vars => WriteInv'
  BY WriteInvStep
<1>3. WriteInv => CleanMeansWritten
  BY DEF WriteInv
<1> QED BY <1>1, <1>2, <1>3, TypeCorrect, PTL DEF Spec

-----------------------------------------------------------------------------
(***************************************************************************)
(* The oscillator: from the moment its worker runs, what the program       *)
(* believes to be on is on, unless a sleep command took effect and failed. *)
(***************************************************************************)
EnabledInv == pc # "unborn" /\ device_enabled => awake \/ unnoticed

\* A write goes to a sleeping chip only if a sleep command took effect and failed, and
\* none has succeeded since: other failures of sleep, restart or write do not lead there.
THEOREM AwakeForWrites == Spec => WritesWhileAwake
<1>1. Init => EnabledInv
  BY DEF Init, EnabledInv
<1>2. EnabledInv /\ [Next]_vars => EnabledInv'
  BY DEF EnabledInv, Next, Worker, Update, StartSynchronized, Begin, LeaveAlone, PutToSleep,
         NeedsRestart, Restart, WriteSucceeds, WriteFails, Finish, Done, vars, workerVars
<1>3. TypeOK /\ EnabledInv /\ [Next]_vars => [latched' # latched => awake \/ unnoticed]_vars
  <2> SUFFICES ASSUME TypeOK, EnabledInv, [Next]_vars, latched' # latched
               PROVE  awake \/ unnoticed
    OBVIOUS
  <2>1. OnChip
    BY DEF Next, Worker, OnChip, Update, StartSynchronized, Begin, Finish, vars, workerVars
  <2> QED BY <2>1, OnChipFrame, OnChipWrites DEF EnabledInv
<1> QED BY <1>1, <1>2, <1>3, TypeCorrect, PTL DEF Spec, WritesWhileAwake

-----------------------------------------------------------------------------
(***************************************************************************)
(* Errors and events.                                                      *)
(***************************************************************************)
ErrorInv ==
  \A p \in Ports :
    /\ (LatestEvent(p) = Err) <=> (device_values[p] = Err)
    /\ p \notin mapped => device_values[p] = NoValue /\ events[p] = <<>>

\* Even when Update events are suppressed, the end of an error is an event.
LEMMA UpdateValuesErrors ==
  ASSUME ReadCoreTypeOK, ErrorInv, NEW new \in [Ports -> Results],
         NEW force \in BOOLEAN, NEW suppress \in BOOLEAN, UpdateValues(new, force, suppress)
  PROVE  ErrorInv'
<1> SUFFICES ASSUME NEW p \in Ports
             PROVE  /\ (LatestEvent(p)' = Err) <=> (device_values'[p] = Err)
                    /\ p \notin mapped' => device_values'[p] = NoValue /\ events'[p] = <<>>
  BY DEF ErrorInv
<1>1. events[p] \in Seq(Results) /\ new[p] \in Results
  BY DEF ReadCoreTypeOK
<1>2. CASE p \in mapped /\ GeneratesEvent(device_values[p], new[p], force, suppress)
  <2>1. events'[p] = Append(events[p], new[p]) /\ device_values'[p] = new[p] /\ p \in mapped'
    BY <1>2 DEF UpdateValues
  <2>2. Append(events[p], new[p]) # <<>>
        /\ Append(events[p], new[p])[Len(Append(events[p], new[p]))] = new[p]
    BY <1>1
  <2> QED BY <2>1, <2>2 DEF LatestEvent
<1>3. CASE p \in mapped /\ ~GeneratesEvent(device_values[p], new[p], force, suppress)
  <2>1. new[p] # Err /\ device_values[p] # Err
    BY <1>3 DEF GeneratesEvent
  <2> QED BY <1>3, <2>1 DEF UpdateValues, ErrorInv, LatestEvent
<1>4. CASE p \notin mapped
  BY <1>4 DEF UpdateValues, ErrorInv, LatestEvent
<1> QED BY <1>2, <1>3, <1>4

\* No step breaks ErrorInv.
LEMMA ErrorInvStep ==
  ASSUME TypeOK, ErrorInv, [Next]_vars
  PROVE  ErrorInv'
<1>1. CASE UniverseStep /\ UNCHANGED workerVars
  <2>1. ASSUME NEW q \in Ports, PollStream(q)
        PROVE  ErrorInv'
    <3>1. PollEvents(q) /\ ReadCoreTypeOK /\ device_values' = device_values /\ mapped' = mapped
      BY <2>1 DEF PollStream, PollEvents, TypeOK, CoreTypeOK
    <3>2. \A p \in Ports :
            LatestEvent(p)' = LatestEvent(p) /\ (events[p] = <<>> => events'[p] = <<>>)
      BY <3>1, PollEventsLatest
    <3> QED BY <3>1, <3>2, Zenon DEF ErrorInv
  <2>2. ASSUME NEW p \in Configured, MapPort(p)
        PROVE  ErrorInv'
    BY <2>2, UniverseAssumption
       DEF MapPort, GetOutputPort, SetUpEvents, ErrorInv, LatestEvent, TypeOK, CoreTypeOK,
           ReadCoreTypeOK
  <2>3. CASE \/ \E p \in Configured : SetDefault(p)
             \/ \E r \in Requests : ReceiveRequest(r)
             \/ SetAddress
             \/ RejectAlias
    BY <2>3 DEF SetDefault, ReceiveRequest, SetAddress, RejectAlias, SetBuffered, coreVars,
                readCoreVars, ErrorInv, LatestEvent
  <2> QED BY <1>1, <2>1, <2>2, <2>3 DEF UniverseStep
<1>2. CASE Update \/ StartSynchronized \/ Begin \/ OnChip
  <2>1. UNCHANGED readCoreVars
    BY <1>2, OnChipFrame DEF Update, StartSynchronized, Begin, coreVars
  <2> QED BY <2>1 DEF readCoreVars, ErrorInv, LatestEvent
<1>3. CASE Finish
  <2>1. snapshot \in [Ports -> Results] /\ AllFailed \in [Ports -> Results]
    BY RWCoreAssumption DEF TypeOK, Buffers, Results, AllFailed
  <2> QED
    BY <1>3, <2>1, UpdateValuesErrors DEF Finish, FinishUpdate, TypeOK, CoreTypeOK
<1>4. CASE UNCHANGED vars
  BY <1>4 DEF vars, coreVars, readCoreVars, ErrorInv, LatestEvent
<1> QED BY <1>1, <1>2, <1>3, <1>4 DEF Next, Worker, OnChip

\* A subscriber whose last event is an error knows that the port still fails, any
\* other subscriber that it does not.
THEOREM ErrorsAreKnown == Spec => []SubscriberKnowsErrors
<1>1. Init => ErrorInv
  BY ReadCoreAssumption DEF Init, CoreInitDirty, ReadCoreInit, ErrorInv, LatestEvent
<1>2. TypeOK /\ ErrorInv /\ [Next]_vars => ErrorInv'
  BY ErrorInvStep
<1>3. TypeOK /\ ErrorInv => SubscriberKnowsErrors
  BY DEF ErrorInv, SubscriberKnowsErrors, TypeOK, CoreTypeOK, ReadCoreTypeOK
<1> QED BY <1>1, <1>2, <1>3, TypeCorrect, PTL DEF Spec

-----------------------------------------------------------------------------
(***************************************************************************)
(* Refinement: the PWM generator is an OutputDevice.                       *)
(***************************************************************************)
\* The registers only take whole buffers, or a failed write's mix, and never a buffer
\* superseded before the last write.
THEOREM Refinement == Spec => ImplementsOutputDevice
<1>1. Init => Device!Init
  BY RWCoreAssumption
     DEF Init, CoreInitDirty, Device!Init, Device!Buffers, Pending
<1>2. TypeOK /\ [Next]_vars => [Device!Next]_Device!vars
  <2> SUFFICES ASSUME TypeOK, [Next]_vars
               PROVE  Device!Next \/ UNCHANGED Device!vars
    OBVIOUS
  <2> USE DEF Pending, Device!vars
  <2>1. ASSUME NEW p \in Ports, NEW v \in Values, SetBuffered(p, v), UNCHANGED workerVars
        PROVE  Device!Next
    BY <2>1 DEF SetBuffered, workerVars, Device!Next, Device!Set
  <2>2. CASE UniverseStep /\ UNCHANGED workerVars
    <3>1. ASSUME NEW p \in Configured, MapPort(p) \/ SetDefault(p)
          PROVE  Device!Next \/ UNCHANGED Device!vars
      BY <2>1, <2>2, <3>1, UniverseAssumption
         DEF MapPort, GetOutputPort, SetDefault, coreVars, workerVars
    <3>2. CASE SetAddress
      <4>1. Head(targets) \in Targets
        BY <3>2 DEF SetAddress, TypeOK, UniverseTypeOK
      <4> QED
        BY <2>1, <2>2, <3>2, <4>1
           DEF SetAddress, Targets, coreVars, workerVars, TypeOK, CoreTypeOK, ReadCoreTypeOK
    <3>3. CASE \/ \E r \in Requests : ReceiveRequest(r)
               \/ RejectAlias
               \/ \E p \in Ports : PollStream(p)
      BY <2>2, <3>3 DEF ReceiveRequest, RejectAlias, PollStream, coreVars, workerVars
    <3> QED BY <2>2, <3>1, <3>2, <3>3 DEF UniverseStep
  <2>3. CASE Update \/ StartSynchronized
    BY <2>3 DEF Update, StartSynchronized, coreVars, workerVars
  <2>4. CASE Begin
    BY <2>4 DEF Begin
  <2>5. CASE OnChip
    <3>1. /\ buffered_values' = buffered_values /\ snapshot' = snapshot /\ taken' = taken
          /\ pc = "updating" /\ pc' \in {"updating", "finishing"}
      BY <2>5, OnChipFrame
         DEF coreVars, OnChip, LeaveAlone, PutToSleep, Restart, WriteSucceeds, WriteFails, Done
    <3>2. pc' = "updating" => latched' = latched
      BY <2>5 DEF OnChip, LeaveAlone, PutToSleep, Restart, WriteSucceeds, WriteFails, Done
    <3>3. CASE ~taken \/ pc' = "updating"
      BY <2>5, <3>1, <3>2, <3>3, OnChipWrites
    <3>4. CASE taken /\ pc' = "finishing"
      <4>1. Pending' = {buffered_values} /\ snapshot \in Pending
        BY <3>1, <3>4
      <4>2. CASE latched' = Registers(snapshot)
        BY <3>1, <4>1, <4>2 DEF Registers, Device!Next, Device!Write
      <4>3. CASE \A p \in Ports : latched'[p] \in {latched[p], Level[p][snapshot[p]]}
        BY <2>5, <3>1, <4>1, <4>3, OnChipWrites DEF Device!Next, Device!Tear
      <4>4. CASE latched' = latched
        BY <4>3, <4>4
      <4> QED BY <2>5, <4>2, <4>3, <4>4, OnChipWrites
    <3> QED BY <3>1, <3>3, <3>4
  <2>6. CASE Finish
    BY <2>6 DEF Finish, FinishUpdate
  <2>7. CASE UNCHANGED vars
    BY <2>7 DEF vars, workerVars, coreVars
  <2> QED BY <2>2, <2>3, <2>4, <2>5, <2>6, <2>7 DEF Next, Worker, OnChip
<1> QED BY <1>1, <1>2, TypeCorrect, PTL DEF Spec, ImplementsOutputDevice, Device!Spec
=============================================================================
