----------------------- MODULE TasmotaOutput_proofs ------------------------
(***************************************************************************)
(* Proofs about TasmotaOutput, for any ports, values, configuration and    *)
(* requests, any number of updates under way and of failed requests.       *)
(***************************************************************************)
EXTENDS TasmotaOutput, SequenceTheorems, TLAPS

(***************************************************************************)
(* The operations of the core and the steps of the universe: what they     *)
(* keep for every device.                                                  *)
(***************************************************************************)
\* An update of every port with readings or errors keeps the types of the core.
LEMMA UpdateValuesType ==
  ASSUME ReadCoreTypeOK, NEW new \in [Ports -> Results],
         NEW force \in BOOLEAN, NEW suppress \in BOOLEAN,
         UpdateValues(new, force, suppress)
  PROVE  ReadCoreTypeOK'
BY DEF ReadCoreTypeOK, UpdateValues, Results

\* poll_events keeps the types of the core, whether the queue yields an event or the task parks.
LEMMA PollEventsType ==
  ASSUME ReadCoreTypeOK, NEW p \in Ports, PollEvents(p)
  PROVE  ReadCoreTypeOK'
<1>1. CASE events[p] = <<>>
  BY <1>1 DEF ReadCoreTypeOK, PollEvents
<1>2. CASE events[p] # <<>>
  <2>1. events[p] \in Seq(Results)
    BY DEF ReadCoreTypeOK
  <2> DEFINE event == Head(events[p])
             rest == Tail(events[p])
  <2>2. event \in Results /\ rest \in Seq(Results)
    BY <1>2, <2>1
  <2>3. /\ events' = [events EXCEPT ![p] = rest] /\ received' = [received EXCEPT ![p] = event]
        /\ UNCHANGED <<device_values, mapped, wakers>>
    BY <1>2 DEF PollEvents
  <2> HIDE DEF event, rest
  <2> QED BY <2>2, <2>3 DEF ReadCoreTypeOK
<1> QED BY <1>1, <1>2

\* So does set, for the values a request can carry.
LEMMA SetBufferedType ==
  ASSUME CoreTypeOK, NEW p \in Ports, NEW v \in Values, SetBuffered(p, v)
  PROVE  CoreTypeOK'
BY DEF CoreTypeOK, ReadCoreTypeOK, SetBuffered, Buffers, readCoreVars

\* Startup, requests and event tasks keep the types of core and universe.
LEMMA UniverseStepType ==
  ASSUME CoreTypeOK, UniverseTypeOK, UniverseStep
  PROVE  CoreTypeOK' /\ UniverseTypeOK'
<1> USE UniverseAssumption
<1>1. ASSUME NEW p \in Configured, MapPort(p)
      PROVE  CoreTypeOK' /\ UniverseTypeOK'
  BY <1>1 DEF MapPort, GetOutputPort, SetUpEvents, CoreTypeOK, ReadCoreTypeOK, UniverseTypeOK
<1>2. ASSUME NEW p \in Configured, SetDefault(p)
      PROVE  CoreTypeOK' /\ UniverseTypeOK'
  <2>1. UniverseTypeOK'
    BY <1>2 DEF SetDefault, UniverseTypeOK
  <2>2. CASE Default[p] # NoValue
    BY <1>2, <2>1, <2>2, SetBufferedType DEF SetDefault
  <2>3. CASE Default[p] = NoValue
    BY <1>2, <2>1, <2>3 DEF SetDefault, coreVars, readCoreVars, CoreTypeOK, ReadCoreTypeOK
  <2> QED BY <2>2, <2>3
<1>3. ASSUME NEW r \in Requests, ReceiveRequest(r)
      PROVE  CoreTypeOK' /\ UniverseTypeOK'
  <2>1. targets' \in Seq(Targets) /\ served' \in 0 .. MaxRequests
    BY <1>3 DEF ReceiveRequest, UniverseTypeOK
  <2>2. CoreTypeOK'
    BY <1>3 DEF ReceiveRequest, CoreTypeOK, ReadCoreTypeOK, coreVars, readCoreVars
  <2> QED BY <1>3, <2>1, <2>2 DEF ReceiveRequest, UniverseTypeOK
<1>4. ASSUME SetAddress
      PROVE  CoreTypeOK' /\ UniverseTypeOK'
  <2>1. Head(targets) \in Targets /\ Tail(targets) \in Seq(Targets)
    BY <1>4 DEF SetAddress, UniverseTypeOK
  <2>2. UniverseTypeOK'
    BY <1>4, <2>1 DEF SetAddress, UniverseTypeOK
  <2>3. CASE Head(targets).target \in mapped
    BY <1>4, <2>1, <2>2, <2>3, SetBufferedType
       DEF SetAddress, Targets, CoreTypeOK, ReadCoreTypeOK
  <2>4. CASE Head(targets).target \notin mapped
    BY <1>4, <2>2, <2>4 DEF SetAddress, coreVars, readCoreVars, CoreTypeOK, ReadCoreTypeOK
  <2> QED BY <2>3, <2>4
<1>5. ASSUME RejectAlias
      PROVE  CoreTypeOK' /\ UniverseTypeOK'
  BY <1>5 DEF RejectAlias, CoreTypeOK, ReadCoreTypeOK, UniverseTypeOK, coreVars, readCoreVars
<1>6. ASSUME NEW p \in Ports, PollStream(p)
      PROVE  CoreTypeOK' /\ UniverseTypeOK'
  BY <1>6, PollEventsType DEF PollStream, CoreTypeOK, UniverseTypeOK, universeVars
<1> QED BY <1>1, <1>2, <1>3, <1>4, <1>5, <1>6 DEF UniverseStep

\* A universe step may set values, and then leaves the core dirty.
LEMMA UniverseStepBuffer ==
  ASSUME CoreTypeOK, UniverseTypeOK, UniverseStep, ~dirty'
  PROVE  ~dirty /\ buffered_values' = buffered_values
<1> USE UniverseAssumption
<1>1. ASSUME NEW p \in Ports, NEW v \in Values, SetBuffered(p, v)
      PROVE  ~dirty /\ buffered_values' = buffered_values
  BY <1>1 DEF SetBuffered, CoreTypeOK, Buffers
<1>2. ASSUME NEW p \in Configured, MapPort(p) \/ SetDefault(p)
      PROVE  ~dirty /\ buffered_values' = buffered_values
  BY <1>1, <1>2 DEF MapPort, GetOutputPort, SetDefault, coreVars
<1>3. ASSUME SetAddress
      PROVE  ~dirty /\ buffered_values' = buffered_values
  <2>1. Head(targets) \in Targets
    BY <1>3 DEF SetAddress, UniverseTypeOK
  <2> QED
    BY <1>1, <1>3, <2>1 DEF SetAddress, Targets, coreVars, CoreTypeOK, ReadCoreTypeOK
<1> QED
  BY <1>2, <1>3 DEF UniverseStep, ReceiveRequest, RejectAlias, PollStream, coreVars

-----------------------------------------------------------------------------
(***************************************************************************)
(* Types.                                                                  *)
(***************************************************************************)
\* The relays after some switches took effect, and what is reported of an update.
LEMMA SwitchType ==
  ASSUME TypeOK
  PROVE  /\ \A ps \in SUBSET Ports : Switch(ps) \in [Ports -> BOOLEAN]
         /\ Written \in [Ports -> Results]
         /\ Switched(mapped) \in [mapped -> BOOLEAN]
<1>1. DOMAIN current.on \in SUBSET Ports /\ current.on \in [DOMAIN current.on -> BOOLEAN]
  BY DEF TypeOK, Updates
<1>2. ASSUME NEW ps \in SUBSET Ports
      PROVE  Switch(ps) \in [Ports -> BOOLEAN]
  <2>1. ASSUME NEW p \in Ports
        PROVE  (IF p \in ps \cap DOMAIN current.on THEN current.on[p] ELSE relays[p]) \in BOOLEAN
    <3>1. CASE p \in ps \cap DOMAIN current.on
      BY <1>1, <3>1, Zenon
    <3>2. CASE p \notin ps \cap DOMAIN current.on
      BY <3>2, Zenon DEF TypeOK
    <3> QED BY <3>1, <3>2
  <2> QED BY <2>1, Zenon DEF Switch
<1>3. Written \in [Ports -> Results]
  BY TasmotaAssumption DEF Written, Results
<1>4. Switched(mapped) \in [mapped -> BOOLEAN]
  BY DEF Switched
<1> QED BY <1>2, <1>3, <1>4

\* TypeOK is inductive: every variable of the core, the universe, the channel and the
\* worker keeps its type in all reachable states.
THEOREM TypeCorrect == Spec => []TypeOK
<1> USE UniverseAssumption, TasmotaAssumption
<1>1. Init => TypeOK
  <2> SUFFICES ASSUME Init
               PROVE  TypeOK
    OBVIOUS
  <2>1. CoreTypeOK
    BY RWCoreAssumption DEF Init, CoreInitDirty, ReadCoreInit, CoreTypeOK, ReadCoreTypeOK, Buffers
  <2>2. failures \in BOOLEAN /\ write_ok \in BOOLEAN
    BY Zenon DEF Init, UniverseInit
  <2>3. served \in 0 .. MaxRequests /\ faults \in 0 .. MaxFaults /\ targets \in Seq(Targets)
        /\ newest \in 0 .. MaxRequests
    BY DEF Init, UniverseInit
  <2>4. UniverseTypeOK
    BY <2>2, <2>3, Zenon DEF Init, UniverseInit, UniverseTypeOK
  <2>5. current \in Updates
    <3>1. [p \in {} |-> FALSE] \in [{} -> BOOLEAN]
      OBVIOUS
    <3>2. {} \in SUBSET Ports /\ 0 \in 0 .. MaxRequests
      OBVIOUS
    <3> QED BY <3>1, <3>2, Zenon DEF Init, NoUpdate, Updates
  <2>6. channel \in Seq(Updates) /\ Len(channel) <= 1
    BY DEF Init
  <2> QED BY <2>1, <2>2, <2>3, <2>4, <2>5, <2>6, Zenon DEF Init, TypeOK
<1>2. TypeOK /\ [Next]_vars => TypeOK'
  <2> SUFFICES ASSUME TypeOK, [Next]_vars
               PROVE  TypeOK'
    OBVIOUS
  <2>1. CASE UniverseStep /\ UNCHANGED workerVars
    BY <2>1, UniverseStepType DEF TypeOK, workerVars
  <2>2. CASE Update
    <3>1. CoreTypeOK' /\ UniverseTypeOK'
      BY <2>2 DEF Update, AnswerRequest, TypeOK, CoreTypeOK, ReadCoreTypeOK, UniverseTypeOK,
                  readCoreVars
    <3>2. mapped \in SUBSET Ports /\ served \in 0 .. MaxRequests
      BY DEF TypeOK, CoreTypeOK, ReadCoreTypeOK, UniverseTypeOK
    <3>3. [nr |-> served, on |-> Switched(mapped)] \in Updates
      BY <3>2, SwitchType, Zenon DEF Updates
    <3>4. sending' \in SUBSET Updates /\ newest' \in 0 .. MaxRequests
      BY <2>2, <3>2, <3>3 DEF Update, TypeOK
    <3> QED BY <2>2, <3>1, <3>4 DEF Update, TypeOK
  <2>3. CASE Send \/ Receive \/ WriteSucceeds \/ WriteFails
    <3>1. CoreTypeOK' /\ UniverseTypeOK'
      BY <2>3 DEF Send, Receive, WriteSucceeds, WriteFails, TypeOK, CoreTypeOK, ReadCoreTypeOK,
                  UniverseTypeOK, coreVars, readCoreVars, universeVars
    <3>2. CASE Send
      BY <3>1, <3>2 DEF Send, TypeOK
    <3>3. CASE Receive
      BY <3>1, <3>3 DEF Receive, TypeOK
    <3>4. CASE WriteSucceeds \/ WriteFails
      <4>1. relays' \in [Ports -> BOOLEAN]
        BY <3>4, SwitchType, Zenon DEF WriteSucceeds, WriteFails
      <4>2. faults' \in 0 .. MaxFaults
        BY <3>4 DEF WriteSucceeds, WriteFails, TypeOK
      <4>3. write_ok' \in BOOLEAN /\ pc' = "finishing"
        BY <3>4, Zenon DEF WriteSucceeds, WriteFails
      <4> QED BY <3>1, <3>4, <4>1, <4>2, <4>3, Zenon DEF WriteSucceeds, WriteFails, TypeOK
    <3> QED BY <2>3, <3>2, <3>3, <3>4
  <2>4. CASE Finish
    <3>1. CoreTypeOK'
      <4>1. Written \in [Ports -> Results] /\ AllFailed \in [Ports -> Results]
        BY SwitchType DEF AllFailed, Results
      <4>2. ReadCoreTypeOK'
        BY <2>4, <4>1, UpdateValuesType DEF Finish, FinishUpdate, TypeOK, CoreTypeOK
      <4> QED BY <2>4, <4>2 DEF Finish, FinishUpdate, TypeOK, CoreTypeOK
    <3> QED BY <2>4, <3>1 DEF Finish, TypeOK, UniverseTypeOK, universeVars
  <2>5. CASE UNCHANGED vars
    BY <2>5 DEF vars, workerVars, universeVars, coreVars, readCoreVars, TypeOK,
                CoreTypeOK, ReadCoreTypeOK, UniverseTypeOK
  <2> QED BY <2>1, <2>2, <2>3, <2>4, <2>5 DEF Next, Worker
<1> QED BY <1>1, <1>2, PTL DEF Spec

-----------------------------------------------------------------------------
(***************************************************************************)
(* The dirty bit.  Three parts carry a buffer from update to the relays.   *)
(* Updates are numbered by requests, so that the newest is one of a kind;  *)
(* while the core is clean, the newest has the values of the buffer; and   *)
(* after its write succeeded, the relays have its values.                  *)
(***************************************************************************)
UnderWay == sending \cup {channel[i] : i \in DOMAIN channel} \cup {current}

NumbersInv ==
  /\ newest <= served
  /\ http = "setting" => newest < served
  /\ newest = 0 => dirty
  /\ http = "setting" \/ newest > 0 => Serving
  /\ \A u \in UnderWay : u.nr <= newest

NewestInv == ~dirty => \A u \in UnderWay : u.nr = newest => u.on = Switched(mapped)

RelaysInv ==
  \/ pc = "finishing" /\ write_ok
  \/ pc = "receiving" /\ ~dirty /\ current.nr = newest
  => \A p \in DOMAIN current.on : relays[p] = current.on[p]

\* What is under way are updates.
LEMMA UnderWayType ==
  ASSUME TypeOK
  PROVE  /\ served \in Nat /\ newest \in Nat
         /\ \A u \in UnderWay : u.nr \in Nat
<1>1. \A i \in DOMAIN channel : channel[i] \in Updates
  BY DEF TypeOK
<1>2. UnderWay \subseteq Updates
  BY <1>1, Zenon DEF UnderWay, TypeOK
<1>3. \A u \in Updates : u.nr \in Nat
  BY UniverseAssumption DEF Updates
<1> QED BY <1>2, <1>3, UniverseAssumption DEF TypeOK, UniverseTypeOK

\* Sending, writing and reporting never make a dirty core clean.
LEMMA StaysDirty ==
  ASSUME Send \/ Worker, dirty
  PROVE  dirty'
<1>1. CASE Finish
  BY <1>1, Zenon DEF Finish, FinishUpdate
<1>2. CASE Send \/ Receive \/ WriteSucceeds \/ WriteFails
  BY <1>2, Zenon DEF Send, Receive, WriteSucceeds, WriteFails, coreVars
<1> QED BY <1>1, <1>2 DEF Worker

UpdateInv == NumbersInv /\ NewestInv /\ RelaysInv

\* What a universe step leaves alone once the HTTP server runs.
LEMMA UniverseStepServing ==
  ASSUME TypeOK, UniverseStep, Serving
  PROVE  Serving' /\ mapped' = mapped
<1>1. ASSUME NEW p \in Configured
      PROVE  ~MapPort(p) /\ ~SetDefault(p)
  BY UniverseAssumption DEF Serving, MapPort, SetDefault
<1> QED
  BY <1>1 DEF UniverseStep, Serving, ReceiveRequest, SetAddress, SetBuffered, RejectAlias,
              PollStream, PollEvents, coreVars, readCoreVars, universeVars

\* Updates only come from the buffer: those that go into the channel or to the worker
\* were under way.
LEMMA UnderWayShrinks ==
  ASSUME TypeOK, Send \/ Receive \/ WriteSucceeds \/ WriteFails \/ Finish
  PROVE  UnderWay' \subseteq UnderWay
<1>1. CASE Send
  <2>1. PICK u \in sending : channel' = Append(channel, u) /\ sending' = sending \ {u}
    BY <1>1 DEF Send
  <2>2. channel = <<>>
    BY <1>1 DEF Send, TypeOK
  <2>3. \A i \in DOMAIN channel' : channel'[i] = u
    BY <2>1, <2>2
  <2> QED BY <1>1, <2>1, <2>3, Zenon DEF Send, UnderWay
<1>2. CASE Receive
  <2>1. Len(channel) = 1 /\ channel \in Seq(Updates)
    <3>1. channel \in Seq(Updates) /\ channel # <<>> /\ Len(channel) <= 1
      BY <1>2 DEF Receive, TypeOK
    <3>2. Len(channel) \in Nat \ {0}
      BY <3>1, EmptySeq, Zenon
    <3>3. ASSUME NEW n \in Nat \ {0}, n <= 1
          PROVE  n = 1
      BY <3>3
    <3> QED BY <3>1, <3>2, <3>3, Zenon
  <2>2. channel' = <<>> /\ current' = channel[1] /\ 1 \in DOMAIN channel
    BY <1>2, <2>1 DEF Receive
  <2>3. DOMAIN channel' = {}
    BY <2>2
  <2> QED BY <1>2, <2>2, <2>3, Zenon DEF Receive, UnderWay
<1>3. CASE WriteSucceeds \/ WriteFails \/ Finish
  BY <1>3, Zenon DEF WriteSucceeds, WriteFails, Finish, UnderWay
<1> QED BY <1>1, <1>2, <1>3

\* Numbers grow with the requests.
LEMMA NumbersInvStep ==
  ASSUME TypeOK, NumbersInv, [Next]_vars
  PROVE  NumbersInv'
<1> USE UniverseAssumption
<1>1. /\ served \in Nat /\ newest \in Nat
      /\ \A u \in UnderWay : u.nr \in Nat
  BY UnderWayType
<1>2. CASE UniverseStep /\ UNCHANGED workerVars
  <2>1. UnderWay' = UnderWay /\ newest' = newest
    BY <1>2 DEF workerVars, UnderWay
  <2>2. newest = 0 => dirty'
    BY <1>2, UniverseStepBuffer DEF TypeOK, NumbersInv
  <2>3. Serving => Serving'
    BY <1>2, UniverseStepServing
  <2>4. \/ UNCHANGED <<served, http>>
        \/ http' = "setting" /\ served' = served + 1 /\ Serving
        \/ http' = "idle" /\ served' = served
    BY <1>2 DEF UniverseStep, MapPort, SetDefault, ReceiveRequest, SetAddress, RejectAlias,
                PollStream, universeVars
  <2> QED BY <1>1, <2>1, <2>2, <2>3, <2>4 DEF NumbersInv
<1>3. CASE Update
  <2>1. /\ http = "setting" /\ http' = "idle" /\ served' = served
        /\ Serving' = Serving
    BY <1>3 DEF Update, AnswerRequest, Serving
  <2>2. CASE dirty
    <3>1. newest' = served /\ UnderWay' = UnderWay \cup {[nr |-> served, on |-> Switched(mapped)]}
      BY <1>3, <2>2 DEF Update, UnderWay
    <3> QED BY <1>1, <2>1, <2>2, <3>1 DEF NumbersInv
  <2>3. CASE ~dirty
    <3>1. newest' = newest /\ UnderWay' = UnderWay /\ dirty' = dirty
      BY <1>3, <2>3 DEF Update, UnderWay
    <3> QED BY <1>1, <2>1, <3>1 DEF NumbersInv
  <2> QED BY <2>2, <2>3
<1>4. CASE Send \/ Worker
  <2>1. UNCHANGED <<served, http, newest, to_map, mapping>> /\ (dirty => dirty')
    BY <1>4, StaysDirty
       DEF Send, Worker, Receive, WriteSucceeds, WriteFails, Finish, universeVars
  <2>2. UnderWay' \subseteq UnderWay
    BY <1>4, UnderWayShrinks DEF Worker
  <2> QED BY <1>1, <2>1, <2>2 DEF NumbersInv, Serving
<1>5. CASE UNCHANGED vars
  BY <1>5 DEF vars, workerVars, universeVars, coreVars, NumbersInv, UnderWay, Serving
<1> QED BY <1>2, <1>3, <1>4, <1>5 DEF Next

\* The newest update and the buffer agree while the core is clean.
LEMMA NewestInvStep ==
  ASSUME TypeOK, NumbersInv, NewestInv, [Next]_vars
  PROVE  NewestInv'
<1>1. /\ served \in Nat /\ newest \in Nat
      /\ \A u \in UnderWay : u.nr \in Nat
  BY UnderWayType
<1>2. CASE UniverseStep /\ UNCHANGED workerVars
  <2> SUFFICES ASSUME ~dirty'
               PROVE  NewestInv'
    BY DEF NewestInv
  <2>1. ~dirty /\ buffered_values' = buffered_values
    BY <1>2, UniverseStepBuffer DEF TypeOK
  <2>2. mapped' = mapped
    BY <1>1, <1>2, <2>1, UniverseStepServing DEF NumbersInv
  <2>3. UnderWay' = UnderWay /\ newest' = newest /\ Switched(mapped)' = Switched(mapped)
    BY <1>2, <2>1, <2>2 DEF workerVars, UnderWay, Switched
  <2> QED BY <2>1, <2>3, Zenon DEF NewestInv
<1>3. CASE Update
  <2>1. Switched(mapped)' = Switched(mapped)
    BY <1>3 DEF Update, readCoreVars, Switched
  <2>2. CASE dirty
    <3>1. newest' = served /\ UnderWay' = UnderWay \cup {[nr |-> served, on |-> Switched(mapped)]}
      BY <1>3, <2>2 DEF Update, UnderWay
    <3>2. \A u \in UnderWay : u.nr # served
      BY <1>1, <1>3 DEF Update, AnswerRequest, NumbersInv
    <3> QED BY <2>1, <3>1, <3>2 DEF NewestInv
  <2>3. CASE ~dirty
    <3>1. newest' = newest /\ UnderWay' = UnderWay /\ dirty' = dirty
      BY <1>3, <2>3 DEF Update, UnderWay
    <3> QED BY <2>1, <3>1, Zenon DEF NewestInv
  <2> QED BY <2>2, <2>3
<1>4. CASE Send \/ Worker
  <2>1. UNCHANGED <<newest, buffered_values, mapped>> /\ (dirty => dirty')
    BY <1>4, StaysDirty
       DEF Send, Worker, Receive, WriteSucceeds, WriteFails, Finish, FinishUpdate,
           UpdateValues, coreVars, readCoreVars
  <2>2. UnderWay' \subseteq UnderWay
    BY <1>4, UnderWayShrinks DEF Worker
  <2> QED BY <2>1, <2>2 DEF NewestInv, Switched
<1>5. CASE UNCHANGED vars
  BY <1>5 DEF vars, workerVars, coreVars, readCoreVars, NewestInv, UnderWay, Switched
<1> QED BY <1>2, <1>3, <1>4, <1>5 DEF Next

\* The relays after a successful write, and until the next.
LEMMA RelaysInvStep ==
  ASSUME TypeOK, NumbersInv, RelaysInv, [Next]_vars
  PROVE  RelaysInv'
<1>1. current.nr \in Nat /\ newest \in Nat /\ served \in Nat /\ current.nr <= newest
  BY UniverseAssumption DEF TypeOK, UniverseTypeOK, Updates, NumbersInv, UnderWay
<1>2. CASE UniverseStep /\ UNCHANGED workerVars
  BY <1>2, UniverseStepBuffer DEF workerVars, TypeOK, RelaysInv
<1>3. CASE Update
  BY <1>1, <1>3 DEF Update, AnswerRequest, NumbersInv, RelaysInv
<1>4. CASE Send
  BY <1>4 DEF Send, coreVars, RelaysInv
<1>5. CASE Receive \/ WriteFails
  BY <1>5 DEF Receive, WriteFails, RelaysInv
<1>6. CASE WriteSucceeds
  <2>1. \A p \in DOMAIN current.on : p \in Ports
    BY DEF TypeOK, Updates
  <2>2. \A p \in DOMAIN current.on : relays'[p] = current.on[p]
    BY <1>6, <2>1 DEF WriteSucceeds, Switch
  <2> QED BY <1>6, <2>2, Zenon DEF WriteSucceeds, RelaysInv
<1>7. CASE Finish
  BY <1>7 DEF Finish, FinishUpdate, RelaysInv
<1>8. CASE UNCHANGED vars
  BY <1>8 DEF vars, workerVars, coreVars, RelaysInv
<1> QED BY <1>2, <1>3, <1>4, <1>5, <1>6, <1>7, <1>8 DEF Next, Worker

\* When nothing is under way, the newest update was written last, and the core is
\* clean, the relays show the buffer, whatever overtook what before and whatever failed.
THEOREM CleanIsWrittenInOrder == Spec => []CleanMeansWrittenInOrder
<1>1. Init => UpdateInv
  <2> SUFFICES ASSUME Init
               PROVE  UpdateInv
    OBVIOUS
  <2>1. UnderWay = {NoUpdate} /\ NoUpdate.nr = 0
    BY DEF Init, UnderWay, NoUpdate
  <2> QED
    BY <2>1 DEF Init, UniverseInit, CoreInitDirty, UpdateInv, NumbersInv, NewestInv, RelaysInv
<1>2. TypeOK /\ UpdateInv /\ [Next]_vars => UpdateInv'
  BY NumbersInvStep, NewestInvStep, RelaysInvStep DEF UpdateInv
<1>3. TypeOK /\ UpdateInv => CleanMeansWrittenInOrder
  <2> SUFFICES ASSUME TypeOK, UpdateInv, Serving, Quiet, ~dirty, current.nr = newest,
                      NEW p \in mapped
               PROVE  relays[p] <=> buffered_values[p] # 0
    BY DEF CleanMeansWrittenInOrder, BufferIsShown
  <2>1. current.on = Switched(mapped)
    BY DEF UpdateInv, NewestInv, UnderWay
  <2>2. relays[p] = Switched(mapped)[p]
    BY <2>1 DEF UpdateInv, RelaysInv, Quiet, Switched
  <2> QED BY <2>2 DEF Switched
<1> QED BY <1>1, <1>2, <1>3, TypeCorrect, PTL DEF Spec
=============================================================================
