-------------------------- MODULE Universe_proofs --------------------------
(***************************************************************************)
(* Proofs about EventPipeline and about Universe, which extends it by the  *)
(* start and by requests: for any ports, readings and configurations, and  *)
(* any number of reports, refused publications and requests.               *)
(***************************************************************************)
EXTENDS Universe, SequenceTheorems, TLAPS

(***************************************************************************)
(* The operations of the core.                                             *)
(***************************************************************************)
\* An update of every port with readings or errors keeps the types of the core.
LEMMA UpdateValuesType ==
  ASSUME ReadCoreTypeOK, NEW new \in [Ports -> Results],
         NEW force \in BOOLEAN, NEW suppress \in BOOLEAN,
         UpdateValues(new, force, suppress)
  PROVE  ReadCoreTypeOK'
BY DEF ReadCoreTypeOK, UpdateValues, Results

\* poll_events keeps the types of the core, whether the queue yields an event or the task parks.
LEMMA PollEventsType ==
  ASSUME ReadCoreTypeOK, NEW p \in Ports, PollEvents(p)
  PROVE  ReadCoreTypeOK'
<1>1. CASE events[p] = <<>>
  BY <1>1 DEF ReadCoreTypeOK, PollEvents
<1>2. CASE events[p] # <<>>
  <2>1. events[p] \in Seq(Results)
    BY DEF ReadCoreTypeOK
  <2> DEFINE event == Head(events[p])
             rest == Tail(events[p])
  <2>2. event \in Results /\ rest \in Seq(Results)
    BY <1>2, <2>1
  <2>3. /\ events' = [events EXCEPT ![p] = rest] /\ received' = [received EXCEPT ![p] = event]
        /\ UNCHANGED <<device_values, mapped, wakers>>
    BY <1>2 DEF PollEvents
  <2> HIDE DEF event, rest
  <2> QED BY <2>2, <2>3 DEF ReadCoreTypeOK
<1> QED BY <1>1, <1>2

\* The last element of a queue stays the last when the first is taken, or is the first.
LEMMA TailLast ==
  ASSUME NEW S, NEW s \in Seq(S), s # <<>>
  PROVE  /\ Tail(s) = <<>> => Head(s) = s[Len(s)]
         /\ Tail(s) # <<>> => Tail(s)[Len(Tail(s))] = s[Len(s)]
<1>1. /\ Len(Tail(s)) = Len(s) - 1 /\ Len(s) \in Nat \ {0} /\ Tail(s) \in Seq(S)
      /\ \A i \in 1 .. Len(Tail(s)) : Tail(s)[i] = s[i + 1]
  BY HeadTailProperties
<1>2. Len(<<>>) = 0 /\ \A t \in Seq(S) : t # <<>> => Len(t) \in Nat \ {0}
  BY EmptySeq, Zenon
<1>3. ASSUME Tail(s) = <<>>
      PROVE  Head(s) = s[Len(s)]
  <2>1. Len(s) \in Nat /\ Len(s) - 1 = 0
    BY <1>1, <1>2, <1>3, Zenon
  <2>2. Len(s) = 1
    BY <2>1
  <2> QED BY <2>2
<1>4. ASSUME Tail(s) # <<>>
      PROVE  Tail(s)[Len(Tail(s))] = s[Len(s)]
  <2>1. Len(Tail(s)) \in Nat \ {0}
    BY <1>1, <1>2, <1>4
  <2> QED BY <1>1, <2>1
<1> QED BY <1>3, <1>4

-----------------------------------------------------------------------------
(***************************************************************************)
(* The event pipeline.                                                     *)
(***************************************************************************)
(***************************************************************************)
(* TypeOK is not inductive: what a task publishes is an event because the  *)
(* task has one in its hand.  A port has a task exactly when it is mapped. *)
(***************************************************************************)
Holding == {"recording", "publishing", "dead"}

TaskInv ==
  \A p \in Ports :
    /\ task[p] \in Holding => received[p] \in Results
    /\ task[p] = "unborn" <=> p \notin mapped
    /\ p \notin mapped => events[p] = <<>>
    /\ p \in wakers => task[p] = "polling"

TypeInv == TypeOK /\ TaskInv

-----------------------------------------------------------------------------
\* What follows the first Len(s) elements of Append(s, e) is e alone.
LEMMA OnlyTheNew ==
  ASSUME NEW s \in Seq(Results), NEW e \in Results
  PROVE  SubSeq(Append(s, e), Len(s) + 1, Len(Append(s, e))) = <<e>>
<1> DEFINE t == Append(s, e)
           n == Len(s) + 1
           u == SubSeq(t, n, n)
<1>1. n \in Int /\ Len(t) = n /\ t[n] = e
  BY AppendProperties
<1>2. <<e>> \in Seq(Results) /\ Len(<<e>>) = 1 /\ <<e>>[1] = e
  OBVIOUS
<1> HIDE DEF t, n
<1>3. /\ u \in Seq(Results) /\ Len(u) = 1
      /\ u[1] = e
  <2>1. \A i \in n .. n : t[i] \in Results
    BY <1>1
  <2>2. /\ SubSeq(t, n, n) \in Seq(Results)
        /\ Len(SubSeq(t, n, n)) = IF n <= n THEN n - n + 1 ELSE 0
        /\ \A i \in 1 .. n - n + 1 : SubSeq(t, n, n)[i] = t[n + i - 1]
    BY <1>1, <2>1, SubSeqProperties
  <2>3. n - n + 1 = 1 /\ n + 1 - 1 = n
    BY <1>1
  <2> QED BY <1>1, <2>2, <2>3
<1> HIDE DEF u
<1>4. u = <<e>>
  BY <1>2, <1>3, SeqEqual
<1> QED BY <1>1, <1>4 DEF u, t, n

\* The events an update queues, as Report records them: none, or one at the end.
LEMMA ReportQueues ==
  ASSUME TypeOK, NEW new \in [Ports -> Results], NEW force \in BOOLEAN,
         UpdateValues(new, force, FALSE), NEW p \in Ports
  PROVE  LET fresh == SubSeq(events'[p], Len(events[p]) + 1, Len(events'[p])) IN
         /\ fresh \in Seq(Results)
         /\ \/ events'[p] = events[p] /\ fresh = <<>>
            \/ events'[p] = events[p] \o <<new[p]>> /\ fresh = <<new[p]>>
<1>1. events[p] \in Seq(Results) /\ new[p] \in Results
  BY DEF TypeOK, ReadCoreTypeOK
<1>2. events'[p] = events[p] \/ events'[p] = Append(events[p], new[p])
  BY DEF UpdateValues
<1>3. CASE events'[p] = events[p]
  <2>1. SubSeq(events[p], Len(events[p]) + 1, Len(events[p])) = <<>>
    BY <1>1, SubSeqEmpty
  <2> QED BY <1>3, <2>1, EmptySeq
<1>4. CASE events'[p] = Append(events[p], new[p])
  <2>1. Append(events[p], new[p]) = events[p] \o <<new[p]>> /\ <<new[p]>> \in Seq(Results)
    BY <1>1, AppendIsConcat
  <2>2. SubSeq(Append(events[p], new[p]), Len(events[p]) + 1, Len(Append(events[p], new[p])))
          = <<new[p]>>
    BY <1>1, OnlyTheNew
  <2> QED BY <1>4, <2>1, <2>2
<1> QED BY <1>2, <1>3, <1>4

\* MapPort, Report and the steps of a task keep TypeInv.
LEMMA TypeInvStep ==
  ASSUME TypeInv, [Next]_vars
  PROVE  TypeInv'
<1> USE DEF TypeInv, Holding
<1>1. ASSUME NEW p \in Ports, MapPort(p)
      PROVE  TypeInv'
  BY <1>1 DEF MapPort, SetUpEvents, TypeOK, ReadCoreTypeOK, TaskInv
<1>2. CASE Report
  <2>1. PICK new \in [Ports -> Results], force \in BOOLEAN :
          /\ UpdateValues(new, force, FALSE)
          /\ generated' = [p \in Ports |-> generated[p] \o
                             SubSeq(events'[p], Len(events[p]) + 1, Len(events'[p]))]
    BY <1>2 DEF Report
  <2>2. ReadCoreTypeOK'
    BY <2>1, UpdateValuesType DEF TypeOK
  <2>3. ASSUME NEW p \in Ports
        PROVE  generated[p] \o SubSeq(events'[p], Len(events[p]) + 1, Len(events'[p]))
                 \in Seq(Results)
    <3>1. SubSeq(events'[p], Len(events[p]) + 1, Len(events'[p])) \in Seq(Results)
      BY <2>1, ReportQueues
    <3>2. generated[p] \in Seq(Results)
      BY DEF TypeOK
    <3> QED BY <3>1, <3>2, ConcatProperties
  <2>4. generated' \in [Ports -> Seq(Results)]
    BY <2>1, <2>3
  <2>5. readings' \in 0 .. MaxReadings
    BY <1>2, PipelineAssumption DEF Report, TypeOK
  <2>6. TypeOK'
    BY <1>2, <2>2, <2>4, <2>5 DEF Report, TypeOK
  <2>7. TaskInv'
    BY <1>2, <2>1 DEF Report, UpdateValues, TaskInv
  <2> QED BY <2>6, <2>7
<1>3. ASSUME NEW p \in Ports, NextEvent(p)
      PROVE  TypeInv'
  <2>1. PollEvents(p) /\ ReadCoreTypeOK
    BY <1>3 DEF NextEvent, TypeOK
  <2>2. ReadCoreTypeOK'
    BY <2>1, PollEventsType
  <2>3. TypeOK'
    BY <1>3, <2>2 DEF NextEvent, TypeOK
  <2>4. CASE events[p] = <<>>
    BY <1>3, <2>1, <2>3, <2>4 DEF NextEvent, PollEvents, TypeOK, ReadCoreTypeOK, TaskInv
  <2>5. CASE events[p] # <<>>
    <3>1. Head(events[p]) \in Results
      BY <2>5 DEF TypeOK, ReadCoreTypeOK
    <3>2. /\ received' = [received EXCEPT ![p] = Head(events[p])]
          /\ events' = [events EXCEPT ![p] = Tail(@)]
          /\ p \in mapped \ wakers /\ mapped' = mapped /\ wakers' = wakers
          /\ task' = [task EXCEPT ![p] = "recording"] /\ task[p] = "polling"
      BY <1>3, <2>1, <2>5 DEF NextEvent, PollEvents
    <3> QED BY <2>3, <3>1, <3>2 DEF TypeOK, ReadCoreTypeOK, TaskInv
  <2> QED BY <2>4, <2>5
<1>4. ASSUME NEW p \in Ports, Record(p)
      PROVE  TypeInv'
  BY <1>4 DEF Record, readCoreVars, TypeOK, ReadCoreTypeOK, TaskInv
<1>5. ASSUME NEW p \in Ports, PublishSucceeds(p)
      PROVE  TypeInv'
  <2>1. received[p] \in Results /\ published[p] \in Seq(Results)
    BY <1>5 DEF PublishSucceeds, TypeOK, TaskInv
  <2>2. Append(published[p], received[p]) \in Seq(Results)
    BY <2>1
  <2>3. published' \in [Ports -> Seq(Results)]
    BY <1>5, <2>2 DEF PublishSucceeds, TypeOK
  <2>4. TypeOK'
    BY <1>5, <2>3 DEF PublishSucceeds, readCoreVars, TypeOK, ReadCoreTypeOK
  <2>5. TaskInv'
    BY <1>5 DEF PublishSucceeds, readCoreVars, TypeOK, ReadCoreTypeOK, TaskInv
  <2> QED BY <2>4, <2>5
<1>6. ASSUME NEW p \in Ports, PublishFails(p)
      PROVE  TypeInv'
  <2>1. faults' \in 0 .. MaxFaults
    BY <1>6, PipelineAssumption DEF PublishFails, TypeOK
  <2> QED BY <1>6, <2>1 DEF PublishFails, readCoreVars, TypeOK, ReadCoreTypeOK, TaskInv
<1>7. CASE ProcessEnds \/ UNCHANGED vars
  BY <1>7 DEF ProcessEnds, vars, readCoreVars, TypeOK, ReadCoreTypeOK, TaskInv
<1> QED BY <1>1, <1>2, <1>3, <1>4, <1>5, <1>6, <1>7 DEF Next, Task

\* In the initial state nothing is mapped.
LEMMA TypeInvInit == Init => TypeInv
BY PipelineAssumption
   DEF Init, ReadCoreInit, TypeInv, TypeOK, ReadCoreTypeOK, TaskInv, Holding

\* Every variable of the pipeline keeps its type.
THEOREM TypeCorrect == Spec => []TypeOK
<1>1. TypeInv => TypeOK
  BY DEF TypeInv
<1> QED BY <1>1, TypeInvInit, TypeInvStep, PTL DEF Spec

-----------------------------------------------------------------------------
\* One port: published, in hand and queued are together what was generated.
OneInOrder(p) == generated[p] = published[p] \o InHand(p) \o events[p]

\* Concatenation of results is associative.
LEMMA Associative ==
  \A s, t, u \in Seq(Results) : (s \o t) \o u = s \o (t \o u)
BY ConcatAssociative

\* What is in a task's hand is a sequence of results, of length at most one.
LEMMA InHandType ==
  ASSUME TypeInv, NEW p \in Ports
  PROVE  InHand(p) \in Seq(Results)
BY DEF TypeInv, TaskInv, Holding, InHand

\* No step breaks the order of any port.
LEMMA InOrderStep ==
  ASSUME TypeInv, InOrderOnce, [Next]_vars, NEW p \in Ports
  PROVE  OneInOrder(p)'
<1> USE DEF OneInOrder
<1>0. /\ OneInOrder(p)
      /\ generated[p] \in Seq(Results) /\ published[p] \in Seq(Results)
      /\ InHand(p) \in Seq(Results) /\ events[p] \in Seq(Results)
  BY InHandType DEF InOrderOnce, TypeInv, TypeOK, ReadCoreTypeOK
<1>1. ASSUME NEW q \in Ports, MapPort(q)
      PROVE  OneInOrder(p)'
  BY <1>0, <1>1 DEF MapPort, SetUpEvents, TypeInv, TypeOK, ReadCoreTypeOK, TaskInv, InHand
<1>2. CASE Report
  <2>1. PICK new \in [Ports -> Results], force \in BOOLEAN :
          /\ UpdateValues(new, force, FALSE)
          /\ generated' = [r \in Ports |-> generated[r] \o
                             SubSeq(events'[r], Len(events[r]) + 1, Len(events'[r]))]
    BY <1>2 DEF Report
  <2> DEFINE fresh == SubSeq(events'[p], Len(events[p]) + 1, Len(events'[p]))
  <2>2. /\ fresh \in Seq(Results)
        /\ events'[p] = events[p] \o fresh
    <3>1. \/ events'[p] = events[p] /\ fresh = <<>>
          \/ events'[p] = events[p] \o fresh
      BY <2>1, ReportQueues DEF TypeInv
    <3>2. fresh \in Seq(Results)
      BY <2>1, ReportQueues DEF TypeInv
    <3>3. events[p] \o <<>> = events[p]
      BY <1>0, ConcatEmptySeq
    <3> QED BY <3>1, <3>2, <3>3
  <2>3. generated'[p] = generated[p] \o fresh
    BY <2>1
  <2>4. published' = published /\ InHand(p)' = InHand(p)
    BY <1>2, <2>1 DEF Report, UpdateValues, InHand
  <2> HIDE DEF fresh
  <2>5. (published[p] \o InHand(p) \o events[p]) \o fresh
          = published[p] \o InHand(p) \o (events[p] \o fresh)
    <3> DEFINE sofar == published[p] \o InHand(p)
    <3>1. /\ sofar \in Seq(Results)
          /\ events[p] \in Seq(Results) /\ fresh \in Seq(Results)
      BY <1>0, <2>2, ConcatProperties
    <3> HIDE DEF sofar
    <3>2. (sofar \o events[p]) \o fresh = sofar \o (events[p] \o fresh)
      BY <3>1, Associative, Zenon
    <3> QED BY <3>2 DEF sofar
  <2>6. generated[p] \o fresh = published[p] \o InHand(p) \o (events[p] \o fresh)
    BY <1>0, <2>5
  <2> QED BY <2>2, <2>3, <2>4, <2>6
<1>3. ASSUME NEW q \in Ports, NextEvent(q)
      PROVE  OneInOrder(p)'
  <2>1. CASE p # q \/ events[q] = <<>>
    BY <1>0, <1>3, <2>1
       DEF NextEvent, PollEvents, InHand, TypeInv, TypeOK, ReadCoreTypeOK
  <2>2. CASE p = q /\ events[q] # <<>>
    <3>1. /\ generated' = generated /\ published' = published
          /\ events'[p] = Tail(events[p]) /\ received'[p] = Head(events[p])
          /\ task[p] = "polling" /\ task'[p] = "recording"
      BY <1>3, <2>2 DEF NextEvent, PollEvents, TypeInv, TypeOK, ReadCoreTypeOK
    <3>2. InHand(p) = <<>> /\ InHand(p)' = <<Head(events[p])>>
      BY <3>1 DEF InHand
    <3>3. /\ events[p] = <<Head(events[p])>> \o Tail(events[p])
          /\ <<Head(events[p])>> \in Seq(Results) /\ Tail(events[p]) \in Seq(Results)
      BY <1>0, <2>2
    <3>4. generated[p] = published[p] \o events[p]
      BY <1>0, <3>2, ConcatEmptySeq
    <3>5. (published[p] \o <<Head(events[p])>>) \o Tail(events[p]) = published[p] \o events[p]
      <4> DEFINE first == <<Head(events[p])>>
                 rest  == Tail(events[p])
      <4>1. first \in Seq(Results) /\ rest \in Seq(Results) /\ events[p] = first \o rest
        BY <3>3
      <4> HIDE DEF first, rest
      <4>2. published[p] \in Seq(Results) /\ first \in Seq(Results) /\ rest \in Seq(Results)
        BY <1>0, <4>1
      <4>3. (published[p] \o first) \o rest = published[p] \o (first \o rest)
        BY <4>2, Associative, Zenon
      <4> QED BY <4>1, <4>3 DEF first, rest
    <3> QED BY <3>1, <3>2, <3>4, <3>5
  <2> QED BY <2>1, <2>2
<1>4. ASSUME NEW q \in Ports, Record(q) \/ PublishFails(q)
      PROVE  OneInOrder(p)'
  BY <1>0, <1>4 DEF Record, PublishFails, readCoreVars, InHand, TypeInv, TypeOK
<1>5. ASSUME NEW q \in Ports, PublishSucceeds(q)
      PROVE  OneInOrder(p)'
  <2>1. CASE p # q
    BY <1>0, <1>5, <2>1 DEF PublishSucceeds, readCoreVars, InHand, TypeInv, TypeOK
  <2>2. CASE p = q
    <3>1. /\ generated' = generated /\ events' = events
          /\ published'[p] = Append(published[p], received[p])
          /\ task[p] = "publishing" /\ task'[p] = "polling"
          /\ received[p] \in Results
      BY <1>5, <2>2 DEF PublishSucceeds, readCoreVars, TypeInv, TypeOK, TaskInv, Holding
    <3>2. InHand(p) = <<received[p]>> /\ InHand(p)' = <<>>
      BY <3>1 DEF InHand
    <3>3. published'[p] = published[p] \o InHand(p)
      BY <1>0, <3>1, <3>2, AppendIsConcat
    <3>4. published'[p] \o <<>> = published'[p]
      BY <1>0, <3>3, ConcatProperties, ConcatEmptySeq
    <3> QED BY <1>0, <3>1, <3>2, <3>3, <3>4
  <2> QED BY <2>1, <2>2
<1>6. CASE ProcessEnds \/ UNCHANGED vars
  BY <1>0, <1>6 DEF ProcessEnds, vars, readCoreVars, InHand
<1> QED BY <1>1, <1>2, <1>3, <1>4, <1>5, <1>6 DEF Next, Task

\* Each event is published once and in order, and nothing before the event in a dead
\* task's hand is lost.
THEOREM PublishedInOrder == Spec => []InOrderOnce
<1>1. Init => InOrderOnce
  <2>1. <<>> \o <<>> \o <<>> = <<>>
    BY ConcatEmptySeq, EmptySeq
  <2> QED BY <2>1 DEF Init, ReadCoreInit, InOrderOnce, InHand
<1>2. TypeInv /\ InOrderOnce /\ [Next]_vars => InOrderOnce'
  BY InOrderStep DEF OneInOrder, InOrderOnce
<1> QED BY <1>1, <1>2, TypeInvInit, TypeInvStep, PTL DEF Spec

-----------------------------------------------------------------------------
(***************************************************************************)
(* What GET shows of a port once everything on the way has arrived is what *)
(* its device reports.                                                     *)
(***************************************************************************)
Latest(p) ==
  IF events[p] # <<>> THEN events[p][Len(events[p])]
  ELSE IF task[p] = "recording" THEN received[p] ELSE last_value[p]

RecordInv ==
  \A p \in Ports :
    /\ Latest(p) = device_values[p]
    /\ p \in wakers => events[p] = <<>>

\* No step breaks RecordInv.
LEMMA RecordInvStep ==
  ASSUME TypeInv, RecordInv, [Next]_vars
  PROVE  RecordInv'
<1> SUFFICES ASSUME NEW p \in Ports
             PROVE  Latest(p)' = device_values'[p] /\ (p \in wakers' => events'[p] = <<>>)
  BY DEF RecordInv
<1> USE DEF Latest
<1>0. /\ Latest(p) = device_values[p] /\ (p \in wakers => events[p] = <<>>)
      /\ events[p] \in Seq(Results) /\ wakers \subseteq mapped /\ wakers \subseteq Ports
  BY DEF RecordInv, TypeInv, TypeOK, ReadCoreTypeOK
<1>1. ASSUME NEW q \in Ports, MapPort(q)
      PROVE  Latest(p)' = device_values'[p] /\ (p \in wakers' => events'[p] = <<>>)
  BY <1>0, <1>1 DEF MapPort, SetUpEvents, TypeInv, TypeOK, ReadCoreTypeOK, TaskInv
<1>2. CASE Report
  <2>1. PICK new \in [Ports -> Results], force \in BOOLEAN : UpdateValues(new, force, FALSE)
    BY <1>2 DEF Report
  <2>2. UNCHANGED <<task, last_value>>
    BY <1>2 DEF Report
  <2>3. CASE p \in mapped /\ GeneratesEvent(device_values[p], new[p], force, FALSE)
    <3>1. /\ events'[p] = Append(events[p], new[p]) /\ device_values'[p] = new[p]
          /\ p \notin wakers'
      BY <2>1, <2>3 DEF UpdateValues
    <3>2. /\ Append(events[p], new[p]) # <<>>
          /\ Append(events[p], new[p])[Len(Append(events[p], new[p]))] = new[p]
      BY <1>0
    <3> QED BY <3>1, <3>2
  <2>4. CASE p \in mapped /\ ~GeneratesEvent(device_values[p], new[p], force, FALSE)
    <3>1. new[p] = device_values[p]
      BY <2>4 DEF GeneratesEvent
    <3> QED BY <1>0, <2>1, <2>2, <2>4, <3>1 DEF UpdateValues
  <2>5. CASE p \notin mapped
    BY <1>0, <2>1, <2>2, <2>5 DEF UpdateValues
  <2> QED BY <2>3, <2>4, <2>5
<1>3. ASSUME NEW q \in Ports, NextEvent(q)
      PROVE  Latest(p)' = device_values'[p] /\ (p \in wakers' => events'[p] = <<>>)
  <2>1. CASE p # q \/ events[q] = <<>>
    BY <1>0, <1>3, <2>1 DEF NextEvent, PollEvents, TypeInv, TypeOK, ReadCoreTypeOK
  <2>2. CASE p = q /\ events[q] # <<>>
    <3>1. /\ events'[p] = Tail(events[p]) /\ received'[p] = Head(events[p])
          /\ task'[p] = "recording" /\ p \notin wakers'
          /\ device_values' = device_values
      BY <1>3, <2>2 DEF NextEvent, PollEvents, TypeInv, TypeOK, ReadCoreTypeOK
    <3>2. /\ Tail(events[p]) = <<>> => Head(events[p]) = events[p][Len(events[p])]
          /\ Tail(events[p]) # <<>>
               => Tail(events[p])[Len(Tail(events[p]))] = events[p][Len(events[p])]
      BY <1>0, <2>2, TailLast
    <3>3. events[p][Len(events[p])] = device_values[p]
      BY <1>0, <2>2
    <3> QED BY <3>1, <3>2, <3>3, Zenon
  <2> QED BY <2>1, <2>2
<1>4. ASSUME NEW q \in Ports, Record(q) \/ PublishSucceeds(q) \/ PublishFails(q)
      PROVE  Latest(p)' = device_values'[p] /\ (p \in wakers' => events'[p] = <<>>)
  BY <1>0, <1>4 DEF Record, PublishSucceeds, PublishFails, readCoreVars, TypeInv, TypeOK
<1>5. CASE ProcessEnds \/ UNCHANGED vars
  BY <1>0, <1>5 DEF ProcessEnds, vars, readCoreVars
<1> QED BY <1>1, <1>2, <1>3, <1>4, <1>5 DEF Next, Task

\* No missed wake-up: a task that waits has taken every event and recorded the last.
THEOREM NoMissedWakeup == Spec => []ParkedMeansRecorded
<1>1. Init => RecordInv
  BY DEF Init, ReadCoreInit, RecordInv, Latest
<1>2. TypeInv /\ RecordInv /\ [Next]_vars => RecordInv'
  BY RecordInvStep
<1>3. TypeInv /\ RecordInv => ParkedMeansRecorded
  BY DEF TypeInv, TypeOK, ReadCoreTypeOK, TaskInv, RecordInv, Latest, ParkedMeansRecorded
<1> QED BY <1>1, <1>2, <1>3, TypeInvInit, TypeInvStep, PTL DEF Spec
-----------------------------------------------------------------------------
(***************************************************************************)
(* What the start and the requests do to the event pipeline is one of its  *)
(* steps or none, so what is proved of it holds in the universe.           *)
(***************************************************************************)
\* Every step of the universe is one of the event pipeline, or none of it.
LEMMA PipelineStep ==
  ASSUME [UniverseNext]_universeVars
  PROVE  [Next]_vars
<1>1. Dies => Next
  BY DEF Dies, Next
<1>2. CASE CreateDevice
  BY <1>1, <1>2 DEF CreateDevice
<1>3. CASE MapNext
  <2>1. \/ Dies
        \/ UNCHANGED vars
        \/ Head(mappings).port \in Ports /\ MapPort(Head(mappings).port)
    BY <1>3 DEF MapNext
  <2> QED BY <1>1, <2>1 DEF Next
<1>4. CASE Serve
  BY <1>1, <1>4 DEF Serve
<1>5. CASE GetLastValues \/ ShowNext
  BY <1>5 DEF GetLastValues, ShowNext
<1>6. CASE Pipeline
  BY <1>6 DEF Pipeline, Next
<1>7. CASE UNCHANGED universeVars
  BY <1>7 DEF universeVars
<1> QED BY <1>1, <1>2, <1>3, <1>4, <1>5, <1>6, <1>7 DEF UniverseNext

\* Every behaviour of the universe is one of the event pipeline.
THEOREM IsEventPipeline == UniverseSpec => Spec
<1>1. UniverseInit => Init
  BY DEF UniverseInit
<1>2. [UniverseNext]_universeVars => [Next]_vars
  BY PipelineStep
<1> QED BY <1>1, <1>2, PTL DEF UniverseSpec, Spec

\* In the universe, too, each event is published once and in order.
THEOREM UniversePublishesInOrder == UniverseSpec => []InOrderOnce
BY IsEventPipeline, PublishedInOrder, PTL

\* In the universe, too, a task that waits has recorded the latest report.
THEOREM UniverseMissesNoWakeup == UniverseSpec => []ParkedMeansRecorded
BY IsEventPipeline, NoMissedWakeup, PTL

-----------------------------------------------------------------------------
(***************************************************************************)
(* The type invariant is not inductive: a port is mapped for the device    *)
(* created last, its alias is taken, and requests come after the start.    *)
(***************************************************************************)
StartType ==
  /\ devices \in Seq(Device)
  /\ device \in [alias : Names, kind : {"input", "output"}] \cup {NoValue}
  /\ mappings \in Seq(Mapping)
  /\ mappings # <<>> => device \in [alias : Names, kind : {"input", "output"}]
  /\ aliases \in SUBSET Names
  /\ address_counter \in Nat \ {0}
  /\ port_states \in Seq(PortState)
  /\ \A i \in DOMAIN port_states : port_states[i].alias \in aliases
  /\ DOMAIN output_ports \subseteq Nat
  /\ output_ports \in [DOMAIN output_ports -> Ports \cup OtherPorts]
  /\ groups \in SUBSET Group
  /\ serving \in BOOLEAN

GetType ==
  /\ to_show \in Seq(1 .. Len(port_states))
  /\ DOMAIN shown \subseteq aliases
  /\ since \in [Ports -> Nat]
  /\ ~serving => to_show = <<>> /\ shown = <<>>

UniverseTypeInv == StartType /\ GetType

\* The port MapNext adds, and the alias it has.
NewPort == [port |-> Head(mappings).port, kind |-> device.kind,
            alias |-> GeneratePortAlias(Head(mappings)), address |-> address_counter]

\* A port that is mapped is one, under an alias.
LEMMA NewPortType ==
  ASSUME StartType, mappings # <<>>
  PROVE  /\ NewPort \in PortState
         /\ Head(mappings) \in Mapping /\ Tail(mappings) \in Seq(Mapping)
<1>1. Head(mappings) \in Mapping /\ Tail(mappings) \in Seq(Mapping)
  BY DEF StartType
<1>2. device.alias \in Names /\ device.kind \in {"input", "output"}
  BY DEF StartType
<1>3. GeneratePortAlias(Head(mappings)) \in Names
  BY <1>1, <1>2, UniverseAssumption DEF GeneratePortAlias, Mapping
<1> QED BY <1>1, <1>2, <1>3 DEF NewPort, PortState, Mapping, StartType

\* What MapNext does when it maps a port.
LEMMA MapNextAdds ==
  ASSUME MapNext, ~Dies
  PROVE  /\ ~serving /\ mappings # <<>>
         /\ NewPort.alias \notin aliases /\ aliases' = aliases \cup {NewPort.alias}
         /\ port_states' = Append(port_states, NewPort)
         /\ output_ports' = IF device.kind = "output"
                            THEN Insert(output_ports, address_counter, NewPort.port)
                            ELSE output_ports
         /\ address_counter' = address_counter + 1
         /\ mappings' = Tail(mappings)
         /\ UNCHANGED <<devices, device, groups, serving, getVars>>
<1> DEFINE port == Head(mappings).port
           alias == GeneratePortAlias(Head(mappings))
           new == [port |-> port, kind |-> device.kind, alias |-> alias, address |-> address_counter]
<1>1. ~ (Taken(alias) \/ \E i \in DOMAIN port_states : port_states[i].port = port)
  BY Zenon DEF MapNext
<1>2. /\ ~serving /\ mappings # <<>>
      /\ aliases' = aliases \cup {alias}
      /\ port_states' = Append(port_states, new)
      /\ output_ports' = IF device.kind = "output"
                         THEN Insert(output_ports, address_counter, port)
                         ELSE output_ports
      /\ address_counter' = NextAddress
      /\ mappings' = Tail(mappings)
      /\ UNCHANGED <<devices, device, groups, serving, getVars>>
  BY <1>1, Zenon DEF MapNext
<1>3. NewPort = new /\ NewPort.port = port /\ NewPort.alias = alias
  BY DEF NewPort
<1>4. alias \notin aliases
  BY <1>1 DEF Taken
<1> QED BY <1>2, <1>3, <1>4, Zenon DEF NextAddress

\* Every step of the universe keeps UniverseTypeInv.
LEMMA UniverseTypeInvStep ==
  ASSUME UniverseTypeInv, TypeOK, [UniverseNext]_universeVars
  PROVE  UniverseTypeInv'
<1> USE DEF UniverseTypeInv
<1>1. CASE UNCHANGED <<startVars, getVars>>
  BY <1>1 DEF startVars, getVars, StartType, GetType
<1>2. Dies => UNCHANGED <<startVars, getVars>>
  BY DEF Dies
<1>3. CASE CreateDevice /\ ~Dies
  <2> DEFINE d == Head(devices)
  <2>1. /\ d \in Device /\ Tail(devices) \in Seq(Device)
        /\ device' = [alias |-> Lower[d.alias], kind |-> d.kind]
        /\ mappings' = IF d.kind = "input" THEN d.inputs ELSE d.outputs
        /\ devices' = Tail(devices)
        /\ aliases' = aliases \cup {Lower[d.alias]}
        /\ groups' = groups \cup
             (IF d.group = NotSynchronized THEN {}
              ELSE {[bus |-> Lower[d.group.bus], interval |-> d.group.interval]})
        /\ UNCHANGED <<address_counter, port_states, output_ports, serving, getVars>>
    BY <1>3 DEF CreateDevice, StartType
  <2>2. /\ d.alias \in Names /\ d.kind \in {"input", "output"}
        /\ d.inputs \in Seq(Mapping) /\ d.outputs \in Seq(Mapping)
        /\ d.group # NotSynchronized => d.group.bus \in Names /\ d.group.interval \in Nat
    BY <2>1 DEF Device, Group
  <2>3. Lower[d.alias] \in Names
    BY <2>2, UniverseAssumption
  <2>4. groups' \in SUBSET Group
    BY <2>1, <2>2, UniverseAssumption DEF StartType, Group
  <2>5. device' \in [alias : Names, kind : {"input", "output"}]
    BY <2>1, <2>2, <2>3
  <2> HIDE DEF d
  <2>6. StartType'
    BY <2>1, <2>2, <2>3, <2>4, <2>5 DEF StartType
  <2>7. GetType'
    BY <2>1 DEF GetType, getVars
  <2> QED BY <2>6, <2>7
<1>4. CASE MapNext /\ ~Dies
  <2>1. /\ NewPort \in PortState /\ Tail(mappings) \in Seq(Mapping)
        /\ ~serving /\ mappings # <<>>
        /\ aliases' = aliases \cup {NewPort.alias}
        /\ port_states' = Append(port_states, NewPort)
        /\ address_counter' = address_counter + 1
        /\ mappings' = Tail(mappings)
        /\ UNCHANGED <<devices, device, groups, serving, getVars>>
    BY <1>4, NewPortType, MapNextAdds
  <2>2. NewPort.alias \in Names /\ NewPort.port \in Ports \cup OtherPorts
    BY <2>1 DEF PortState
  <2>3. /\ DOMAIN output_ports' \subseteq Nat
        /\ output_ports' \in [DOMAIN output_ports' -> Ports \cup OtherPorts]
    BY <1>4, <2>2, MapNextAdds DEF StartType, Insert
  <2>4. \A i \in DOMAIN port_states' : port_states'[i].alias \in aliases'
    BY <2>1 DEF StartType
  <2>5. StartType'
    BY <2>1, <2>2, <2>3, <2>4 DEF StartType
  <2>6. GetType'
    BY <2>1 DEF GetType, getVars
  <2> QED BY <2>5, <2>6
<1>5. CASE Serve /\ ~Dies
  <2>1. /\ serving' = TRUE
        /\ UNCHANGED <<devices, device, mappings, aliases, address_counter, port_states,
                       output_ports, groups, getVars>>
    BY <1>5 DEF Serve
  <2>2. StartType'
    BY <2>1 DEF StartType
  <2>3. GetType'
    BY <2>1 DEF GetType, getVars
  <2> QED BY <2>2, <2>3
<1>6. CASE GetLastValues
  <2>1. [i \in DOMAIN port_states |-> i] \in Seq(1 .. Len(port_states))
    BY DEF StartType
  <2>2. \A p \in Ports : Len(published[p]) \in Nat
    BY DEF TypeOK
  <2> QED BY <1>6, <2>1, <2>2 DEF GetLastValues, startVars, StartType, GetType
<1>7. CASE ShowNext
  <2>1. /\ Head(to_show) \in 1 .. Len(port_states)
        /\ Tail(to_show) \in Seq(1 .. Len(port_states))
    BY <1>7 DEF ShowNext, Getting, GetType
  <2>2. DOMAIN shown' \subseteq aliases
    BY <1>7, <2>1 DEF ShowNext, StartType, GetType, Insert
  <2> QED BY <1>7, <2>1, <2>2 DEF ShowNext, Getting, startVars, StartType, GetType
<1> QED BY <1>1, <1>2, <1>3, <1>4, <1>5, <1>6, <1>7
       DEF UniverseNext, Pipeline, universeVars

\* Nothing is created before the first step, and the configuration is one.
LEMMA UniverseTypeInvInit == UniverseInit => UniverseTypeInv
<1>1. ASSUME UniverseInit
      PROVE  StartType /\ GetType
  <2>1. devices \in Seq(Device)
    BY <1>1, UniverseAssumption DEF UniverseInit
  <2>2. <<>> \in [{} -> Ports \cup OtherPorts] /\ DOMAIN <<>> = {}
    OBVIOUS
  <2>3. StartType
    <3>1. /\ device = NoValue /\ mappings = <<>> /\ aliases = {} /\ address_counter = 1
          /\ port_states = <<>> /\ output_ports = <<>> /\ groups = {} /\ serving = FALSE
      BY <1>1 DEF UniverseInit
    <3>2. /\ DOMAIN output_ports \subseteq Nat
          /\ output_ports \in [DOMAIN output_ports -> Ports \cup OtherPorts]
      BY <2>2, <3>1
    <3>3. /\ port_states \in Seq(PortState) /\ mappings \in Seq(Mapping)
          /\ \A i \in DOMAIN port_states : port_states[i].alias \in aliases
      BY <3>1
    <3>4. /\ device \in [alias : Names, kind : {"input", "output"}] \cup {NoValue}
          /\ mappings = <<>> /\ aliases \in SUBSET Names /\ address_counter \in Nat \ {0}
          /\ groups \in SUBSET Group
      BY <3>1
    <3>5. serving \in BOOLEAN
      BY <3>1
    <3> QED BY <2>1, <3>2, <3>3, <3>4, <3>5 DEF StartType
  <2>4. GetType
    BY <1>1, <2>2 DEF UniverseInit, StartType, GetType
  <2> QED BY <2>3, <2>4
<1> QED BY <1>1 DEF UniverseTypeInv

\* The types hold throughout.
LEMMA UniverseTypeInvHolds == UniverseSpec => [](TypeOK /\ UniverseTypeInv)
<1>1. UniverseSpec => []TypeOK
  BY IsEventPipeline, TypeCorrect, PTL
<1>2. TypeOK /\ UniverseTypeInv /\ [UniverseNext]_universeVars => UniverseTypeInv'
  BY UniverseTypeInvStep
<1> QED BY <1>1, <1>2, UniverseTypeInvInit, PTL DEF UniverseSpec

\* Every variable of the universe keeps its type, those of the event pipeline included.
THEOREM UniverseTypeCorrect == UniverseSpec => []UniverseTypeOK
<1>1. TypeOK /\ UniverseTypeInv => UniverseTypeOK
  BY DEF UniverseTypeInv, StartType, GetType, UniverseTypeOK
<1> QED BY <1>1, UniverseTypeInvHolds, PTL

-----------------------------------------------------------------------------
(***************************************************************************)
(* Addresses: the counter is ahead of every address given, and of every    *)
(* address a value can be set at.                                          *)
(***************************************************************************)
AddressInv ==
  /\ AddressesAgree
  /\ \A i \in DOMAIN port_states : port_states[i].address < address_counter
  /\ \A n \in DOMAIN output_ports : n < address_counter

\* Only MapNext touches addresses; it appends a port with the counter as its address.
LEMMA AddressInvStep ==
  ASSUME UniverseTypeInv, AddressInv, [UniverseNext]_universeVars
  PROVE  AddressInv'
<1>1. CASE UNCHANGED <<port_states, output_ports, address_counter>>
  BY <1>1 DEF AddressInv, AddressesAgree
<1>2. CASE MapNext /\ ~Dies
  <2>1. /\ NewPort \in PortState /\ NewPort.address = address_counter
        /\ NewPort.kind = device.kind
        /\ port_states' = Append(port_states, NewPort)
        /\ output_ports' = IF device.kind = "output"
                           THEN Insert(output_ports, address_counter, NewPort.port)
                           ELSE output_ports
        /\ address_counter' = address_counter + 1
        /\ address_counter \in Nat
        /\ port_states \in Seq(PortState)
    BY <1>2, NewPortType, MapNextAdds DEF UniverseTypeInv, StartType, NewPort
  <2> DEFINE new == Len(port_states) + 1
  <2>2. /\ DOMAIN port_states' = DOMAIN port_states \cup {new}
        /\ new \notin DOMAIN port_states
        /\ port_states'[new] = NewPort
        /\ \A i \in DOMAIN port_states : port_states'[i] = port_states[i]
    BY <2>1
  <2>3. /\ \A i \in DOMAIN port_states : port_states[i].address \in Nat
        /\ DOMAIN output_ports \subseteq Nat
    <3>1. \A i \in DOMAIN port_states : port_states[i] \in PortState
      BY <2>1
    <3> QED BY <3>1 DEF UniverseTypeInv, StartType, PortState
  <2>4. /\ NewPort.kind = "output" =>
             /\ DOMAIN output_ports' = DOMAIN output_ports \cup {address_counter}
             /\ output_ports'[address_counter] = NewPort.port
        /\ NewPort.kind # "output" => output_ports' = output_ports
        /\ \A n \in DOMAIN output_ports : n # address_counter => output_ports'[n] = output_ports[n]
    BY <2>1 DEF Insert
  <2> HIDE DEF new
  <2>5. /\ \A i \in DOMAIN port_states' : port_states'[i].address < address_counter'
        /\ \A n \in DOMAIN output_ports' : n < address_counter'
    BY <2>1, <2>2, <2>3, <2>4 DEF AddressInv
  <2>6. AddressesAgree'
    <3> SUFFICES ASSUME NEW i \in DOMAIN port_states', NEW j \in DOMAIN port_states'
                 PROVE  /\ port_states'[i].address = port_states'[j].address => i = j
                        /\ port_states'[i].address \in DOMAIN output_ports'
                             <=> port_states'[i].kind = "output"
                        /\ port_states'[i].kind = "output" =>
                             output_ports'[port_states'[i].address] = port_states'[i].port
      BY DEF AddressesAgree
    <3>1. CASE i # new
      BY <2>1, <2>2, <2>3, <2>4, <3>1 DEF AddressInv, AddressesAgree
    <3>2. CASE i = new
      BY <2>1, <2>2, <2>3, <2>4, <3>2 DEF AddressInv, AddressesAgree
    <3> QED BY <3>1, <3>2
  <2> QED BY <2>5, <2>6 DEF AddressInv
<1> QED BY <1>1, <1>2
       DEF UniverseNext, CreateDevice, MapNext, Serve, GetLastValues, ShowNext, Pipeline, Dies,
           universeVars, startVars

\* Each port has an address of its own, and a request that sets it reaches that port
\* if it is an output, and no port otherwise.
THEOREM AddressesAreUnique == UniverseSpec => []AddressesAgree
<1>1. UniverseInit => AddressInv
  BY DEF UniverseInit, AddressInv, AddressesAgree
<1>2. UniverseTypeInv /\ AddressInv /\ [UniverseNext]_universeVars => AddressInv'
  BY AddressInvStep
<1>3. AddressInv => AddressesAgree
  BY DEF AddressInv
<1> QED BY <1>1, <1>2, <1>3, UniverseTypeInvHolds, PTL DEF UniverseSpec

-----------------------------------------------------------------------------
(***************************************************************************)
(* GET.  What may be shown of a port of which the broker has k events: the *)
(* k-th or a later one.  The last value always may be, for the k of the    *)
(* moment: it is the event published last, or the one in hand.             *)
(***************************************************************************)
MayShow(p, k) ==
  {generated[p][n] : n \in {n \in DOMAIN generated[p] : n >= k}}
    \cup (IF k = 0 THEN {NoValue} ELSE {})

LastInv ==
  \A p \in Ports :
    /\ task[p] \in {"publishing", "dead"} => last_value[p] = received[p]
    /\ task[p] \in {"unborn", "polling", "recording"} =>
         last_value[p] = IF published[p] = <<>> THEN NoValue
                         ELSE published[p][Len(published[p])]

\* Only Record and PublishSucceeds touch what LastInv is about.
LEMMA LastInvStep ==
  ASSUME TypeInv, LastInv, [Next]_vars
  PROVE  LastInv'
<1> SUFFICES ASSUME NEW p \in Ports
             PROVE  /\ task'[p] \in {"publishing", "dead"} => last_value'[p] = received'[p]
                    /\ task'[p] \in {"unborn", "polling", "recording"} =>
                         last_value'[p] = IF published'[p] = <<>> THEN NoValue
                                          ELSE published'[p][Len(published'[p])]
  BY DEF LastInv
<1>0. /\ published[p] \in Seq(Results) /\ task \in [Ports -> {"unborn", "polling", "recording",
                                                             "publishing", "dead"}]
      /\ last_value = [q \in Ports |-> last_value[q]] /\ received = [q \in Ports |-> received[q]]
      /\ published = [q \in Ports |-> published[q]]
  BY DEF TypeInv, TypeOK, ReadCoreTypeOK
<1>1. ASSUME NEW q \in Ports, MapPort(q)
      PROVE  LastInv'
  BY <1>0, <1>1 DEF MapPort, SetUpEvents, LastInv
<1>2. CASE Report
  BY <1>2 DEF Report, UpdateValues, LastInv
<1>3. ASSUME NEW q \in Ports, NextEvent(q)
      PROVE  LastInv'
  BY <1>0, <1>3 DEF NextEvent, PollEvents, LastInv
<1>4. ASSUME NEW q \in Ports, Record(q) \/ PublishFails(q)
      PROVE  LastInv'
  BY <1>0, <1>4 DEF Record, PublishFails, readCoreVars, LastInv
<1>5. ASSUME NEW q \in Ports, PublishSucceeds(q)
      PROVE  LastInv'
  <2>1. /\ task[q] = "publishing" /\ received[q] \in Results
        /\ task' = [task EXCEPT ![q] = "polling"]
        /\ published' = [published EXCEPT ![q] = Append(@, received[q])]
        /\ UNCHANGED <<last_value, received>>
    BY <1>5 DEF PublishSucceeds, readCoreVars, TypeInv, TaskInv, Holding
  <2>2. \A s \in Seq(Results), r \in Results :
           Append(s, r) # <<>> /\ Append(s, r)[Len(Append(s, r))] = r
    OBVIOUS
  <2>3. published'[q] # <<>> /\ published'[q][Len(published'[q])] = received[q]
    BY <2>1, <2>2 DEF TypeInv, TypeOK
  <2> QED BY <1>0, <2>1, <2>3 DEF LastInv
<1>6. CASE ProcessEnds \/ UNCHANGED vars
  BY <1>6 DEF ProcessEnds, vars, readCoreVars, LastInv
<1> QED BY <1>1, <1>2, <1>3, <1>4, <1>5, <1>6 DEF Next, Task, LastInv

\* Where the elements of a concatenation are.
LEMMA InConcat ==
  \A s, t \in Seq(Results) :
    /\ s \o t \in Seq(Results)
    /\ \A n \in 1 .. Len(s) : n \in DOMAIN (s \o t) /\ (s \o t)[n] = s[n]
    /\ t # <<>> => Len(s) + 1 \in DOMAIN (s \o t) /\ (s \o t)[Len(s) + 1] = t[1]
<1> TAKE s, t \in Seq(Results)
<1> DEFINE st == s \o t
<1>1. /\ st \in Seq(Results) /\ Len(st) = Len(s) + Len(t)
      /\ \A n \in 1 .. Len(s) + Len(t) : st[n] = IF n <= Len(s) THEN s[n] ELSE t[n - Len(s)]
  BY ConcatProperties
<1> HIDE DEF st
<1>2. Len(s) \in Nat /\ Len(t) \in Nat /\ DOMAIN st = 1 .. Len(s) + Len(t)
  BY <1>1
<1>3. \A n \in 1 .. Len(s) : n \in DOMAIN st /\ st[n] = s[n]
  BY <1>1, <1>2
<1>4. ASSUME t # <<>>
      PROVE  Len(s) + 1 \in DOMAIN st /\ st[Len(s) + 1] = t[1]
  <2>1. Len(t) >= 1
    BY <1>4
  <2>2. Len(s) + 1 \in 1 .. Len(s) + Len(t) /\ ~(Len(s) + 1 <= Len(s))
        /\ Len(s) + 1 - Len(s) = 1
    BY <1>2, <2>1
  <2> QED BY <1>1, <1>2, <2>2
<1> QED BY <1>1, <1>3, <1>4 DEF st

\* The event in hand comes right after those published.
LEMMA LastMayBeShown ==
  ASSUME TypeInv, InOrderOnce, LastInv, NEW p \in Ports
  PROVE  last_value[p] \in MayShow(p, Len(published[p]))
<1> DEFINE k == Len(published[p])
           sofar == published[p] \o InHand(p)
<1>1. /\ published[p] \in Seq(Results) /\ InHand(p) \in Seq(Results) /\ events[p] \in Seq(Results)
      /\ generated[p] = sofar \o events[p] /\ k \in Nat
  BY InHandType DEF TypeInv, TypeOK, ReadCoreTypeOK, InOrderOnce
<1>2. /\ sofar \in Seq(Results)
      /\ \A n \in 1 .. k : n \in DOMAIN sofar /\ sofar[n] = published[p][n]
      /\ InHand(p) # <<>> => k + 1 \in DOMAIN sofar /\ sofar[k + 1] = InHand(p)[1]
  BY <1>1, InConcat, Zenon
<1> HIDE DEF sofar
<1>3. \A n \in DOMAIN sofar : n \in DOMAIN generated[p] /\ generated[p][n] = sofar[n]
  <2>1. \A n \in 1 .. Len(sofar) : n \in DOMAIN (sofar \o events[p]) /\ (sofar \o events[p])[n] = sofar[n]
    BY <1>1, <1>2, InConcat, Zenon
  <2> QED BY <1>1, <1>2, <2>1
<1>4. CASE task[p] \in {"publishing", "dead"}
  <2>1. last_value[p] = received[p] /\ InHand(p) = <<received[p]>>
    BY <1>4 DEF LastInv, InHand
  <2>2. k + 1 \in DOMAIN generated[p] /\ generated[p][k + 1] = received[p]
    BY <1>2, <1>3, <2>1
  <2> HIDE DEF k
  <2>3. k + 1 \in {n \in DOMAIN generated[p] : n >= k}
    BY <1>1, <2>2
  <2>4. received[p] \in MayShow(p, k)
    BY <2>2, <2>3, Zenon DEF MayShow
  <2> QED BY <2>1, <2>4 DEF k
<1>5. CASE task[p] \in {"unborn", "polling", "recording"}
  <2>1. CASE published[p] = <<>>
    BY <1>5, <2>1 DEF MayShow, LastInv
  <2>2. CASE published[p] # <<>>
    <3>1. last_value[p] = published[p][k] /\ k \in 1 .. k
      BY <1>1, <1>5, <2>2 DEF LastInv
    <3>2. k \in DOMAIN generated[p] /\ generated[p][k] = published[p][k]
      BY <1>2, <1>3, <3>1
    <3> QED BY <3>1, <3>2 DEF MayShow
  <2> QED BY <2>1, <2>2
<1> QED BY <1>4, <1>5 DEF TypeInv, TypeOK

\* What may be shown may still be shown later; what may be shown for more events may
\* be shown for fewer.
LEMMA MayShowGrows ==
  ASSUME TypeInv, [Next]_vars, NEW p \in Ports
  PROVE  /\ Len(published[p]) <= Len(published'[p])
         /\ \A k \in Nat : MayShow(p, k) \subseteq MayShow(p, k)'
<1>1. published[p] \in Seq(Results) /\ generated[p] \in Seq(Results)
  BY DEF TypeInv, TypeOK
<1>2. ASSUME UNCHANGED generated
      PROVE  \A k \in Nat : MayShow(p, k) \subseteq MayShow(p, k)'
  BY <1>2 DEF MayShow
<1>3. CASE Report
  <2>1. PICK new \in [Ports -> Results], force \in BOOLEAN :
          /\ UpdateValues(new, force, FALSE)
          /\ generated' = [r \in Ports |-> generated[r] \o
                             SubSeq(events'[r], Len(events[r]) + 1, Len(events'[r]))]
    BY <1>3 DEF Report
  <2> DEFINE fresh == SubSeq(events'[p], Len(events[p]) + 1, Len(events'[p]))
  <2>2. fresh \in Seq(Results) /\ generated'[p] = generated[p] \o fresh
    BY <2>1, ReportQueues DEF TypeInv
  <2> HIDE DEF fresh
  <2>3. /\ DOMAIN generated[p] \subseteq DOMAIN generated'[p]
        /\ \A n \in DOMAIN generated[p] : generated'[p][n] = generated[p][n]
    BY <1>1, <2>2
  <2>4. \A k \in Nat : MayShow(p, k) \subseteq MayShow(p, k)'
    BY <2>3 DEF MayShow
  <2> QED BY <1>1, <1>3, <2>4 DEF Report
<1>4. ASSUME NEW q \in Ports, PublishSucceeds(q)
      PROVE  Len(published[p]) <= Len(published'[p]) /\ UNCHANGED generated
  <2>1. published' = [published EXCEPT ![q] = Append(@, received[q])] /\ received[q] \in Results
    BY <1>4 DEF PublishSucceeds, TypeInv, TaskInv, Holding
  <2>2. published'[p] = published[p] \/ published'[p] = Append(published[p], received[q])
    BY <2>1 DEF TypeInv, TypeOK
  <2> QED BY <1>1, <1>4, <2>1, <2>2 DEF PublishSucceeds
<1>5. ASSUME NEW q \in Ports, MapPort(q) \/ NextEvent(q) \/ Record(q) \/ PublishFails(q)
      PROVE  UNCHANGED <<published, generated>>
  BY <1>5 DEF MapPort, NextEvent, Record, PublishFails
<1>6. CASE ProcessEnds \/ UNCHANGED vars
  BY <1>1, <1>2, <1>6 DEF ProcessEnds, vars
<1> QED BY <1>1, <1>2, <1>3, <1>4, <1>5, <1>6 DEF Next, Task

\* The ports mapped have different aliases; a request still has a port to read, or has
\* an acceptable answer for it.
Answered(i) ==
  LET port == port_states[i]
  IN  /\ port.alias \in DOMAIN shown
      /\ port.port \in Ports => shown[port.alias] \in MayShow(port.port, since[port.port])

GetInv ==
  /\ \A i, j \in DOMAIN port_states : port_states[i].alias = port_states[j].alias => i = j
  /\ \A p \in Ports : since[p] <= Len(published[p])
  /\ to_show # <<>> \/ DOMAIN shown # {} =>
       \A i \in DOMAIN port_states : (\E n \in DOMAIN to_show : to_show[n] = i) \/ Answered(i)

\* The steps of a request keep GetInv because reports only add to what may be shown.
LEMMA GetInvStep ==
  ASSUME TypeInv, InOrderOnce, LastInv, UniverseTypeInv, GetInv, [UniverseNext]_universeVars
  PROVE  GetInv'
<1>1. /\ \A p \in Ports : Len(published[p]) \in Nat /\ Len(published'[p]) \in Nat
      /\ \A p \in Ports : Len(published[p]) <= Len(published'[p])
      /\ \A p \in Ports, k \in Nat : MayShow(p, k) \subseteq MayShow(p, k)'
      /\ \A p \in Ports : since[p] \in Nat
  <2>1. TypeInv'
    BY PipelineStep, TypeInvStep
  <2> QED BY <2>1, PipelineStep, MayShowGrows
          DEF TypeInv, TypeOK, UniverseTypeInv, GetType
<1>2. ASSUME UNCHANGED since
      PROVE  \A p \in Ports : since'[p] <= Len(published'[p])
  BY <1>1, <1>2 DEF GetInv
<1>3. CASE UNCHANGED <<port_states, to_show, shown, since>>
  <2>1. \A i \in DOMAIN port_states : Answered(i) => Answered(i)'
    BY <1>1, <1>3 DEF Answered
  <2> QED BY <1>2, <1>3, <2>1 DEF GetInv
<1>4. CASE MapNext /\ ~Dies
  <2>1. /\ ~serving /\ UNCHANGED <<to_show, shown, since>>
        /\ NewPort \in PortState /\ NewPort.alias \notin aliases
        /\ port_states' = Append(port_states, NewPort)
        /\ port_states \in Seq(PortState)
        /\ \A i \in DOMAIN port_states : port_states[i].alias \in aliases
    BY <1>4, NewPortType, MapNextAdds DEF getVars, UniverseTypeInv, StartType
  <2>2. \A i, j \in DOMAIN port_states' :
          port_states'[i].alias = port_states'[j].alias => i = j
    BY <2>1 DEF GetInv
  <2>3. to_show' = <<>> /\ DOMAIN shown' = {}
    BY <2>1 DEF UniverseTypeInv, GetType
  <2> QED BY <1>2, <2>1, <2>2, <2>3 DEF GetInv
<1>5. CASE GetLastValues
  <2>1. /\ UNCHANGED <<port_states, published>>
        /\ to_show' = [i \in DOMAIN port_states |-> i]
        /\ since' = [p \in Ports |-> Len(published[p])]
    BY <1>5 DEF GetLastValues, startVars, vars
  <2>2. \A i \in DOMAIN port_states' : \E n \in DOMAIN to_show' : to_show'[n] = i
    BY <2>1
  <2> QED BY <1>1, <2>1, <2>2 DEF GetInv
<1>6. CASE ShowNext
  <2>0. PICK h \in DOMAIN port_states : h = Head(to_show)
    BY <1>6 DEF ShowNext, Getting, UniverseTypeInv, GetType, StartType
  <2> DEFINE port == port_states[h]
  <2>1. /\ to_show # <<>> /\ to_show \in Seq(1 .. Len(port_states))
        /\ shown' = Insert(shown, port.alias, LastValue(port.port))
        /\ to_show' = Tail(to_show)
        /\ UNCHANGED <<vars, port_states, since>>
    BY <1>6, <2>0 DEF ShowNext, Getting, startVars, UniverseTypeInv, GetType, StartType
  <2>2. UNCHANGED <<generated, published, last_value>>
    BY <2>1 DEF vars
  <2>3. Answered(h)'
    <3>1. ASSUME port.port \in Ports
          PROVE  LastValue(port.port) \in MayShow(port.port, since[port.port])
      <4>1. last_value[port.port] \in MayShow(port.port, Len(published[port.port]))
        BY <3>1, LastMayBeShown
      <4>2. MayShow(port.port, Len(published[port.port])) \subseteq MayShow(port.port, since[port.port])
        BY <1>1, <3>1 DEF MayShow, GetInv, TypeInv, TypeOK
      <4> QED BY <3>1, <4>1, <4>2 DEF LastValue
    <3>2. /\ port_states'[h] = port /\ since' = since
          /\ port.alias \in DOMAIN shown' /\ shown'[port.alias] = LastValue(port.port)
      BY <2>1 DEF Insert
    <3>3. \A q \in Ports : MayShow(q, since[q])' = MayShow(q, since[q])
      BY <2>1, <2>2 DEF MayShow
    <3> HIDE DEF port
    <3> QED BY <3>1, <3>2, <3>3 DEF Answered
  <2>4. ASSUME NEW i \in DOMAIN port_states, i # h, Answered(i)
        PROVE  Answered(i)'
    <3>1. port_states[i].alias # port.alias
      BY <2>1, <2>4 DEF GetInv
    <3> QED BY <2>1, <2>2, <2>4, <3>1 DEF Answered, Insert, MayShow
  <2>5. ASSUME NEW i \in DOMAIN port_states, i # h, NEW n \in DOMAIN to_show, to_show[n] = i
        PROVE  \E m \in DOMAIN Tail(to_show) : Tail(to_show)[m] = i
    <3>1. n - 1 \in DOMAIN Tail(to_show) /\ Tail(to_show)[n - 1] = to_show[n]
      BY <2>0, <2>1, <2>5
    <3> QED BY <2>5, <3>1
  <2>6. \A i \in DOMAIN port_states' :
          (\E m \in DOMAIN to_show' : to_show'[m] = i) \/ Answered(i)'
    <3> SUFFICES ASSUME NEW i \in DOMAIN port_states
                 PROVE  (\E m \in DOMAIN to_show' : to_show'[m] = i) \/ Answered(i)'
      BY <2>1
    <3>1. i = h \/ Answered(i) \/ \E n \in DOMAIN to_show : to_show[n] = i
      BY <2>1 DEF GetInv
    <3>2. CASE i = h
      BY <2>3, <3>2
    <3>3. CASE i # h /\ Answered(i)
      BY <2>4, <3>3
    <3>4. ASSUME i # h, NEW n \in DOMAIN to_show, to_show[n] = i
          PROVE  \E m \in DOMAIN to_show' : to_show'[m] = i
      BY <2>1, <2>5, <3>4
    <3> QED BY <3>1, <3>2, <3>3, <3>4
  <2> HIDE DEF port
  <2> QED BY <1>2, <2>1, <2>6 DEF GetInv
<1> QED BY <1>3, <1>4, <1>5, <1>6
       DEF UniverseNext, CreateDevice, MapNext, Serve, Pipeline, Dies, universeVars, startVars,
           getVars

\* A client of the broker that asks for the last values is not shown less than it has
\* seen, whatever tasks, reports and other ports do while the answer is put together.
THEOREM LastValuesAreNotBehind == UniverseSpec => []GetIsNotBehind
<1>1. UniverseInit => GetInv
  BY DEF UniverseInit, GetInv, Init
<1>2. Init => LastInv
  BY DEF Init, LastInv
<1>3. Spec => [](TypeInv /\ LastInv)
  BY <1>2, TypeInvInit, TypeInvStep, LastInvStep, PTL DEF Spec
<1>4. TypeInv /\ InOrderOnce /\ LastInv /\ UniverseTypeInv /\ GetInv
        /\ [UniverseNext]_universeVars => GetInv'
  BY GetInvStep
<1>5. UniverseTypeInv /\ GetInv => GetIsNotBehind
  BY DEF GetInv, GetIsNotBehind, Getting, Answered, MayShow
<1> QED BY <1>1, <1>3, <1>4, <1>5, IsEventPipeline, UniversePublishesInOrder,
           UniverseTypeInvHolds, PTL DEF UniverseSpec
=============================================================================
