------------------------- MODULE ButtonInput_proofs -------------------------
(***************************************************************************)
(* Proofs about ButtonInput, for both devices, any ports, any length of a  *)
(* second, any delays between readings and any number of bad ones.         *)
(***************************************************************************)
EXTENDS ButtonInput, SequenceTheorems, TLAPS

-----------------------------------------------------------------------------
(***************************************************************************)
(* Whole seconds.                                                          *)
(***************************************************************************)
\* A quotient is a number no greater than the dividend, and grows with it.
LEMMA Quotients ==
  \A s \in Nat \ {0} : \A a \in Nat :
    /\ a \div s \in 0 .. a
    /\ \A b \in Nat : a <= b => a \div s <= b \div s
<1> TAKE s \in Nat \ {0}
<1> TAKE a \in Nat
<1>1. a \div s \in 0 .. a
  OBVIOUS
<1>2. ASSUME NEW b \in Nat, a <= b
      PROVE  a \div s <= b \div s
  BY <1>2
<1> QED BY <1>1, <1>2

-----------------------------------------------------------------------------
(***************************************************************************)
(* Types.  No button went down after the last reading used, and that was   *)
(* not after now; a port that is not mapped has no value and no events.    *)
(***************************************************************************)
TypeInv ==
  /\ TypeOK
  /\ \A p \in Ports : down[p] <= read_at
  /\ bus_errors <= now /\ read_at <= now
  /\ \A p \in Ports \ mapped : device_values[p] = NoValue /\ events[p] = <<>>

\* A tick of the clock.
LEMMA TickType ==
  ASSUME TypeInv, Tick
  PROVE  now' \in 0 .. MaxTime /\ now < now'
BY ButtonAssumption DEF Tick, TypeInv, TypeOK

\* What the times of a port become with a reading.
LEMMA DownType ==
  ASSUME TypeInv, Tick, NEW new \in [Ports -> Readings], UpdateInner(new)
  PROVE  /\ down' \in [Ports -> 0 .. MaxTime]
         /\ down_secs' \in [Ports -> 0 .. MaxTime]
         /\ \A p \in Ports : down'[p] <= now'
<1>1. now' \in 0 .. MaxTime /\ now < now' /\ now \in Nat /\ MaxTime \in Nat
  BY TickType, ButtonAssumption DEF TypeInv, TypeOK
<1>2. ASSUME NEW p \in Ports
      PROVE  /\ down[p] \in 0 .. MaxTime /\ down[p] <= now' /\ down_secs[p] \in 0 .. MaxTime
             /\ DownFor(p) \in 0 .. MaxTime /\ DownFor(p) \div Second \in 0 .. MaxTime
  <2>1. down[p] \in 0 .. MaxTime /\ down[p] <= now /\ down_secs[p] \in 0 .. MaxTime
    BY <1>1 DEF TypeInv, TypeOK
  <2>2. DownFor(p) \in 0 .. MaxTime /\ DownFor(p) \in Nat
    BY <1>1, <2>1 DEF DownFor
  <2>3. DownFor(p) \div Second \in 0 .. DownFor(p)
    BY <2>2, Quotients, ButtonAssumption, Zenon
  <2> QED BY <1>1, <2>1, <2>2, <2>3
<1> QED BY <1>1, <1>2, ButtonAssumption DEF UpdateInner

\* A queue grows by at most three events at once.
LEMMA ShortSequences ==
  \A S : /\ <<>> \in Seq(S)
         /\ \A a \in S : <<a>> \in Seq(S) /\ \A b \in S : <<a, b>> \in Seq(S)
OBVIOUS

\* Button events of a reading.
LEMMA PressingType ==
  ASSUME TypeInv, Tick, NEW new \in [Ports -> Readings], NEW p \in Ports
  PROVE  Pressing(p, new) \in Seq(Results \cup ButtonEvents)
<1>1. now' \in 0 .. MaxTime /\ now < now' /\ now \in Nat /\ MaxTime \in Nat
  BY TickType, ButtonAssumption DEF TypeInv, TypeOK
<1>2. DownFor(p) \in 0 .. MaxTime /\ DownFor(p) \in Nat
  BY <1>1 DEF DownFor, TypeInv, TypeOK
<1>3. DownFor(p) \div Second \in 0 .. MaxTime
  <2>1. DownFor(p) \div Second \in 0 .. DownFor(p)
    BY <1>2, Quotients, ButtonAssumption, Zenon
  <2> QED BY <1>1, <1>2, <2>1
<1>4. \A b \in {"down", "up", "clicked", "long"}, s \in 0 .. MaxTime :
        [button |-> b, at |-> now', span |-> s] \in Results \cup ButtonEvents
  BY <1>1 DEF ButtonEvents
<1>5. 0 \in 0 .. MaxTime
  BY <1>1
<1> DEFINE E == Results \cup ButtonEvents
<1>6. /\ <<[button |-> "down", at |-> now', span |-> 0]>> \in Seq(E)
      /\ <<[button |-> "up", at |-> now', span |-> 0],
           [button |-> "clicked", at |-> now', span |-> DownFor(p)]>> \in Seq(E)
      /\ <<[button |-> "long", at |-> now', span |-> DownFor(p) \div Second]>> \in Seq(E)
      /\ <<>> \in Seq(E)
  BY <1>2, <1>3, <1>4, <1>5, ShortSequences, Zenon
<1> QED BY <1>6, Zenon DEF Pressing

\* What a reading does to the queue of a mapped port.
UpdateOf(p, new) == IF GeneratesEvent(device_values[p], new[p], FALSE, FALSE) THEN <<new[p]>> ELSE <<>>

\* TypeInv is inductive.
LEMMA TypeInvStep ==
  ASSUME TypeInv, [Next]_vars
  PROVE  TypeInv'
<1> USE ButtonAssumption
<1>1. /\ now \in Nat /\ MaxTime \in Nat /\ bus_errors \in Nat /\ bus_errors <= now
      /\ read_at \in 0 .. MaxTime /\ read_at <= now /\ now <= MaxTime
      /\ \A p \in Ports : down[p] \in Nat /\ down[p] <= now
  BY DEF TypeInv, TypeOK
<1>2. ASSUME NEW p \in Configured, GetInputPort(p)
      PROVE  TypeInv'
  <2>1. events' \in [Ports -> Seq(Results \cup ButtonEvents)]
    BY <1>2 DEF GetInputPort, SetUpEvents, TypeInv, TypeOK
  <2> QED BY <1>2, <2>1 DEF GetInputPort, SetUpEvents, deviceVars, TypeInv, TypeOK
<1>3. CASE ReadPins
  <2>1. PICK new \in [Ports -> Readings] : UpdateInner(new)
    BY <1>3 DEF ReadPins
  <2>2. now' \in 0 .. MaxTime /\ now < now' /\ Tick
    BY <1>3, TickType DEF ReadPins
  <2>3. events' \in [Ports -> Seq(Results \cup ButtonEvents)]
    <3>1. ASSUME NEW p \in Ports
          PROVE  events'[p] \in Seq(Results \cup ButtonEvents)
      <4>1. events[p] \in Seq(Results \cup ButtonEvents)
        BY DEF TypeInv, TypeOK
      <4>2. Pressing(p, new) \in Seq(Results \cup ButtonEvents)
        BY <2>2, PressingType, Zenon
      <4>3. UpdateOf(p, new) \in Seq(Results \cup ButtonEvents)
        <5>1. new[p] \in Results \cup ButtonEvents
          BY DEF Results
        <5> QED BY <5>1, ShortSequences, Zenon DEF UpdateOf
      <4>4. (events[p] \o Pressing(p, new)) \o UpdateOf(p, new) \in Seq(Results \cup ButtonEvents)
        BY <4>1, <4>2, <4>3, ConcatProperties, Zenon
      <4>5. events'[p] = (IF p \in mapped THEN (events[p] \o Pressing(p, new)) \o UpdateOf(p, new)
                          ELSE events[p])
        BY <2>1, Zenon DEF UpdateInner, UpdateOf
      <4> QED BY <4>1, <4>4, <4>5, Zenon
    <3>2. events' = [p \in Ports |-> events'[p]]
      BY <2>1 DEF UpdateInner
    <3> QED BY <3>1, <3>2
  <2>4. /\ device_values' \in [Ports -> Results \cup {NoValue}]
        /\ \A p \in Ports \ mapped' : device_values'[p] = NoValue /\ events'[p] = <<>>
        /\ mapped' = mapped
    BY <2>1 DEF UpdateInner, TypeInv, TypeOK, Results
  <2>5. /\ down' \in [Ports -> 0 .. MaxTime]
        /\ down_secs' \in [Ports -> 0 .. MaxTime]
        /\ \A p \in Ports : down'[p] <= now'
    BY <2>1, <2>2, DownType
  <2>6. /\ bus_errors' = 0 /\ read_at' = now' /\ pc' = pc /\ device' = device
    BY <1>3 DEF ReadPins, Tick
  <2> QED BY <1>1, <2>2, <2>3, <2>4, <2>5, <2>6 DEF TypeInv, TypeOK
<1>4. CASE BusError
  <2>1. now' \in 0 .. MaxTime /\ now < now'
    BY <1>4, TickType DEF BusError
  <2>2. /\ device_values' \in [Ports -> Results \cup {NoValue}]
        /\ events' \in [Ports -> Seq(Results \cup ButtonEvents)]
        /\ \A p \in Ports \ mapped' : device_values'[p] = NoValue /\ events'[p] = <<>>
        /\ mapped' = mapped
    <3>1. CASE UNCHANGED readCoreVars
      BY <3>1 DEF readCoreVars, TypeInv, TypeOK
    <3>2. CASE UpdateValues([p \in Ports |-> Err], TRUE, FALSE)
      <4>1. Err \in Results \cup ButtonEvents
        BY DEF Results
      <4> QED BY <3>2, <4>1 DEF UpdateValues, GeneratesEvent, TypeInv, TypeOK, Results
    <3> QED BY <1>4, <3>1, <3>2 DEF BusError
  <2>3. bus_errors' = bus_errors + 1
    BY <1>4 DEF BusError
  <2> QED BY <1>1, <1>4, <2>1, <2>2, <2>3 DEF BusError, Tick, TypeInv, TypeOK
<1>5. CASE IgnoreReading \/ WatchdogReset
  <2>1. now' \in 0 .. MaxTime /\ now < now'
    BY <1>5, TickType DEF IgnoreReading, WatchdogReset
  <2> QED BY <1>1, <1>5, <2>1
             DEF IgnoreReading, WatchdogReset, Tick, readCoreVars, TypeInv, TypeOK
<1>6. CASE ClearWatchdog
  BY <1>6 DEF ClearWatchdog, readCoreVars, TypeInv, TypeOK
<1>7. CASE UNCHANGED vars
  BY <1>7 DEF vars, readCoreVars, deviceVars, TypeInv, TypeOK
<1> QED BY <1>2, <1>3, <1>4, <1>5, <1>6, <1>7 DEF Next

\* TypeInv holds at the start.
LEMMA TypeInvInit == Init => TypeInv
<1> SUFFICES ASSUME Init
             PROVE  TypeInv
  OBVIOUS
<1>1. \A p \in Ports : <<>> \in Seq(Results \cup ButtonEvents)
  OBVIOUS
<1>2. 0 \in 0 .. MaxTime
  BY ButtonAssumption
<1> QED BY <1>1, <1>2 DEF Init, ReadCoreInit, TypeInv, TypeOK

\* TypeInv holds.
LEMMA TypeInvHolds == Spec => []TypeInv
BY TypeInvInit, TypeInvStep, PTL DEF Spec

\* Every variable of the inputs, their event histories included, keeps its type.
THEOREM TypeCorrect == Spec => []TypeOK
<1>1. TypeInv => TypeOK
  BY DEF TypeInv
<1> QED BY <1>1, TypeInvHolds, PTL

-----------------------------------------------------------------------------
(***************************************************************************)
(* What a reading adds to the history of a port.                           *)
(***************************************************************************)
\* Where the elements of a concatenation are.
LEMMA InConcat ==
  ASSUME NEW S, NEW a \in Seq(S), NEW b \in Seq(S)
  PROVE  /\ a \o b \in Seq(S)
         /\ Len(a \o b) = Len(a) + Len(b)
         /\ \A k \in 1 .. Len(a) : (a \o b)[k] = a[k]
         /\ \A k \in 1 .. Len(b) : (a \o b)[Len(a) + k] = b[k]
<1> DEFINE ab == a \o b
<1>1. /\ ab \in Seq(S) /\ Len(ab) = Len(a) + Len(b)
      /\ \A i \in 1 .. Len(a) + Len(b) : ab[i] = IF i <= Len(a) THEN a[i] ELSE b[i - Len(a)]
  BY ConcatProperties
<1> HIDE DEF ab
<1>2. Len(a) \in Nat /\ Len(b) \in Nat
  OBVIOUS
<1>3. \A k \in 1 .. Len(a) : ab[k] = a[k]
  BY <1>1, <1>2
<1>4. \A k \in 1 .. Len(b) : ab[Len(a) + k] = b[k]
  BY <1>1, <1>2, SMTT(30)
<1> QED BY <1>1, <1>3, <1>4 DEF ab

\* The new part of a port's history, after the n events it had.
New(p) == Len(events[p]) + 1 .. Len(events'[p])

\* The old events stay, and what is new tells what the reading was.
Adds(p, new) ==
  LET n == Len(events[p]) IN
  /\ Len(events'[p]) \in Nat /\ n <= Len(events'[p])
  /\ \A k \in 1 .. n : events'[p][k] = events[p][k]
  /\ \A k \in New(p) :
       /\ ~IsError(p, k)'
       /\ Is(p, k, "down")' <=> k = n + 1 /\ GoesDown(p, new)
       /\ Is(p, k, "up")' <=> k = n + 1 /\ GoesUp(p, new)
       /\ Is(p, k, "clicked")' <=> k = n + 2 /\ GoesUp(p, new)
       /\ Is(p, k, "long")' <=> k = n + 1 /\ StaysDown(p, new)
  /\ GoesDown(p, new) => n + 1 \in New(p) /\ events'[p][n + 1].at = now'
  /\ GoesUp(p, new) =>
       /\ n + 1 \in New(p) /\ n + 2 \in New(p)
       /\ events'[p][n + 2].at = now' /\ events'[p][n + 2].span = DownFor(p)
  /\ StaysDown(p, new) => n + 1 \in New(p) /\ events'[p][n + 1].span = DownFor(p) \div Second

\* A reading adds that to the histories of the mapped ports.
LEMMA ReadingAdds ==
  ASSUME TypeInv, Tick, NEW new \in [Ports -> Readings], UpdateInner(new), NEW p \in mapped
  PROVE  Adds(p, new)
<1> DEFINE n == Len(events[p])
           B == Pressing(p, new)
           U == UpdateOf(p, new)
           E == Results \cup ButtonEvents
<1>1. p \in Ports
  BY ButtonAssumption DEF TypeInv, TypeOK
<1>2. events[p] \in Seq(E) /\ n \in Nat /\ now' \in 0 .. MaxTime
  BY <1>1, TickType DEF TypeInv, TypeOK
<1>3. B \in Seq(E) /\ U \in Seq(E)
  <2>1. new[p] \in E
    BY <1>1 DEF Results
  <2> QED BY <1>1, <2>1, PressingType, ShortSequences, Zenon DEF UpdateOf
<1>4. events'[p] = (events[p] \o B) \o U
  BY <1>1, Zenon DEF UpdateInner, UpdateOf
<1>5. /\ Len(events'[p]) = n + Len(B) + Len(U)
      /\ \A k \in 1 .. n : events'[p][k] = events[p][k]
      /\ \A k \in 1 .. Len(B) : events'[p][n + k] = B[k]
      /\ \A k \in n + Len(B) + 1 .. Len(events'[p]) : events'[p][k] = U[k - n - Len(B)]
  <2> HIDE DEF B, U, E
  <2> DEFINE ab == events[p] \o B
  <2>1. /\ ab \in Seq(E) /\ Len(ab) = n + Len(B)
        /\ \A k \in 1 .. n : ab[k] = events[p][k]
        /\ \A k \in 1 .. Len(B) : ab[n + k] = B[k]
    BY <1>2, <1>3, InConcat, SMTT(30)
  <2>2. events'[p] = ab \o U
    BY <1>4
  <2> HIDE DEF ab
  <2>3. /\ Len(events'[p]) = Len(ab) + Len(U)
        /\ \A k \in 1 .. Len(ab) : events'[p][k] = ab[k]
        /\ \A k \in 1 .. Len(U) : events'[p][Len(ab) + k] = U[k]
    <3>1. /\ Len(ab \o U) = Len(ab) + Len(U)
          /\ \A k \in 1 .. Len(ab) : (ab \o U)[k] = ab[k]
          /\ \A k \in 1 .. Len(U) : (ab \o U)[Len(ab) + k] = U[k]
      <4>1. ab \in Seq(E) /\ U \in Seq(E)
        BY <1>3, <2>1
      <4> QED BY <4>1, InConcat, SMTT(30)
    <3> QED BY <2>2, <3>1
  <2>4. n \in Nat /\ Len(B) \in Nat /\ Len(U) \in Nat
    BY <1>2, <1>3
  <2> HIDE DEF n
  <2>5. \A k \in n + Len(B) + 1 .. Len(events'[p]) : events'[p][k] = U[k - n - Len(B)]
    <3> TAKE k \in n + Len(B) + 1 .. Len(events'[p])
    <3> DEFINE l == k - n - Len(B)
    <3>1. l \in 1 .. Len(U) /\ k = Len(ab) + l
      BY <2>1, <2>3, <2>4
    <3> HIDE DEF l
    <3>2. events'[p][k] = U[l]
      BY <2>3, <3>1, Zenon
    <3> QED BY <3>2 DEF l
  <2>6. Len(events'[p]) = n + Len(B) + Len(U)
    BY <2>1, <2>3
  <2>7. /\ \A k \in 1 .. n : events'[p][k] = ab[k]
        /\ \A k \in 1 .. Len(B) : n + k \in 1 .. Len(ab)
    <3>1. /\ \A k \in 1 .. n : k \in 1 .. Len(ab)
          /\ \A k \in 1 .. Len(B) : n + k \in 1 .. Len(ab)
      <4>1. Len(ab) = n + Len(B)
        BY <2>1
      <4> QED BY <2>4, <4>1
    <3> QED BY <2>3, <3>1, Zenon
  <2>8. \A k \in 1 .. Len(B) : events'[p][n + k] = B[k]
    BY <2>1, <2>3, <2>7, Zenon
  <2>9. \A k \in 1 .. n : events'[p][k] = events[p][k]
    BY <2>1, <2>7, Zenon
  <2> QED BY <2>5, <2>6, <2>8, <2>9, Zenon
<1>6. Len(U) \in 0 .. 1 /\ \A k \in 1 .. Len(U) : U[k] \in Readings
  <2>1. new[p] \in Readings
    BY <1>1
  <2>2. CASE U = <<new[p]>>
    <3> HIDE DEF U
    <3> QED BY <2>1, <2>2
  <2>3. CASE U = <<>>
    <3> HIDE DEF U
    <3> QED BY <2>3
  <2> QED BY <2>2, <2>3, Zenon DEF UpdateOf
<1>7. Readings \cap ButtonEvents = {} /\ Err \notin Readings /\ Err \notin ButtonEvents
  BY ReadCoreAssumption, EventsAssumption DEF Results
<1>8. Len(B) \in Nat
  BY <1>3
<1>9. \A k \in n + Len(B) + 1 .. Len(events'[p]) :
        events'[p][k] \notin ButtonEvents /\ events'[p][k] # Err
  <2> SUFFICES ASSUME NEW k \in n + Len(B) + 1 .. Len(events'[p])
               PROVE  events'[p][k] \in Readings
    BY <1>7
  <2>1. k - n - Len(B) \in 1 .. Len(U)
    BY <1>2, <1>5, <1>6, <1>8
  <2> QED BY <1>5, <1>6, <2>1, Zenon
<1> HIDE DEF U, B
<1>10. New(p) = n + 1 .. n + Len(B) + Len(U)
  BY <1>5 DEF New
<1>11. On # Off
  BY ButtonAssumption
<1>12. DownFor(p) \in 0 .. MaxTime /\ DownFor(p) \div Second \in 0 .. MaxTime /\ 0 \in 0 .. MaxTime
  <2>1. DownFor(p) \in 0 .. MaxTime /\ DownFor(p) \in Nat /\ MaxTime \in Nat
    BY <1>1, TickType, ButtonAssumption DEF DownFor, TypeInv, TypeOK
  <2>2. DownFor(p) \div Second \in 0 .. DownFor(p)
    BY <2>1, Quotients, ButtonAssumption, Zenon
  <2> QED BY <2>1, <2>2
<1>13. \A b \in {"down", "up", "clicked", "long"}, s \in 0 .. MaxTime :
         [button |-> b, at |-> now', span |-> s] \in ButtonEvents
  BY <1>2 DEF ButtonEvents
<1>14. CASE GoesDown(p, new)
  <2>1. B = << [button |-> "down", at |-> now', span |-> 0] >>
        /\ ~GoesUp(p, new) /\ ~StaysDown(p, new)
    BY <1>11, <1>14 DEF B, Pressing, GoesDown, GoesUp, StaysDown
  <2>2. Len(B) = 1 /\ events'[p][n + 1] = [button |-> "down", at |-> now', span |-> 0]
        /\ events'[p][n + 1] \in ButtonEvents
    BY <1>5, <1>12, <1>13, <2>1
  <2>3. ASSUME NEW k \in New(p)
        PROVE  /\ ~IsError(p, k)'
               /\ Is(p, k, "down")' <=> k = n + 1 /\ GoesDown(p, new)
               /\ Is(p, k, "up")' <=> k = n + 1 /\ GoesUp(p, new)
               /\ Is(p, k, "clicked")' <=> k = n + 2 /\ GoesUp(p, new)
               /\ Is(p, k, "long")' <=> k = n + 1 /\ StaysDown(p, new)
    BY <1>2, <1>5, <1>6, <1>7, <1>9, <1>10, <1>14, <2>1, <2>2, SMTT(30) DEF Is, IsError
  <2> QED BY <1>2, <1>5, <1>6, <1>10, <1>14, <2>1, <2>2, <2>3 DEF Adds
<1>15. CASE GoesUp(p, new)
  <2>1. B = << [button |-> "up", at |-> now', span |-> 0],
               [button |-> "clicked", at |-> now', span |-> DownFor(p)] >>
        /\ ~GoesDown(p, new) /\ ~StaysDown(p, new)
    BY <1>11, <1>15 DEF B, Pressing, GoesDown, GoesUp, StaysDown
  <2>2. Len(B) = 2 /\ events'[p][n + 1] = [button |-> "up", at |-> now', span |-> 0]
        /\ events'[p][n + 2] = [button |-> "clicked", at |-> now', span |-> DownFor(p)]
        /\ events'[p][n + 1] \in ButtonEvents /\ events'[p][n + 2] \in ButtonEvents
    BY <1>5, <1>12, <1>13, <2>1, SMTT(30)
  <2>3. ASSUME NEW k \in New(p)
        PROVE  /\ ~IsError(p, k)'
               /\ Is(p, k, "down")' <=> k = n + 1 /\ GoesDown(p, new)
               /\ Is(p, k, "up")' <=> k = n + 1 /\ GoesUp(p, new)
               /\ Is(p, k, "clicked")' <=> k = n + 2 /\ GoesUp(p, new)
               /\ Is(p, k, "long")' <=> k = n + 1 /\ StaysDown(p, new)
    <3>1. k = n + 1 \/ k = n + 2 \/ k \in n + Len(B) + 1 .. Len(events'[p])
      <4>1. Len(events'[p]) = n + Len(B) + Len(U) /\ Len(U) \in Nat /\ Len(B) = 2 /\ n \in Nat
        BY <1>2, <1>5, <1>6, <2>2
      <4>2. k \in n + 1 .. n + Len(B) + Len(U)
        BY <1>10, Zenon
      <4> HIDE DEF n
      <4> QED BY <4>1, <4>2
    <3>2. CASE k = n + 1
      BY <1>2, <1>7, <1>15, <2>1, <2>2, <3>2 DEF Is, IsError
    <3>3. CASE k = n + 2
      BY <1>2, <1>7, <1>15, <2>1, <2>2, <3>3 DEF Is, IsError
    <3>4. CASE k \in n + Len(B) + 1 .. Len(events'[p])
      <4>1. k # n + 1 /\ k # n + 2
        BY <1>2, <1>5, <1>6, <2>2, <3>4
      <4> QED BY <1>9, <2>1, <3>4, <4>1 DEF Is, IsError
    <3> QED BY <3>1, <3>2, <3>3, <3>4
  <2> QED BY <1>2, <1>5, <1>6, <1>10, <1>15, <2>1, <2>2, <2>3 DEF Adds
<1>16. CASE StaysDown(p, new)
  <2>1. B = << [button |-> "long", at |-> now', span |-> DownFor(p) \div Second] >>
        /\ ~GoesDown(p, new) /\ ~GoesUp(p, new)
    BY <1>11, <1>16 DEF B, Pressing, GoesDown, GoesUp, StaysDown
  <2>2. Len(B) = 1
        /\ events'[p][n + 1] = [button |-> "long", at |-> now', span |-> DownFor(p) \div Second]
        /\ events'[p][n + 1] \in ButtonEvents
    BY <1>5, <1>12, <1>13, <2>1, SMTT(30)
  <2>3. ASSUME NEW k \in New(p)
        PROVE  /\ ~IsError(p, k)'
               /\ Is(p, k, "down")' <=> k = n + 1 /\ GoesDown(p, new)
               /\ Is(p, k, "up")' <=> k = n + 1 /\ GoesUp(p, new)
               /\ Is(p, k, "clicked")' <=> k = n + 2 /\ GoesUp(p, new)
               /\ Is(p, k, "long")' <=> k = n + 1 /\ StaysDown(p, new)
    BY <1>2, <1>5, <1>6, <1>7, <1>9, <1>10, <1>16, <2>1, <2>2, SMTT(30) DEF Is, IsError
  <2> QED BY <1>2, <1>5, <1>6, <1>10, <1>16, <2>1, <2>2, <2>3 DEF Adds
<1>17. CASE ~GoesDown(p, new) /\ ~GoesUp(p, new) /\ ~StaysDown(p, new)
  <2>1. B = <<>> /\ Len(B) = 0
    BY <1>17 DEF B, Pressing
  <2> QED BY <1>2, <1>5, <1>6, <1>7, <1>9, <1>10, <1>17, <2>1 DEF Adds, Is, IsError
<1> QED BY <1>14, <1>15, <1>16, <1>17

-----------------------------------------------------------------------------
(***************************************************************************)
(* The history of a port and its state.  What the properties say of two    *)
(* events is not inductive: it needs what the first of them, if it is the  *)
(* last of its kind, says of the port's value and times.                   *)
(***************************************************************************)
Past(p) == 1 .. Len(events[p])
Since(p, i) == i + 1 .. Len(events[p])

Edges(p) ==
  \A i, j \in Past(p) : i < j =>
    /\ Is(p, i, "down") /\ Is(p, j, "down") =>
         \E k \in Between(<<i, j>>) : Is(p, k, "up") \/ IsError(p, k)
    /\ Is(p, i, "up") /\ Is(p, j, "up") =>
         \E k \in Between(<<i, j>>) : Is(p, k, "down") \/ IsError(p, k)

\* A press without an end is in the port's value, and so is a release.
Levels(p) ==
  \A i \in Past(p) :
    /\ Is(p, i, "down") /\ (\A k \in Since(p, i) : ~Is(p, k, "up") /\ ~IsError(p, k))
         => device_values[p] = On
    /\ Is(p, i, "up") /\ (\A k \in Since(p, i) : ~Is(p, k, "down") /\ ~IsError(p, k))
         => device_values[p] = Off

\* The latest Down started the clock of the button, and each Clicked reads it.
LatestDown(p) ==
  \A i \in Past(p) :
    Is(p, i, "down") /\ (\A k \in Since(p, i) : ~Is(p, k, "down")) => events[p][i].at = down[p]

Clicks(p) ==
  \A i, j \in Past(p) :
    /\ i < j /\ Is(p, i, "down") /\ Is(p, j, "clicked")
    /\ \A k \in Between(<<i, j>>) : ~Is(p, k, "down")
    => events[p][j].span = events[p][j].at - events[p][i].at

\* The seconds of a press under way are those at the last reading used, and those of
\* its last LongPress.
Held(p) ==
  \A i \in Past(p) :
    Is(p, i, "down") /\ (\A k \in Since(p, i) : ~Is(p, k, "up") /\ ~IsError(p, k)) =>
      /\ events[p][i].at = down[p]
      /\ down_secs[p] = (read_at - down[p]) \div Second
      /\ \/ down_secs[p] = 0 /\ \A k \in Since(p, i) : ~Is(p, k, "long")
         \/ \E k \in Since(p, i) : /\ Is(p, k, "long") /\ events[p][k].span = down_secs[p]
                                   /\ \A l \in Since(p, i) : Is(p, l, "long") => l <= k

HistoryInv(p) == Edges(p) /\ Levels(p) /\ LatestDown(p) /\ Clicks(p) /\ Held(p)

\* A step that leaves a port alone, or gives it a new queue.
LEMMA QuietStep ==
  ASSUME NEW p \in Ports, HistoryInv(p),
         \/ events'[p] = <<>>
         \/ UNCHANGED <<events[p], device_values[p], down[p], down_secs[p], read_at>>
  PROVE  HistoryInv(p)'
<1>1. CASE events'[p] = <<>>
  <2>1. Past(p)' = {}
    BY <1>1 DEF Past
  <2> QED BY <2>1 DEF HistoryInv, Edges, Levels, LatestDown, Clicks, Held
<1>2. CASE UNCHANGED <<events[p], device_values[p], down[p], down_secs[p], read_at>>
  BY <1>2 DEF HistoryInv, Edges, Levels, LatestDown, Clicks, Held, Past, Since, Is, IsError
<1> QED BY <1>1, <1>2

\* An error is the end of whatever was under way.
LEMMA ErrorStep ==
  ASSUME TypeInv, NEW p \in Ports, HistoryInv(p),
         events'[p] = Append(events[p], Err), down'[p] = down[p]
  PROVE  HistoryInv(p)'
<1> DEFINE n == Len(events[p])
<1>1. events[p] \in Seq(Results \cup ButtonEvents) /\ n \in Nat
  BY DEF TypeInv, TypeOK
<1>2. /\ Past(p)' = 1 .. n + 1 /\ Past(p) = 1 .. n
      /\ \A k \in 1 .. n : events'[p][k] = events[p][k]
      /\ events'[p][n + 1] = Err
  BY <1>1 DEF Past
<1>3. Err \notin ButtonEvents
  BY EventsAssumption DEF Results
<1>4. /\ \A k \in 1 .. n : (IsError(p, k)' <=> IsError(p, k)) /\ \A b : Is(p, k, b)' <=> Is(p, k, b)
      /\ \A k \in Past(p)' : k \notin 1 .. n => k = n + 1 /\ IsError(p, k)' /\ \A b : ~Is(p, k, b)'
      /\ \A i \in 1 .. n + 1 : Since(p, i)' = i + 1 .. n + 1 /\ Since(p, i) = i + 1 .. n
  BY <1>1, <1>2, <1>3 DEF Is, IsError, Since
<1> HIDE DEF n
<1>5. Edges(p)'
  <2> SUFFICES ASSUME NEW i \in Past(p)', NEW j \in Past(p)', i < j
               PROVE  /\ Is(p, i, "down")' /\ Is(p, j, "down")' =>
                           \E k \in Between(<<i, j>>) : Is(p, k, "up")' \/ IsError(p, k)'
                      /\ Is(p, i, "up")' /\ Is(p, j, "up")' =>
                           \E k \in Between(<<i, j>>) : Is(p, k, "down")' \/ IsError(p, k)'
    BY DEF Edges, Between
  <2>1. CASE j \in 1 .. n
    <3>1. i \in 1 .. n /\ Between(<<i, j>>) \subseteq 1 .. n
      BY <1>1, <1>2, <2>1 DEF Between
    <3> QED BY <1>2, <1>4, <2>1, <3>1 DEF HistoryInv, Edges
  <2>2. CASE j \notin 1 .. n
    BY <1>4, <2>2
  <2> QED BY <2>1, <2>2
<1>6. \A i \in Past(p)' : \A b : Is(p, i, b)' =>
        /\ i \in 1 .. n /\ Is(p, i, b) /\ n + 1 \in Since(p, i)'
        /\ Since(p, i) \subseteq Since(p, i)' /\ Since(p, i) \subseteq 1 .. n
        /\ \A k \in Since(p, i)' : k \in Since(p, i) \/ k = n + 1
  <2> SUFFICES ASSUME NEW i \in Past(p)', NEW b, Is(p, i, b)'
               PROVE  /\ i \in 1 .. n /\ Is(p, i, b) /\ n + 1 \in Since(p, i)'
                      /\ Since(p, i) \subseteq Since(p, i)' /\ Since(p, i) \subseteq 1 .. n
                      /\ \A k \in Since(p, i)' : k \in Since(p, i) \/ k = n + 1
    OBVIOUS
  <2>1. i \in 1 .. n /\ Is(p, i, b)
    BY <1>4, Zenon
  <2>2. Since(p, i)' = i + 1 .. n + 1 /\ Since(p, i) = i + 1 .. n
    <3>1. i \in 1 .. n + 1
      BY <1>2
    <3> QED BY <1>4, <3>1, Zenon
  <2>3. /\ n + 1 \in i + 1 .. n + 1
        /\ i + 1 .. n \subseteq i + 1 .. n + 1 /\ i + 1 .. n \subseteq 1 .. n
        /\ \A k \in i + 1 .. n + 1 : k \in i + 1 .. n \/ k = n + 1
    BY <1>1, <2>1
  <2> QED BY <2>1, <2>2, <2>3, Zenon
<1>7. Levels(p)' /\ Held(p)'
  <2>1. \A i \in Past(p)' : \A b : Is(p, i, b)' => \E k \in Since(p, i)' : IsError(p, k)'
    <3>1. n + 1 \in Past(p)' /\ n + 1 \notin 1 .. n
      BY <1>1, <1>2
    <3> QED BY <1>4, <1>6, <3>1, Zenon
  <2> QED BY <2>1 DEF Levels, Held
<1>8. LatestDown(p)'
  <2> SUFFICES ASSUME NEW i \in Past(p)', Is(p, i, "down")',
                      \A k \in Since(p, i)' : ~Is(p, k, "down")'
               PROVE  events'[p][i].at = down'[p]
    BY DEF LatestDown
  <2>1. i \in 1 .. n /\ Is(p, i, "down") /\ Since(p, i) \subseteq Since(p, i)'
        /\ Since(p, i) \subseteq 1 .. n
    BY <1>6
  <2>2. \A k \in Since(p, i) : ~Is(p, k, "down")
    BY <1>4, <2>1
  <2> QED BY <1>2, <2>1, <2>2 DEF HistoryInv, LatestDown
<1>9. Clicks(p)'
  <2> SUFFICES ASSUME NEW i \in Past(p)', NEW j \in Past(p)', i < j,
                      Is(p, i, "down")', Is(p, j, "clicked")',
                      \A k \in Between(<<i, j>>) : ~Is(p, k, "down")'
               PROVE  events'[p][j].span = events'[p][j].at - events'[p][i].at
    BY DEF Clicks, Between
  <2>1. i \in 1 .. n /\ j \in 1 .. n /\ Is(p, i, "down") /\ Is(p, j, "clicked")
    BY <1>6
  <2>2. Between(<<i, j>>) \subseteq 1 .. n
    BY <1>1, <2>1 DEF Between
  <2>3. \A k \in Between(<<i, j>>) : ~Is(p, k, "down")
    BY <1>4, <2>2
  <2> QED BY <1>2, <2>1, <2>3 DEF HistoryInv, Clicks
<1> QED BY <1>5, <1>7, <1>8, <1>9 DEF HistoryInv

\* A reading continues the history of a mapped port.
LEMMA ReadingStep ==
  ASSUME TypeInv, TypeInv', now < now', read_at' = now', NEW new \in [Ports -> Readings],
         NEW p \in Ports, UpdateInner(new), p \in mapped, Adds(p, new), HistoryInv(p)
  PROVE  HistoryInv(p)'
<1> DEFINE n == Len(events[p])
<1>1. events[p] \in Seq(Results \cup ButtonEvents) /\ n \in Nat
  BY DEF TypeInv, TypeOK
<1>2. /\ Past(p) = 1 .. n /\ Past(p)' = 1 .. n \cup New(p)
      /\ Len(events'[p]) \in Nat /\ n <= Len(events'[p]) /\ New(p) = n + 1 .. Len(events'[p])
  BY <1>1 DEF Past, New, Adds
<1>3. \A k \in 1 .. n : /\ events'[p][k] = events[p][k]
                        /\ IsError(p, k)' <=> IsError(p, k)
                        /\ \A b : Is(p, k, b)' <=> Is(p, k, b)
  BY DEF Adds, Is, IsError
<1>4. \A i \in Past(p)' : Since(p, i)' = i + 1 .. Len(events'[p]) /\ Since(p, i) = i + 1 .. n
  BY DEF Since
<1>5. /\ device_values'[p] = new[p] /\ On # Off
      /\ down'[p] = IF GoesDown(p, new) THEN now' ELSE down[p]
      /\ down_secs'[p] = IF GoesDown(p, new) THEN 0
                         ELSE IF StaysDown(p, new) THEN DownFor(p) \div Second ELSE down_secs[p]
  BY ButtonAssumption DEF UpdateInner
<1>6. /\ GoesDown(p, new) => new[p] = On /\ device_values[p] # On
      /\ GoesUp(p, new) => new[p] = Off /\ device_values[p] = On
      /\ device_values[p] = On /\ ~GoesUp(p, new) => new[p] = On
      /\ device_values[p] = Off /\ ~GoesDown(p, new) => new[p] = Off
      /\ StaysDown(p, new) => device_values[p] = On
  BY ButtonAssumption DEF GoesDown, GoesUp, StaysDown, Known
<1>7. /\ \A k \in New(p) :
           /\ ~IsError(p, k)'
           /\ Is(p, k, "down")' <=> k = n + 1 /\ GoesDown(p, new)
           /\ Is(p, k, "up")' <=> k = n + 1 /\ GoesUp(p, new)
           /\ Is(p, k, "clicked")' <=> k = n + 2 /\ GoesUp(p, new)
           /\ Is(p, k, "long")' <=> k = n + 1 /\ StaysDown(p, new)
      /\ GoesDown(p, new) => n + 1 \in New(p) /\ events'[p][n + 1].at = now'
      /\ GoesUp(p, new) =>
           /\ n + 1 \in New(p) /\ n + 2 \in New(p)
           /\ events'[p][n + 2].at = now' /\ events'[p][n + 2].span = DownFor(p)
      /\ StaysDown(p, new) => n + 1 \in New(p) /\ events'[p][n + 1].span = DownFor(p) \div Second
  BY DEF Adds
<1> HIDE DEF n
<1>8. Edges(p)'
  <2> SUFFICES ASSUME NEW i \in Past(p)', NEW j \in Past(p)', i < j
               PROVE  /\ Is(p, i, "down")' /\ Is(p, j, "down")' =>
                           \E k \in Between(<<i, j>>) : Is(p, k, "up")' \/ IsError(p, k)'
                      /\ Is(p, i, "up")' /\ Is(p, j, "up")' =>
                           \E k \in Between(<<i, j>>) : Is(p, k, "down")' \/ IsError(p, k)'
    BY DEF Edges, Between
  <2>1. CASE j \in 1 .. n
    <3>1. i \in 1 .. n /\ Between(<<i, j>>) \subseteq 1 .. n
      BY <1>1, <1>2, <2>1 DEF Between
    <3> QED BY <1>2, <1>3, <2>1, <3>1 DEF HistoryInv, Edges
  <2>2. CASE j \in New(p)
    <3>1. \/ ~Is(p, j, "down")' /\ ~Is(p, j, "up")'
          \/ /\ j = n + 1 /\ i \in 1 .. n
             /\ Between(<<i, j>>) = Since(p, i)
             /\ \A k \in Between(<<i, j>>) : k \in 1 .. n
      <4>1. (~Is(p, j, "down")' /\ ~Is(p, j, "up")') \/ j = n + 1
        BY <1>7, <2>2, Zenon
      <4>2. CASE j = n + 1
        <5>1. i \in 1 .. n
          BY <1>1, <1>2, <4>2
        <5>2. Between(<<i, j>>) = i + 1 .. n
          BY <1>1, <4>2, <5>1 DEF Between
        <5>3. \A k \in i + 1 .. n : k \in 1 .. n
          BY <1>1, <5>1
        <5> QED BY <1>4, <4>2, <5>1, <5>2, <5>3, Zenon
      <4> QED BY <4>1, <4>2, Zenon
    <3>2. CASE j = n + 1 /\ i \in 1 .. n
      <4>1. CASE GoesDown(p, new)
        <5>1. device_values[p] # On /\ ~Is(p, j, "up")'
          BY <1>6, <1>7, <1>5, <2>2, <4>1
        <5> QED BY <1>2, <1>3, <3>1, <3>2, <5>1 DEF HistoryInv, Levels, Between
      <4>2. CASE GoesUp(p, new)
        <5>1. device_values[p] # Off /\ ~Is(p, j, "down")'
          BY <1>6, <1>7, <1>5, <2>2, <4>2
        <5> QED BY <1>2, <1>3, <3>1, <3>2, <5>1 DEF HistoryInv, Levels, Between
      <4>3. CASE ~GoesDown(p, new) /\ ~GoesUp(p, new)
        BY <1>7, <2>2, <4>3
      <4> QED BY <4>1, <4>2, <4>3
    <3> QED BY <3>1, <3>2
  <2> QED BY <1>2, <2>1, <2>2
<1>9. Levels(p)'
  <2> SUFFICES ASSUME NEW i \in Past(p)'
               PROVE  /\ Is(p, i, "down")' /\ (\A k \in Since(p, i)' : ~Is(p, k, "up")' /\ ~IsError(p, k)')
                           => device_values'[p] = On
                      /\ Is(p, i, "up")' /\ (\A k \in Since(p, i)' : ~Is(p, k, "down")' /\ ~IsError(p, k)')
                           => device_values'[p] = Off
    BY DEF Levels
  <2>1. CASE i \in New(p)
    BY <1>5, <1>6, <1>7, <2>1
  <2>2. CASE i \in 1 .. n
    <3>1. Since(p, i) \subseteq 1 .. n /\ Since(p, i)' = Since(p, i) \cup New(p)
      BY <1>1, <1>2, <1>4, <2>2, SMTT(30)
    <3> QED BY <1>2, <1>3, <1>5, <1>6, <1>7, <2>2, <3>1 DEF HistoryInv, Levels
  <2> QED BY <1>2, <2>1, <2>2
<1>10. LatestDown(p)'
  <2> SUFFICES ASSUME NEW i \in Past(p)', Is(p, i, "down")',
                      \A k \in Since(p, i)' : ~Is(p, k, "down")'
               PROVE  events'[p][i].at = down'[p]
    BY DEF LatestDown
  <2>1. CASE i \in New(p)
    BY <1>5, <1>7, <2>1
  <2>2. CASE i \in 1 .. n
    <3>1. Since(p, i) \subseteq 1 .. n /\ Since(p, i)' = Since(p, i) \cup New(p)
      BY <1>1, <1>2, <1>4, <2>2
    <3> QED BY <1>2, <1>3, <1>5, <1>7, <2>2, <3>1 DEF HistoryInv, LatestDown
  <2> QED BY <1>2, <2>1, <2>2
<1>11. Clicks(p)'
  <2> SUFFICES ASSUME NEW i \in Past(p)', NEW j \in Past(p)', i < j,
                      Is(p, i, "down")', Is(p, j, "clicked")',
                      \A k \in Between(<<i, j>>) : ~Is(p, k, "down")'
               PROVE  events'[p][j].span = events'[p][j].at - events'[p][i].at
    BY DEF Clicks, Between
  <2>1. CASE j \in 1 .. n
    <3>1. i \in 1 .. n /\ Between(<<i, j>>) \subseteq 1 .. n
      BY <1>1, <1>2, <2>1 DEF Between
    <3> QED BY <1>2, <1>3, <2>1, <3>1 DEF HistoryInv, Clicks
  <2>2. CASE j \in New(p)
    <3>1. j = n + 2 /\ GoesUp(p, new) /\ ~GoesDown(p, new)
      BY <1>5, <1>6, <1>7, <2>2
    <3>2. i \in 1 .. n
      BY <1>1, <1>2, <1>7, <3>1
    <3>3. Since(p, i) \subseteq Between(<<i, j>>) /\ Since(p, i) \subseteq 1 .. n
      BY <1>1, <1>2, <1>4, <3>1, <3>2 DEF Between
    <3>4. events[p][i].at = down[p]
      BY <1>2, <1>3, <3>2, <3>3 DEF HistoryInv, LatestDown
    <3> QED BY <1>3, <1>7, <3>1, <3>2, <3>4 DEF DownFor
  <2> QED BY <1>2, <2>1, <2>2
<1>12. Held(p)'
  <2> DEFINE Tells(i) ==
        /\ events'[p][i].at = down'[p]
        /\ down_secs'[p] = (read_at' - down'[p]) \div Second
        /\ \/ down_secs'[p] = 0 /\ \A k \in Since(p, i)' : ~Is(p, k, "long")'
           \/ \E k \in Since(p, i)' : /\ Is(p, k, "long")' /\ events'[p][k].span = down_secs'[p]
                                      /\ \A l \in Since(p, i)' : Is(p, l, "long")' => l <= k
  <2> SUFFICES ASSUME NEW i \in Past(p)', Is(p, i, "down")',
                      \A k \in Since(p, i)' : ~Is(p, k, "up")' /\ ~IsError(p, k)'
               PROVE  Tells(i)
    BY DEF Held
  <2>1. CASE i \in New(p)
    <3>1. i = n + 1 /\ GoesDown(p, new) /\ ~StaysDown(p, new)
      BY <1>6, <1>7, <2>1
    <3>2. down'[p] = now' /\ down_secs'[p] = 0 /\ now' - now' = 0
      <4>1. now' \in Nat
        BY DEF TypeInv, TypeOK
      <4>2. \A t \in Nat : t - t = 0
        OBVIOUS
      <4> QED BY <1>5, <3>1, <4>1, <4>2, Zenon
    <3>3. (read_at' - down'[p]) \div Second = 0
      <4>1. 0 \div Second \in 0 .. 0
        BY Quotients, ButtonAssumption
      <4> QED BY <3>2, <4>1
    <3>4. \A k \in Since(p, i)' : ~Is(p, k, "long")'
      <4>1. \A k \in Since(p, i)' : k \in New(p)
        BY <1>1, <1>2, <1>4, <3>1
      <4> QED BY <1>7, <3>1, <4>1
    <3> QED BY <1>7, <3>1, <3>2, <3>3, <3>4
  <2>2. CASE i \in 1 .. n
    <3>1. Since(p, i) \subseteq 1 .. n /\ Since(p, i)' = Since(p, i) \cup New(p)
      BY <1>1, <1>2, <1>4, <2>2
    <3>2. /\ Is(p, i, "down")
          /\ \A k \in Since(p, i) : ~Is(p, k, "up") /\ ~IsError(p, k)
      BY <1>3, <2>2, <3>1
    <3>3. device_values[p] = On /\ i \in Past(p)
      BY <1>2, <2>2, <3>2 DEF HistoryInv, Levels
    <3>4. /\ events[p][i].at = down[p]
          /\ down_secs[p] = (read_at - down[p]) \div Second
          /\ \/ down_secs[p] = 0 /\ \A k \in Since(p, i) : ~Is(p, k, "long")
             \/ \E k \in Since(p, i) : /\ Is(p, k, "long") /\ events[p][k].span = down_secs[p]
                                       /\ \A l \in Since(p, i) : Is(p, l, "long") => l <= k
      BY <3>2, <3>3 DEF HistoryInv, Held
    <3>5. ~GoesDown(p, new) /\ ~GoesUp(p, new) /\ new[p] = On /\ down'[p] = down[p]
      <4>1. ~GoesDown(p, new)
        BY <1>6, <3>3
      <4>2. ~GoesUp(p, new)
        BY <1>2, <1>7, <3>1
      <4> QED BY <1>5, <1>6, <3>3, <4>1, <4>2
    <3>6. DownFor(p) = read_at' - down'[p]
      BY <3>5 DEF DownFor
    <3>7. CASE StaysDown(p, new)
      <4>1. down_secs'[p] = DownFor(p) \div Second
        BY <1>5, <3>5, <3>7
      <4>2. PICK k \in New(p) : k = n + 1
        BY <1>7, <3>7
      <4>3. k \in Since(p, i)' /\ Is(p, k, "long")' /\ events'[p][k].span = down_secs'[p]
        BY <1>7, <3>1, <3>7, <4>1, <4>2
      <4>4. \A l \in Since(p, i)' : Is(p, l, "long")' => l <= k
        <5> SUFFICES ASSUME NEW l \in Since(p, i)', Is(p, l, "long")'
                     PROVE  l <= k
          OBVIOUS
        <5>1. CASE l \in New(p)
          <6>1. l = k
            BY <1>7, <4>2, <5>1, Zenon
          <6> QED BY <1>1, <4>2, <6>1
        <5>2. CASE l \in 1 .. n
          BY <1>1, <4>2, <5>2
        <5> QED BY <3>1, <5>1, <5>2
      <4>5. events'[p][i].at = down'[p]
        BY <1>3, <2>2, <3>4, <3>5
      <4> QED BY <3>6, <4>1, <4>3, <4>4, <4>5
    <3>8. CASE ~StaysDown(p, new)
      <4>1. down_secs'[p] = down_secs[p]
        BY <1>5, <3>5, <3>8
      <4>2. DownFor(p) \div Second = down_secs[p]
        <5>1. /\ read_at - down[p] \in Nat /\ DownFor(p) \in Nat /\ read_at - down[p] <= DownFor(p)
          <6>1. /\ down[p] \in Nat /\ read_at \in Nat /\ now \in Nat /\ now' \in Nat
                /\ down[p] <= read_at /\ read_at <= now
            BY DEF TypeInv, TypeOK
          <6> QED BY <6>1 DEF DownFor
        <5>2. down_secs[p] <= DownFor(p) \div Second
          BY <3>4, <5>1, Quotients, ButtonAssumption
        <5>3. ~(DownFor(p) \div Second > down_secs[p])
          BY <3>3, <3>5, <3>8, ButtonAssumption DEF StaysDown, Known
        <5>4. DownFor(p) \div Second \in Nat /\ down_secs[p] \in Nat
          BY <5>1, Quotients, ButtonAssumption, SMTT(30) DEF TypeInv, TypeOK
        <5> QED BY <5>2, <5>3, <5>4
      <4>3. \A k \in New(p) : ~Is(p, k, "long")'
        BY <1>7, <3>8
      <4>4. \A k \in Since(p, i) : events'[p][k] = events[p][k] /\ (Is(p, k, "long")' <=> Is(p, k, "long"))
        BY <1>3, <3>1
      <4> QED BY <1>3, <2>2, <3>1, <3>4, <3>5, <3>6, <4>1, <4>2, <4>3, <4>4
    <3> QED BY <3>7, <3>8
  <2> QED BY <1>2, <2>1, <2>2
<1> QED BY <1>8, <1>9, <1>10, <1>11, <1>12 DEF HistoryInv

\* HistoryInv is inductive, for each port.
LEMMA HistoryStep ==
  ASSUME TypeInv, TypeInv', [Next]_vars, NEW p \in Ports, HistoryInv(p)
  PROVE  HistoryInv(p)'
<1>1. ASSUME NEW q \in Configured, GetInputPort(q)
      PROVE  HistoryInv(p)'
  <2>1. \/ events'[p] = <<>>
        \/ UNCHANGED <<events[p], device_values[p], down[p], down_secs[p], read_at>>
    BY <1>1 DEF GetInputPort, SetUpEvents, deviceVars, TypeInv, TypeOK
  <2> QED BY <2>1, QuietStep
<1>2. CASE ReadPins
  <2>1. PICK new \in [Ports -> Readings] : UpdateInner(new)
    BY <1>2 DEF ReadPins
  <2>2. Tick /\ now < now' /\ read_at' = now'
    BY <1>2, TickType DEF ReadPins
  <2>3. CASE p \in mapped
    <3>1. Adds(p, new)
      BY <2>1, <2>2, <2>3, ReadingAdds
    <3> QED BY <2>1, <2>2, <2>3, <3>1, ReadingStep
  <2>4. CASE p \notin mapped
    <3>1. events'[p] = <<>>
      BY <2>1, <2>4 DEF UpdateInner, TypeInv
    <3> QED BY <3>1, QuietStep
  <2> QED BY <2>3, <2>4
<1>3. CASE BusError
  <2>1. UNCHANGED <<down, down_secs, read_at>>
    BY <1>3 DEF BusError
  <2>2. CASE UNCHANGED readCoreVars
    <3>1. UNCHANGED <<events[p], device_values[p], down[p], down_secs[p], read_at>>
      BY <2>1, <2>2 DEF readCoreVars
    <3> QED BY <3>1, QuietStep
  <2>3. CASE UpdateValues([q \in Ports |-> Err], TRUE, FALSE)
    <3>1. CASE p \in mapped
      <4>1. events'[p] = Append(events[p], Err) /\ down'[p] = down[p]
        BY <2>1, <2>3, <3>1 DEF UpdateValues, GeneratesEvent
      <4> QED BY <4>1, ErrorStep
    <3>2. CASE p \notin mapped
      <4>1. events'[p] = <<>>
        BY <2>3, <3>2 DEF UpdateValues, TypeInv
      <4> QED BY <4>1, QuietStep
    <3> QED BY <3>1, <3>2
  <2> QED BY <1>3, <2>2, <2>3 DEF BusError
<1>4. CASE IgnoreReading \/ WatchdogReset \/ ClearWatchdog \/ UNCHANGED vars
  <2>1. UNCHANGED <<events[p], device_values[p], down[p], down_secs[p], read_at>>
    BY <1>4 DEF IgnoreReading, WatchdogReset, ClearWatchdog, vars, deviceVars, readCoreVars
  <2> QED BY <2>1, QuietStep
<1> QED BY <1>1, <1>2, <1>3, <1>4 DEF Next

\* HistoryInv holds for every port.
LEMMA HistoryHolds == Spec => [](\A p \in Ports : HistoryInv(p))
<1> DEFINE H == \A p \in Ports : HistoryInv(p)
<1>1. Init => H
  <2> SUFFICES ASSUME Init, NEW p \in Ports
               PROVE  HistoryInv(p)
    OBVIOUS
  <2>1. Past(p) = {}
    BY DEF Init, ReadCoreInit, Past
  <2> QED BY <2>1 DEF HistoryInv, Edges, Levels, LatestDown, Clicks, Held
<1>2. TypeInv /\ TypeInv' /\ H /\ [Next]_vars => H'
  BY HistoryStep
<1> HIDE DEF H
<1>3. Spec => []H
  BY <1>1, <1>2, TypeInvHolds, PTL DEF Spec
<1> QED BY <1>3 DEF H

\* Downs and Ups of a port alternate, up to errors: no edge of a button is lost or told
\* twice, whatever readings update_inner never saw.
THEOREM EdgesSeparated == Spec => []EdgesAreSeparated
<1>1. (\A p \in Ports : HistoryInv(p)) => EdgesAreSeparated
  <2> SUFFICES ASSUME NEW p \in Ports, Edges(p)
               PROVE  /\ \A ij \in Before(p, "down", "down") :
                           \E k \in Between(ij) : Is(p, k, "up") \/ IsError(p, k)
                      /\ \A ij \in Before(p, "up", "up") :
                           \E k \in Between(ij) : Is(p, k, "down") \/ IsError(p, k)
    BY DEF HistoryInv, EdgesAreSeparated
  <2>1. ASSUME NEW ij \in (1 .. Len(events[p])) \X (1 .. Len(events[p]))
        PROVE  /\ ij[1] \in Past(p) /\ ij[2] \in Past(p)
               /\ Between(<<ij[1], ij[2]>>) = Between(ij)
    BY <2>1 DEF Past, Between
  <2> QED BY <2>1 DEF Before, Edges
<1> QED BY <1>1, HistoryHolds, PTL

\* Every Clicked carries the time from its Down to its Up.
THEOREM ClicksTellPresses == Spec => []ClickedTellsPress
<1>1. (\A p \in Ports : HistoryInv(p)) => ClickedTellsPress
  <2> SUFFICES ASSUME NEW p \in Ports, Clicks(p), NEW ij \in Before(p, "down", "clicked"),
                      \A k \in Between(ij) : ~Is(p, k, "down") /\ ~IsError(p, k)
               PROVE  events[p][ij[2]].span = events[p][ij[2]].at - events[p][ij[1]].at
    BY DEF HistoryInv, ClickedTellsPress
  <2>1. /\ ij[1] \in Past(p) /\ ij[2] \in Past(p) /\ ij[1] < ij[2]
        /\ Is(p, ij[1], "down") /\ Is(p, ij[2], "clicked")
        /\ Between(<<ij[1], ij[2]>>) = Between(ij)
    BY DEF Before, Past, Between
  <2> QED BY <2>1 DEF Clicks
<1> QED BY <1>1, HistoryHolds, PTL

\* A button that is held has been announced for as many whole seconds as it was at the
\* last reading used, whatever the delays between readings.
THEOREM HeldAnnounced == Spec => []HeldIsAnnounced
<1>1. (\A p \in Ports : HistoryInv(p)) => HeldIsAnnounced
  <2> DEFINE later(p, i) == i + 1 .. Len(events[p])
             longs(p, i) == {k \in later(p, i) : Is(p, k, "long")}
             held(p, i)  == (read_at - events[p][i].at) \div Second
  <2>1. ASSUME NEW p \in Ports, Held(p), NEW i \in 1 .. Len(events[p]), Is(p, i, "down"),
               \A k \in later(p, i) : ~Is(p, k, "up") /\ ~IsError(p, k)
        PROVE  IF longs(p, i) = {} THEN held(p, i) = 0
               ELSE \E k \in longs(p, i) :
                      events[p][k].span = held(p, i) /\ \A m \in longs(p, i) : m <= k
    <3>1. /\ held(p, i) = down_secs[p]
          /\ \/ down_secs[p] = 0 /\ \A k \in later(p, i) : ~Is(p, k, "long")
             \/ \E k \in later(p, i) :
                  /\ Is(p, k, "long") /\ events[p][k].span = down_secs[p]
                  /\ \A l \in later(p, i) : Is(p, l, "long") => l <= k
      BY <2>1 DEF Held, Past, Since
    <3> HIDE DEF later, held
    <3> QED BY <3>1, Zenon
  <2> QED BY <2>1, Zenon DEF HistoryInv, HeldIsAnnounced
<1> QED BY <1>1, HistoryHolds, PTL

-----------------------------------------------------------------------------
(***************************************************************************)
(* The frames of the expander, for every content of its registers.         *)
(***************************************************************************)
\* A byte whose bit k is forced to a level.
SetBit(b, k, level) == b + (level - Bit(b, k)) * 2^k

\* What the board rotates left, the decoder rotates back.
LEMMA RotateBack ==
  ASSUME NEW b \in Byte, NEW n \in {0, 3, 6}
  PROVE  RotateLeft(b, n) \in Byte /\ RotateRight(RotateLeft(b, n), n) = b
<1>1. CASE n = 0
  BY <1>1 DEF RotateLeft, RotateRight, Byte
<1>2. CASE n = 3
  BY <1>2 DEF RotateLeft, RotateRight, Byte
<1>3. CASE n = 6
  BY <1>3 DEF RotateLeft, RotateRight, Byte
<1> QED BY <1>1, <1>2, <1>3

\* A byte that is rotated is a byte.
LEMMA Rotate3Type == \A b \in Byte : RotateLeft(b, 3) \in Byte
BY DEF RotateLeft, Byte

\* Rotated bytes differ if the bytes do.
LEMMA Rotate3Injective == \A x, y \in Byte : RotateLeft(x, 3) = RotateLeft(y, 3) => x = y
BY DEF RotateLeft, Byte

\* The checksum is a byte.
LEMMA ChecksumType ==
  ASSUME NEW b1 \in Byte, NEW b2 \in Byte
  PROVE  ComputeChecksum(b1, b2) \in Byte
<1>1. \A x, y \in Byte : (x + y) % 256 \in Byte
  BY DEF Byte
<1> QED BY <1>1, Rotate3Type DEF ComputeChecksum

\* A bit that is set stays as it is, or makes the byte greater or less by its weight.
Changed(b, w, l) == {b, IF l = 1 THEN b + w ELSE b - w}

\* Forcing a bit is such a change.
LEMMA SetBitChanges ==
  ASSUME NEW b \in Byte, NEW k \in 0 .. 7, NEW l \in 0 .. 1
  PROVE  SetBit(b, k, l) \in Changed(b, 2^k, l)
<1>1. Bit(b, k) \in 0 .. 1
  BY DEF Bit, Byte
<1> QED BY <1>1 DEF SetBit, Changed, Byte

\* A bit that is forced before the rotation is one forced after it, three places further.
LEMMA Rotate3SetBit ==
  ASSUME NEW b \in Byte, NEW k \in 0 .. 7, NEW l \in 0 .. 1
  PROVE  RotateLeft(SetBit(b, k, l), 3) = SetBit(RotateLeft(b, 3), (k + 3) % 8, l)
<1> USE DEF SetBit, Bit, Byte, RotateLeft
<1>0. CASE k = 0 BY <1>0
<1>1. CASE k = 1 BY <1>1
<1>2. CASE k = 2 BY <1>2
<1>3. CASE k = 3 BY <1>3
<1>4. CASE k = 4 BY <1>4
<1>5. CASE k = 5 BY <1>5
<1>6. CASE k = 6 BY <1>6
<1>7. CASE k = 7 BY <1>7
<1> QED BY <1>0, <1>1, <1>2, <1>3, <1>4, <1>5, <1>6, <1>7

\* If the parts of the sum and the sum itself change by their bits, nothing does: a bit of
\* the sum moves five places, a bit of one part none and of the other three.
LEMMA SumsDiffer ==
  ASSUME NEW x \in Byte, NEW y \in Byte, NEW k \in 0 .. 7, NEW l \in 0 .. 1,
         NEW u \in Changed(x, 2^k, l), NEW v \in Changed(y, 2^((k + 3) % 8), l),
         (u + v) % 256 \in Changed((x + y) % 256, 2^((k + 5) % 8), l)
  PROVE  u = x /\ v = y
<1> USE DEF Changed, Byte
<1>0. CASE k = 0 BY <1>0
<1>1. CASE k = 1 BY <1>1
<1>2. CASE k = 2 BY <1>2
<1>3. CASE k = 3 BY <1>3
<1>4. CASE k = 4 BY <1>4
<1>5. CASE k = 5 BY <1>5
<1>6. CASE k = 6 BY <1>6
<1>7. CASE k = 7 BY <1>7
<1> QED BY <1>0, <1>1, <1>2, <1>3, <1>4, <1>5, <1>6, <1>7

\* A byte with a bit forced is a byte.
LEMMA ByteSetBit ==
  ASSUME NEW b \in Byte, NEW k \in 0 .. 7, NEW l \in 0 .. 1
  PROVE  SetBit(b, k, l) \in Byte
<1> USE DEF SetBit, Bit, Byte
<1>0. CASE k = 0 BY <1>0
<1>1. CASE k = 1 BY <1>1
<1>2. CASE k = 2 BY <1>2
<1>3. CASE k = 3 BY <1>3
<1>4. CASE k = 4 BY <1>4
<1>5. CASE k = 5 BY <1>5
<1>6. CASE k = 6 BY <1>6
<1>7. CASE k = 7 BY <1>7
<1> QED BY <1>0, <1>1, <1>2, <1>3, <1>4, <1>5, <1>6, <1>7

\* The same, for all at once.
LEMMA SetBitType == \A b \in Byte, k \in 0 .. 7, l \in 0 .. 1 : SetBit(b, k, l) \in Byte
BY ByteSetBit

\* If bit k of both registers and of the checksum is set and the checksum still matches, nothing changed.
LEMMA NoFalseMatch ==
  ASSUME NEW b1 \in Byte, NEW b2 \in Byte, NEW k \in 0 .. 7, NEW l \in 0 .. 1,
         SetBit(ComputeChecksum(b1, b2), k, l) = ComputeChecksum(SetBit(b1, k, l), SetBit(b2, k, l))
  PROVE  SetBit(b1, k, l) = b1 /\ SetBit(b2, k, l) = b2
<1> DEFINE r == RotateLeft(b2, 3)
           r2 == SetBit(r, (k + 3) % 8, l)
           s == (b1 + r) % 256
           s2 == (SetBit(b1, k, l) + r2) % 256
           j == (k + 5) % 8
<1>1. /\ j \in 0 .. 7 /\ (k + 3) % 8 \in 0 .. 7 /\ (j + 3) % 8 = k
  OBVIOUS
<1>2. r \in Byte /\ r2 \in Byte /\ SetBit(b1, k, l) \in Byte /\ SetBit(b2, k, l) \in Byte
  BY <1>1, Rotate3Type, SetBitType
<1>3. \A x, y \in Byte : (x + y) % 256 \in Byte
  BY DEF Byte
<1>4. s \in Byte /\ s2 \in Byte
  BY <1>2, <1>3
<1>5. r2 = RotateLeft(SetBit(b2, k, l), 3)
  BY Rotate3SetBit
<1>6. RotateLeft(SetBit(s, j, l), 3) = RotateLeft(s2, 3)
  <2>1. RotateLeft(SetBit(s, j, l), 3) = SetBit(RotateLeft(s, 3), (j + 3) % 8, l)
    <3>1. \A b \in Byte, i \in 0 .. 7 : RotateLeft(SetBit(b, i, l), 3) = SetBit(RotateLeft(b, 3), (i + 3) % 8, l)
      BY Rotate3SetBit
    <3> HIDE DEF s, j
    <3> QED BY <1>1, <1>4, <3>1, Zenon
  <2>2. RotateLeft(s, 3) = ComputeChecksum(b1, b2)
    BY DEF ComputeChecksum
  <2>3. RotateLeft(s2, 3) = ComputeChecksum(SetBit(b1, k, l), SetBit(b2, k, l))
    BY <1>5 DEF ComputeChecksum
  <2> HIDE DEF s, s2, j
  <2> QED BY <2>1, <2>2, <2>3, <1>1
<1>7. SetBit(s, j, l) = s2
  <2>1. SetBit(s, j, l) \in Byte
    BY <1>1, <1>4, SetBitType
  <2> QED BY <1>4, <1>6, <2>1, Rotate3Injective
<1>8. /\ SetBit(b1, k, l) \in Changed(b1, 2^k, l)
      /\ r2 \in Changed(r, 2^((k + 3) % 8), l)
      /\ s2 \in Changed(s, 2^j, l)
  <2>1. \A b \in Byte, i \in 0 .. 7 : SetBit(b, i, l) \in Changed(b, 2^i, l)
    BY SetBitChanges
  <2> HIDE DEF r, s, s2, j
  <2> QED BY <1>1, <1>2, <1>4, <1>7, <2>1, Zenon
<1>9. SetBit(b1, k, l) = b1 /\ r2 = r
  BY <1>2, <1>8, SumsDiffer
<1>10. SetBit(b2, k, l) = b2
  BY <1>2, <1>5, <1>9, Rotate3Injective
<1> QED BY <1>9, <1>10

\* Six places are twice three.
LEMMA RotateTwice == \A b \in Byte : RotateLeft(b, 0) = b /\ RotateLeft(b, 6) = RotateLeft(RotateLeft(b, 3), 3)
BY DEF RotateLeft, Byte

\* A bit forced on the bus is a bit of the decoded byte, which one depends on the rotation.
LEMMA RotateSetBit ==
  ASSUME NEW b \in Byte, NEW n \in {0, 3, 6}, NEW k \in 0 .. 7, NEW l \in 0 .. 1
  PROVE  RotateRight(SetBit(RotateLeft(b, n), k, l), n) = SetBit(b, (k + 8 - n) % 8, l)
<1> DEFINE j == (k + 8 - n) % 8
<1>1. j \in 0 .. 7 /\ (j + n) % 8 = k
  OBVIOUS
<1>2. SetBit(b, j, l) \in Byte
  BY <1>1, SetBitType
<1>3. RotateLeft(SetBit(b, j, l), n) = SetBit(RotateLeft(b, n), k, l)
  <2>1. CASE n = 0
    BY <1>1, <1>2, <2>1, RotateTwice
  <2>2. CASE n = 3
    BY <1>1, <2>2, Rotate3SetBit
  <2>3. CASE n = 6
    <3>1. (j + 3) % 8 \in 0 .. 7 /\ (((j + 3) % 8) + 3) % 8 = k
      BY <1>1, <2>3
    <3>2. RotateLeft(SetBit(b, j, l), 3) = SetBit(RotateLeft(b, 3), (j + 3) % 8, l)
      BY <1>1, Rotate3SetBit
    <3>3. RotateLeft(SetBit(RotateLeft(b, 3), (j + 3) % 8, l), 3) = SetBit(RotateLeft(RotateLeft(b, 3), 3), k, l)
      BY <3>1, Rotate3Type, Rotate3SetBit
    <3> QED BY <1>2, <2>3, <3>2, <3>3, RotateTwice
  <2> QED BY <2>1, <2>2, <2>3
<1> QED BY <1>2, <1>3, RotateBack

\* The three bytes of a transmission, before they are rotated.
Payload(b1, b2) == <<b1, b2, ComputeChecksum(b1, b2)>>

\* All three are bytes.
LEMMA PayloadType ==
  ASSUME NEW b1 \in Byte, NEW b2 \in Byte, NEW i \in 1 .. 3
  PROVE  Payload(b1, b2)[i] \in Byte
BY ChecksumType DEF Payload

\* Where the bytes of a transmission are.
LEMMA SentBytes ==
  ASSUME NEW b1, NEW b2, NEW t \in 1 .. 3, NEW i \in 1 .. 3
  PROVE  /\ 3 * (t - 1) + i \in 1 .. 9
         /\ (3 * (t - 1) + i - 1) \div 3 = t - 1
         /\ Sent(b1, b2)[3 * (t - 1) + i] = RotateLeft(Payload(b1, b2)[i], Shift[t])
         /\ Shift[t] \in {0, 3, 6}
<1>1. /\ 3 * (t - 1) + i \in 1 .. 9 /\ Shift[t] \in {0, 3, 6}
      /\ ((3 * (t - 1) + i - 1) % 3) + 1 = i /\ ((3 * (t - 1) + i - 1) \div 3) + 1 = t
  BY DEF Shift
<1> QED BY <1>1 DEF Sent, Payload

\* The decoder recovers what was sent.
LEMMA SentTransmission ==
  ASSUME NEW b1 \in Byte, NEW b2 \in Byte, NEW t \in 1 .. 3, NEW i \in 1 .. 3
  PROVE  Transmission(Sent(b1, b2), t)[i] = Payload(b1, b2)[i]
BY SentBytes, PayloadType, RotateBack DEF Transmission

\* With a stuck line it gets the same bit forced in all three bytes.
LEMMA StuckTransmission ==
  ASSUME NEW b1 \in Byte, NEW b2 \in Byte, NEW t \in 1 .. 3, NEW i \in 1 .. 3,
         NEW k \in 0 .. 7, NEW l \in 0 .. 1
  PROVE  Transmission(Stuck(Sent(b1, b2), k, l), t)[i]
           = SetBit(Payload(b1, b2)[i], (k + 8 - Shift[t]) % 8, l)
<1> DEFINE at == 3 * (t - 1) + i
<1>1. Stuck(Sent(b1, b2), k, l)[at] = SetBit(RotateLeft(Payload(b1, b2)[i], Shift[t]), k, l)
  BY SentBytes DEF Stuck, SetBit
<1>2. Transmission(Stuck(Sent(b1, b2), k, l), t)[i] = RotateRight(Stuck(Sent(b1, b2), k, l)[at], Shift[t])
  BY DEF Transmission
<1> QED BY <1>1, <1>2, SentBytes, PayloadType, RotateSetBit

\* What the decoder returns for values of which some transmissions match, all of them with
\* the same registers.
LEMMA Decoded ==
  ASSUME NEW values, NEW b1, NEW b2,
         \A t \in 1 .. 3 : Matches(Transmission(values, t)) =>
            Transmission(values, t)[1] = b1 /\ Transmission(values, t)[2] = b2
  PROVE  TryDecodeTransmissions(values)
           = IF \E t \in 1 .. 3 : Matches(Transmission(values, t))
             THEN PortValues(ReorderPinPositions(b1, b2)) ELSE ChecksumError
<1> DEFINE good == {t \in 1 .. 3 : Matches(Transmission(values, t))}
           first == CHOOSE t \in good : \A u \in good : t <= u
<1>1. CASE good = {}
  BY <1>1 DEF TryDecodeTransmissions
<1>2. CASE good # {}
  <2>1. \E t \in good : \A u \in good : t <= u
    <3>1. CASE 1 \in good
      BY <3>1
    <3>2. CASE 1 \notin good /\ 2 \in good
      BY <3>2
    <3>3. CASE 1 \notin good /\ 2 \notin good
      <4>1. good = {3}
        BY <1>2, <3>3
      <4> QED BY <4>1
    <3> QED BY <3>1, <3>2, <3>3
  <2>2. first \in good
    BY <2>1
  <2>3. TryDecodeTransmissions(values)
          = PortValues(ReorderPinPositions(Transmission(values, first)[1], Transmission(values, first)[2]))
    BY <1>2 DEF TryDecodeTransmissions
  <2> QED BY <1>2, <2>2, <2>3
<1> QED BY <1>1, <1>2

\* What was sent is decoded, from the first transmission.
LEMMA SentDecodes ==
  ASSUME NEW b1 \in Byte, NEW b2 \in Byte
  PROVE  TryDecodeTransmissions(Sent(b1, b2)) = PortValues(ReorderPinPositions(b1, b2))
<1>1. \A t \in 1 .. 3 : /\ Transmission(Sent(b1, b2), t)[1] = b1
                       /\ Transmission(Sent(b1, b2), t)[2] = b2
                       /\ Transmission(Sent(b1, b2), t)[3] = ComputeChecksum(b1, b2)
  BY SentTransmission DEF Payload
<1>2. \A t \in 1 .. 3 : Matches(Transmission(Sent(b1, b2), t))
  BY <1>1 DEF Matches
<1> QED BY <1>1, <1>2, Decoded

\* A stuck line is a checksum error or does not show.
LEMMA StuckDecodes ==
  ASSUME NEW b1 \in Byte, NEW b2 \in Byte, NEW k \in 0 .. 7, NEW l \in 0 .. 1
  PROVE  TryDecodeTransmissions(Stuck(Sent(b1, b2), k, l))
           \in {ChecksumError, TryDecodeTransmissions(Sent(b1, b2))}
<1> DEFINE values == Stuck(Sent(b1, b2), k, l)
<1>1. ASSUME NEW t \in 1 .. 3, Matches(Transmission(values, t))
      PROVE  Transmission(values, t)[1] = b1 /\ Transmission(values, t)[2] = b2
  <2> DEFINE j == (k + 8 - Shift[t]) % 8
  <2>1. j \in 0 .. 7
    BY DEF Shift
  <2>2. /\ Transmission(values, t)[1] = SetBit(b1, j, l)
        /\ Transmission(values, t)[2] = SetBit(b2, j, l)
        /\ Transmission(values, t)[3] = SetBit(ComputeChecksum(b1, b2), j, l)
    BY StuckTransmission DEF Payload
  <2>3. SetBit(ComputeChecksum(b1, b2), j, l) = ComputeChecksum(SetBit(b1, j, l), SetBit(b2, j, l))
    BY <1>1, <2>2 DEF Matches
  <2> QED BY <2>1, <2>2, <2>3, NoFalseMatch
<1> HIDE DEF values
<1>2. TryDecodeTransmissions(values) \in {ChecksumError, PortValues(ReorderPinPositions(b1, b2))}
  BY <1>1, Decoded
<1> QED BY <1>2, SentDecodes DEF values

\* A transmission of ones does not match its checksum.
LEMMA OnesNeverMatch ==
  /\ \A n \in {0, 3, 6} : RotateRight(255, n) = 255
  /\ ComputeChecksum(255, 255) # 255
BY DEF RotateRight, RotateLeft, ComputeChecksum

\* Any one transmission is enough.
LEMMA OneDecodes ==
  ASSUME NEW b1 \in Byte, NEW b2 \in Byte, NEW kept \in SUBSET (1 .. 3), kept # {}
  PROVE  TryDecodeTransmissions([i \in 1 .. 9 |-> IF ((i - 1) \div 3) + 1 \in kept
                                                  THEN Sent(b1, b2)[i] ELSE 255])
           = PortValues(ReorderPinPositions(b1, b2))
<1> DEFINE values == [i \in 1 .. 9 |-> IF ((i - 1) \div 3) + 1 \in kept THEN Sent(b1, b2)[i] ELSE 255]
<1>1. \A t \in 1 .. 3, i \in 1 .. 3 :
        values[3 * (t - 1) + i] = IF t \in kept THEN Sent(b1, b2)[3 * (t - 1) + i] ELSE 255
  BY SentBytes
<1>2. ASSUME NEW t \in kept
      PROVE  /\ Transmission(values, t)[1] = b1
             /\ Transmission(values, t)[2] = b2
             /\ Transmission(values, t)[3] = ComputeChecksum(b1, b2)
  <2>1. \A i \in 1 .. 3 : Transmission(values, t)[i] = Transmission(Sent(b1, b2), t)[i]
    BY <1>1 DEF Transmission
  <2> HIDE DEF values
  <2> QED BY <2>1, SentTransmission DEF Payload
<1>3. ASSUME NEW t \in (1 .. 3) \ kept
      PROVE  ~Matches(Transmission(values, t))
  <2>1. \A i \in 1 .. 3 : Transmission(values, t)[i] = RotateRight(255, Shift[t])
    BY <1>1 DEF Transmission
  <2>2. \A i \in 1 .. 3 : Transmission(values, t)[i] = 255
    BY <2>1, SentBytes, OnesNeverMatch
  <2> HIDE DEF values
  <2> QED BY <2>2, OnesNeverMatch DEF Matches
<1> HIDE DEF values
<1>4. TryDecodeTransmissions(values) = PortValues(ReorderPinPositions(b1, b2))
  <2>1. \A t \in kept : Matches(Transmission(values, t))
    BY <1>2 DEF Matches
  <2>2. \A t \in 1 .. 3 : Matches(Transmission(values, t)) =>
            Transmission(values, t)[1] = b1 /\ Transmission(values, t)[2] = b2
    BY <1>2, <1>3
  <2> QED BY <2>1, <2>2, Decoded
<1> QED BY <1>4 DEF values

\* A byte of eight bits that are flipped.
LEMMA FlippedBits ==
  ASSUME NEW x0 \in 0 .. 1, NEW x1 \in 0 .. 1, NEW x2 \in 0 .. 1, NEW x3 \in 0 .. 1,
         NEW x4 \in 0 .. 1, NEW x5 \in 0 .. 1, NEW x6 \in 0 .. 1, NEW x7 \in 0 .. 1,
         NEW b, b = 255 - (x7 * 128 + x6 * 64 + x5 * 32 + x4 * 16 + x3 * 8 + x2 * 4 + x1 * 2 + x0)
  PROVE  /\ b \in Byte
         /\ Bit(b, 0) = 1 - x0 /\ Bit(b, 1) = 1 - x1 /\ Bit(b, 2) = 1 - x2 /\ Bit(b, 3) = 1 - x3
         /\ Bit(b, 4) = 1 - x4 /\ Bit(b, 5) = 1 - x5 /\ Bit(b, 6) = 1 - x6 /\ Bit(b, 7) = 1 - x7
BY DEF Bit, Byte

\* The bits of a word are those of its bytes.
LEMMA WordBits ==
  ASSUME NEW a \in Byte, NEW b \in Byte, NEW p \in 0 .. 15
  PROVE  Bit(a * 256 + b, p) = IF p < 8 THEN Bit(b, p) ELSE Bit(a, p - 8)
<1> USE DEF Bit, Byte
<1>0. CASE p = 0 BY <1>0
<1>1. CASE p = 1 BY <1>1
<1>2. CASE p = 2 BY <1>2
<1>3. CASE p = 3 BY <1>3
<1>4. CASE p = 4 BY <1>4
<1>5. CASE p = 5 BY <1>5
<1>6. CASE p = 6 BY <1>6
<1>7. CASE p = 7 BY <1>7
<1>8. CASE p = 8 BY <1>8
<1>9. CASE p = 9 BY <1>9
<1>10. CASE p = 10 BY <1>10
<1>11. CASE p = 11 BY <1>11
<1>12. CASE p = 12 BY <1>12
<1>13. CASE p = 13 BY <1>13
<1>14. CASE p = 14 BY <1>14
<1>15. CASE p = 15 BY <1>15
<1> QED BY <1>0, <1>1, <1>2, <1>3, <1>4, <1>5, <1>6, <1>7, <1>8, <1>9, <1>10, <1>11, <1>12, <1>13, <1>14, <1>15

\* The registers with P13 and P12 re-inverted.
Reinvert1(b) == IF b % 2 = 1 THEN b - 1 ELSE b + 1
Reinvert2(b) == IF b >= 128 THEN b - 128 ELSE b + 128

\* Re-inverting a bit leaves the others alone.
LEMMA Reinverted1 ==
  ASSUME NEW b \in Byte, NEW k \in 0 .. 7
  PROVE  Bit(Reinvert1(b), k) = IF k = 0 THEN 1 - Bit(b, k) ELSE Bit(b, k)
<1> USE DEF Bit, Byte, Reinvert1
<1>0. CASE k = 0 BY <1>0
<1>1. CASE k = 1 BY <1>1
<1>2. CASE k = 2 BY <1>2
<1>3. CASE k = 3 BY <1>3
<1>4. CASE k = 4 BY <1>4
<1>5. CASE k = 5 BY <1>5
<1>6. CASE k = 6 BY <1>6
<1>7. CASE k = 7 BY <1>7
<1> QED BY <1>0, <1>1, <1>2, <1>3, <1>4, <1>5, <1>6, <1>7

\* The same for the other register.
LEMMA Reinverted2 ==
  ASSUME NEW b \in Byte, NEW k \in 0 .. 7
  PROVE  Bit(Reinvert2(b), k) = IF k = 7 THEN 1 - Bit(b, k) ELSE Bit(b, k)
<1> USE DEF Bit, Byte, Reinvert2
<1>0. CASE k = 0 BY <1>0
<1>1. CASE k = 1 BY <1>1
<1>2. CASE k = 2 BY <1>2
<1>3. CASE k = 3 BY <1>3
<1>4. CASE k = 4 BY <1>4
<1>5. CASE k = 5 BY <1>5
<1>6. CASE k = 6 BY <1>6
<1>7. CASE k = 7 BY <1>7
<1> QED BY <1>0, <1>1, <1>2, <1>3, <1>4, <1>5, <1>6, <1>7

\* The table of pins has each pin once.
LEMMA PinLevels ==
  ASSUME NEW b1, NEW b2, NEW k \in 0 .. 7
  PROVE  /\ PinLevel(b1, b2, Pins1[8 - k]) <=> (Bit(b1, k) = 0 <=> k # 0)
         /\ PinLevel(b1, b2, Pins2[8 - k]) <=> (Bit(b2, k) = 0 <=> k # 7)
<1>1. \A j \in 0 .. 7 : /\ Pins1[8 - j] = Pins1[8 - k] <=> j = k
                        /\ Pins2[8 - j] = Pins2[8 - k] <=> j = k
                        /\ Pins1[8 - j] # Pins2[8 - k] /\ Pins2[8 - j] # Pins1[8 - k]
  BY DEF Pins1, Pins2
<1>2. (Pins1[8 - k] \in Inverted <=> k = 0) /\ (Pins2[8 - k] \in Inverted <=> k = 7)
  BY DEF Pins1, Pins2, Inverted
<1> QED BY <1>1, <1>2 DEF PinLevel

\* Where each port's value comes from.
LEMMA PortBits ==
  ASSUME NEW b1 \in Byte, NEW b2 \in Byte
  PROVE  LET v1 == Reinvert1(b1)
             v2 == Reinvert2(b2)
             From(p, v, k) == PortValues(ReorderPinPositions(b1, b2))[p] = (Bit(v, k) = 0)
         IN  /\ From(0, v2, 4) /\ From(1, v2, 3) /\ From(2, v2, 2) /\ From(3, v2, 1)
             /\ From(4, v1, 5) /\ From(5, v1, 4) /\ From(6, v1, 3) /\ From(7, v2, 0)
             /\ From(8, v1, 2) /\ From(9, v1, 1) /\ From(10, v1, 0) /\ From(11, v2, 7)
             /\ From(12, v2, 6) /\ From(13, v2, 5) /\ From(14, v1, 7) /\ From(15, v1, 6)
<1> DEFINE v1 == Reinvert1(b1)
           v2 == Reinvert2(b2)
           a == 255 - (Bit(v2, 0) * 128 + Bit(v1, 3) * 64 + Bit(v1, 4) * 32 + Bit(v1, 5) * 16
                        + Bit(v2, 1) * 8 + Bit(v2, 2) * 4 + Bit(v2, 3) * 2 + Bit(v2, 4))
           b == 255 - (Bit(v1, 6) * 128 + Bit(v1, 7) * 64 + Bit(v2, 5) * 32 + Bit(v2, 6) * 16
                        + Bit(v2, 7) * 8 + Bit(v1, 0) * 4 + Bit(v1, 1) * 2 + Bit(v1, 2))
<1>1. \A k \in 0 .. 7 : Bit(v1, k) \in 0 .. 1 /\ Bit(v2, k) \in 0 .. 1
  BY DEF Bit, Byte, Reinvert1, Reinvert2
<1>2. ReorderPinPositions(b1, b2) = <<b, a>>
  <2>1. \A x \in 0 .. 1 : /\ x * 2^0 = x /\ x * 2^1 = x * 2 /\ x * 2^2 = x * 4 /\ x * 2^3 = x * 8
                          /\ x * 2^4 = x * 16 /\ x * 2^5 = x * 32 /\ x * 2^6 = x * 64 /\ x * 2^7 = x * 128
    OBVIOUS
  <2> QED BY <1>1, <2>1 DEF ReorderPinPositions, Reinvert1, Reinvert2
<1> HIDE DEF v1, v2
<1>3. /\ a \in Byte
      /\ Bit(a, 0) = 1 - Bit(v2, 4) /\ Bit(a, 1) = 1 - Bit(v2, 3) /\ Bit(a, 2) = 1 - Bit(v2, 2)
      /\ Bit(a, 3) = 1 - Bit(v2, 1) /\ Bit(a, 4) = 1 - Bit(v1, 5) /\ Bit(a, 5) = 1 - Bit(v1, 4)
      /\ Bit(a, 6) = 1 - Bit(v1, 3) /\ Bit(a, 7) = 1 - Bit(v2, 0)
  BY <1>1, FlippedBits
<1>4. /\ b \in Byte
      /\ Bit(b, 0) = 1 - Bit(v1, 2) /\ Bit(b, 1) = 1 - Bit(v1, 1) /\ Bit(b, 2) = 1 - Bit(v1, 0)
      /\ Bit(b, 3) = 1 - Bit(v2, 7) /\ Bit(b, 4) = 1 - Bit(v2, 6) /\ Bit(b, 5) = 1 - Bit(v2, 5)
      /\ Bit(b, 6) = 1 - Bit(v1, 7) /\ Bit(b, 7) = 1 - Bit(v1, 6)
  BY <1>1, FlippedBits
<1> HIDE DEF a, b
<1>5. \A p \in 0 .. 15 : PortValues(<<b, a>>)[p] = (IF p < 8 THEN Bit(a, p) = 1 ELSE Bit(b, p - 8) = 1)
  BY <1>3, <1>4, WordBits DEF PortValues
<1> QED BY <1>1, <1>2, <1>3, <1>4, <1>5 DEF v1, v2

\* The pin of a port.
PinOf(p) == IF p < 8 THEN 7 - p ELSE 23 - p

\* Each port has the level of its pin, for every content of the registers.
LEMMA PortsShowPins ==
  ASSUME NEW b1 \in Byte, NEW b2 \in Byte
  PROVE  PortValues(ReorderPinPositions(b1, b2)) = [p \in 0 .. 15 |-> PinLevel(b1, b2, PinOf(p))]
<1> DEFINE values == PortValues(ReorderPinPositions(b1, b2))
<1>1. \A k \in 0 .. 7 : /\ Bit(Reinvert1(b1), k) = 0 <=> PinLevel(b1, b2, Pins1[8 - k])
                        /\ Bit(Reinvert2(b2), k) = 0 <=> PinLevel(b1, b2, Pins2[8 - k])
  <2> SUFFICES ASSUME NEW k \in 0 .. 7
               PROVE  /\ Bit(Reinvert1(b1), k) = 0 <=> PinLevel(b1, b2, Pins1[8 - k])
                      /\ Bit(Reinvert2(b2), k) = 0 <=> PinLevel(b1, b2, Pins2[8 - k])
    OBVIOUS
  <2>1. Bit(b1, k) \in 0 .. 1 /\ Bit(b2, k) \in 0 .. 1
    BY DEF Bit, Byte
  <2> QED BY <2>1, PinLevels, Reinverted1, Reinverted2
<1>2. ASSUME NEW p \in 0 .. 15
      PROVE  values[p] = PinLevel(b1, b2, PinOf(p))
  <2> HIDE DEF values
  <2> DEFINE Line1(k) == values[p] = (Bit(Reinvert1(b1), k) = 0) /\ PinOf(p) = Pins1[8 - k]
             Line2(k) == values[p] = (Bit(Reinvert2(b2), k) = 0) /\ PinOf(p) = Pins2[8 - k]
  <2>1. (\E k \in 0 .. 7 : Line1(k)) \/ (\E k \in 0 .. 7 : Line2(k))
    BY PortBits DEF values, PinOf, Pins1, Pins2
  <2>2. PinLevel(b1, b2, PinOf(p)) \in BOOLEAN
    BY DEF PinLevel
  <2>3. CASE \E k \in 0 .. 7 : Line1(k)
    <3>1. PICK k \in 0 .. 7 : Line1(k)
      BY <2>3
    <3> QED BY <1>1, <2>2, <3>1
  <2>4. CASE \E k \in 0 .. 7 : Line2(k)
    <3>1. PICK k \in 0 .. 7 : Line2(k)
      BY <2>4
    <3> QED BY <1>1, <2>2, <3>1
  <2> QED BY <2>1, <2>3, <2>4
<1>3. values = [p \in 0 .. 15 |-> values[p]]
  BY DEF PortValues
<1> HIDE DEF values
<1>4. values = [p \in 0 .. 15 |-> PinLevel(b1, b2, PinOf(p))]
  BY <1>2, <1>3
<1> QED BY <1>4 DEF values

-----------------------------------------------------------------------------
\* Nine bytes in which one data line is stuck at a level never pass for other buttons, and
\* any one transmission of three has every pin at its port: for all contents of the registers.
THEOREM FramesAreTrusted == Spec => []FramesTellThePins
<1>1. StuckLineNeverLies
  <2>1. \A b1, b2 \in Byte, k \in 0 .. 7, level \in 0 .. 1 :
          TryDecodeTransmissions(Stuck(Sent(b1, b2), k, level))
            \in {ChecksumError, TryDecodeTransmissions(Sent(b1, b2))}
    BY StuckDecodes
  <2> QED BY <2>1, ButtonFramesAssumption DEF StuckLineNeverLies
<1>2. OneTransmissionIsEnough
  <2>1. SUFFICES ASSUME NEW b1 \in Register1, NEW b2 \in Register2,
                        NEW kept \in {{1}, {2}, {3}, 1 .. 3}
                 PROVE  TryDecodeTransmissions([i \in 1 .. 9 |->
                            IF ((i - 1) \div 3) + 1 \in kept THEN Sent(b1, b2)[i] ELSE 255])
                          = [p \in 0 .. 15 |-> PinLevel(b1, b2, IF p < 8 THEN 7 - p ELSE 23 - p)]
    BY DEF OneTransmissionIsEnough
  <2>2. b1 \in Byte /\ b2 \in Byte /\ kept \in SUBSET (1 .. 3) /\ kept # {}
    BY ButtonFramesAssumption
  <2> QED BY <2>2, OneDecodes, PortsShowPins DEF PinOf
<1>3. FramesTellThePins
  BY <1>1, <1>2 DEF FramesTellThePins
<1> QED BY <1>3, PTL
=============================================================================
