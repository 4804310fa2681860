---------------------------- MODULE TasmotaOutput ---------------------------
(***************************************************************************)
(* TasmotaRelayExpander (src/tasmota_relay_expander.rs): relays switched   *)
(* with HTTP requests.  update takes the buffer of the mapped ports and    *)
(* leaves it to a blocking task to send it to the worker's channel, which  *)
(* holds one entry; the worker task sends each entry to the device.        *)
(***************************************************************************)
EXTENDS OutputUniverse

CONSTANTS LOW, HIGH,  \* the values a relay reports when off and on
          MaxFaults   \* bound: failed HTTP requests to the device

ASSUME TasmotaAssumption == {LOW, HIGH} \subseteq Readings /\ MaxFaults \in Nat

VARIABLES pc,       \* "receiving", "writing" or "finishing": the worker task
          sending,  \* updates in the hands of blocking tasks
          channel,  \* updates in the worker's channel
          current,  \* the update the worker received last
          write_ok, \* whether its HTTP request succeeded
          relays,   \* the state of the relays
          newest,   \* number of the newest update taken from the buffer
          faults    \* requests that failed so far

workerVars == <<pc, sending, channel, current, write_ok, relays, newest, faults>>
vars == <<coreVars, universeVars, workerVars>>

\* An update: the relays to switch, and the number of the request it ends.
Updates == [nr : 0 .. MaxRequests, on : UNION {[ps -> BOOLEAN] : ps \in SUBSET Ports}]

NoUpdate == [nr |-> 0, on |-> [p \in {} |-> FALSE]]

Switched(ps) == [p \in ps |-> buffered_values[p] # 0]

TypeOK ==
  /\ CoreTypeOK
  /\ UniverseTypeOK
  /\ pc \in {"receiving", "writing", "finishing"}
  /\ sending \in SUBSET Updates
  /\ channel \in Seq(Updates) /\ Len(channel) <= 1
  /\ current \in Updates
  /\ write_ok \in BOOLEAN
  /\ relays \in [Ports -> BOOLEAN]
  /\ newest \in 0 .. MaxRequests
  /\ faults \in 0 .. MaxFaults

\* new only starts the worker; the relays are as somebody left them.
Init ==
  /\ CoreInitDirty
  /\ UniverseInit
  /\ pc = "receiving"
  /\ sending = {}
  /\ channel = <<>>
  /\ current = NoUpdate
  /\ write_ok = FALSE
  /\ relays \in [Ports -> BOOLEAN]
  /\ newest = 0
  /\ faults = 0

(***************************************************************************)
(* update, at the end of a request: if dirty, clear the bit and spawn a    *)
(* blocking task with the values of the ports in use.                      *)
(***************************************************************************)
Update ==
  /\ AnswerRequest
  /\ \/ /\ dirty
        /\ dirty' = FALSE
        /\ sending' = sending \cup {[nr |-> served, on |-> Switched(mapped)]}
        /\ newest' = served
     \/ ~dirty /\ UNCHANGED <<dirty, sending, newest>>
  /\ UNCHANGED <<readCoreVars, buffered_values, pc, channel, current, write_ok, relays, faults>>

\* blocking_send: the blocking tasks run on their own threads, in any order.
Send ==
  /\ Len(channel) < 1
  /\ \E u \in sending :
       /\ channel' = Append(channel, u)
       /\ sending' = sending \ {u}
  /\ UNCHANGED <<coreVars, universeVars, pc, current, write_ok, relays, newest, faults>>

\* recv: the worker takes the next update from the channel.
Receive ==
  /\ pc = "receiving"
  /\ channel # <<>>
  /\ current' = Head(channel)
  /\ channel' = Tail(channel)
  /\ pc' = "writing"
  /\ UNCHANGED <<coreVars, universeVars, sending, write_ok, relays, newest, faults>>

\* The relays after the switches of ps took effect.
Switch(ps) == [p \in Ports |-> IF p \in ps \cap DOMAIN current.on THEN current.on[p] ELSE relays[p]]

\* The device answers the backlog command with success.
WriteSucceeds ==
  /\ pc = "writing"
  /\ relays' = Switch(Ports)
  /\ write_ok' = TRUE
  /\ pc' = "finishing"
  /\ UNCHANGED <<coreVars, universeVars, sending, channel, current, newest, faults>>

\* The request fails, before or after the device acted on some of it.
WriteFails ==
  /\ pc = "writing"
  /\ faults < MaxFaults
  /\ \E done \in SUBSET Ports : relays' = Switch(done)
  /\ write_ok' = FALSE
  /\ faults' = faults + 1
  /\ pc' = "finishing"
  /\ UNCHANGED <<coreVars, universeVars, sending, channel, current, newest>>

\* The values of a written update: ports it does not name count as off.
Written == [p \in Ports |-> IF p \in DOMAIN current.on /\ current.on[p] THEN HIGH ELSE LOW]

\* MUTANT of Finish: a failed request makes the worker return.
Finish_GivesUp ==
  /\ pc = "finishing"
  /\ FinishUpdate(write_ok, Written, FALSE, FALSE)
  /\ pc' = IF write_ok THEN "receiving" ELSE "returned"
  /\ UNCHANGED <<universeVars, sending, channel, current, write_ok, relays, newest, faults>>

\* finish_update, after which the worker waits for the next update.
Finish ==
  /\ pc = "finishing"
  /\ FinishUpdate(write_ok, Written, FALSE, FALSE)
  /\ pc' = "receiving"
  /\ UNCHANGED <<universeVars, sending, channel, current, write_ok, relays, newest, faults>>

Worker == Receive \/ WriteSucceeds \/ WriteFails \/ Finish

Next ==
  \/ UniverseStep /\ UNCHANGED workerVars
  \/ Update
  \/ Send
  \/ Worker

\* Blocking tasks and the worker run on the tokio runtime, and the device answers
\* or the connection breaks.  Requests need not come.
Fairness == WF_vars(Send) /\ WF_vars(Worker)

Spec == Init /\ [][Next]_vars

FairSpec == Spec /\ Fairness
-----------------------------------------------------------------------------
(***************************************************************************)
(* Properties.                                                             *)
(***************************************************************************)
Quiet == http = "idle" /\ pc = "receiving" /\ sending = {} /\ channel = <<>>

BufferIsShown == \A p \in mapped : relays[p] <=> buffered_values[p] # 0

\* Reset and snapshot in one critical section: with nothing under way and the
\* newest update written last, a clean core means that the relays show the
\* buffer; a failed request always leaves the core dirty.
CleanMeansWrittenInOrder ==
  Serving /\ Quiet /\ ~dirty /\ current.nr = newest => BufferIsShown

\* The update path must not lose the latest values: with nothing under way a
\* clean core means that the relays show the buffer (the dirty bit tracks the
\* buffer, device_core.rs:222).
CleanMeansWritten == Serving /\ Quiet /\ ~dirty => BufferIsShown

\* Under FairSpec no update is stuck behind the full channel or a failed one: each
\* is written, however many are under way.
UpdatesAreWritten ==
  \A n \in 1 .. MaxRequests :
    (\E u \in sending : u.nr = n) ~> (pc = "writing" /\ current.nr = n)
=============================================================================
