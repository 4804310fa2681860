--------------------------- MODULE OutputUniverse ---------------------------
(***************************************************************************)
(* The universe around one output device (src/device.rs, src/http.rs): at  *)
(* start every configured port is mapped, given its default and a task     *)
(* that drains its events; afterwards POST /universe/set requests set      *)
(* buffered values and ask the device to update.  The worker of the device *)
(* already runs while its ports are still being mapped.                    *)
(*                                                                         *)
(* A request holds the universe mutex until it is answered, so requests    *)
(* do not interleave with each other; they do with the device's worker and *)
(* with the event tasks, because each step takes the core's lock anew.     *)
(***************************************************************************)
EXTENDS DeviceRWCore

CONSTANTS Configured,  \* ports with an entry under "outputs" in the config
          Default,     \* their default value, or NoValue without one
          Alias,       \* the target of a request entry that names an alias
          NoPort,
          Requests,    \* set requests: sequences of [target |-> , value |-> ]
          MaxRequests  \* bound: requests served in one behaviour

Targets == [target : Ports \cup {Alias}, value : Values]

ASSUME UniverseAssumption ==
  /\ Configured \subseteq Ports
  /\ Default \in [Configured -> Values \cup {NoValue}]
  /\ NoPort \notin Ports
  /\ Alias \notin Ports
  /\ Requests \subseteq Seq(Targets)
  /\ MaxRequests \in Nat

VARIABLES to_map,   \* configured ports not yet mapped
          mapping,  \* the port being mapped, its default not yet set
          http,     \* "idle", or "setting" while a request is handled
          targets,  \* entries of the request still to be applied
          failures, \* some entry of the request failed
          reply,    \* status of the latest response
          served    \* requests received so far

universeVars == <<to_map, mapping, http, targets, failures, reply, served>>

UniverseTypeOK ==
  /\ to_map \in SUBSET Configured
  /\ mapping \in Configured \cup {NoPort}
  /\ http \in {"idle", "setting"}
  /\ targets \in Seq(Targets)
  /\ failures \in BOOLEAN
  /\ reply \in {"none", "ok", "bad_request"}
  /\ served \in 0 .. MaxRequests

UniverseInit ==
  /\ to_map = Configured
  /\ mapping = NoPort
  /\ http = "idle"
  /\ targets = <<>>
  /\ failures = FALSE
  /\ reply = "none"
  /\ served = 0

\* The HTTP server starts once the universe is complete.
Serving == to_map = {} /\ mapping = NoPort

\* create_output_port_mappings, first half: get_output_port for the next entry.
MapPort(p) ==
  /\ mapping = NoPort
  /\ p \in to_map
  /\ GetOutputPort(p)
  /\ to_map' = to_map \ {p}
  /\ mapping' = p
  /\ UNCHANGED <<http, targets, failures, reply, served>>

\* MUTANT of SetDefault: a port without a default is set, too.
SetDefault_Always(p) ==
  /\ mapping = p
  /\ p \in Configured
  /\ SetBuffered(p, Default[p])
  /\ mapping' = NoPort
  /\ UNCHANGED <<to_map, http, targets, failures, reply, served>>

(***************************************************************************)
(* create_output_port_mappings, second half: buffer the default and spawn  *)
(* the event task.  Nothing here calls the device's update.                *)
(***************************************************************************)
SetDefault(p) ==
  /\ mapping = p
  /\ p \in Configured
  /\ \/ /\ Default[p] # NoValue
        /\ SetBuffered(p, Default[p])
     \/ /\ Default[p] = NoValue
        /\ UNCHANGED coreVars
  /\ mapping' = NoPort
  /\ UNCHANGED <<to_map, http, targets, failures, reply, served>>

\* spawn_event_to_broadcast_worker: the task of port p polls its event stream.
PollStream(p) ==
  /\ p # mapping
  /\ PollEvents(p)
  /\ UNCHANGED <<buffered_values, dirty, universeVars>>

\* post_universe_set: take the universe lock and start on the request.
ReceiveRequest(r) ==
  /\ Serving
  /\ http = "idle"
  /\ served < MaxRequests
  /\ http' = "setting"
  /\ targets' = r
  /\ failures' = FALSE
  /\ served' = served + 1
  /\ UNCHANGED <<coreVars, to_map, mapping, reply>>

(***************************************************************************)
(* handle_set_requests, one entry with an address: set_address buffers the *)
(* value; an address nothing is mapped to fails, and the loop goes on.     *)
(***************************************************************************)
SetAddress ==
  /\ http = "setting"
  /\ targets # <<>>
  /\ Head(targets).target # Alias
  /\ \/ /\ Head(targets).target \in mapped
        /\ SetBuffered(Head(targets).target, Head(targets).value)
        /\ UNCHANGED failures
     \/ /\ Head(targets).target \notin mapped
        /\ failures' = TRUE
        /\ UNCHANGED coreVars
  /\ targets' = Tail(targets)
  /\ UNCHANGED <<to_map, mapping, http, reply, served>>

\* The bail! on an alias: answer at once; earlier entries stay buffered, no update.
RejectAlias ==
  /\ http = "setting"
  /\ targets # <<>>
  /\ Head(targets).target = Alias
  /\ http' = "idle"
  /\ targets' = <<>>
  /\ reply' = "bad_request"
  /\ UNCHANGED <<coreVars, to_map, mapping, failures, served>>

(***************************************************************************)
(* The end of the request: UniverseState::update has called the device's   *)
(* update (the device module conjoins that) and the response goes out.     *)
(***************************************************************************)
AnswerRequest ==
  /\ http = "setting"
  /\ targets = <<>>
  /\ http' = "idle"
  /\ reply' = IF failures THEN "bad_request" ELSE "ok"
  /\ UNCHANGED <<to_map, mapping, targets, failures, served>>

\* Startup, requests and event tasks, all but the device's own update.
UniverseStep ==
  \/ \E p \in Configured : MapPort(p) \/ SetDefault(p)
  \/ \E r \in Requests : ReceiveRequest(r)
  \/ SetAddress
  \/ RejectAlias
  \/ \E p \in Ports : PollStream(p)

\* The client of the latest request was told that it succeeded.
Acknowledged == http = "idle" /\ reply = "ok"
=============================================================================
