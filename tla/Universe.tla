------------------------------ MODULE Universe ------------------------------
(***************************************************************************)
(* The start of the process and the GET requests (src/main.rs,             *)
(* src/config.rs, src/device.rs, src/http.rs): the device files are joined *)
(* and checked, then the devices are created in their order and their      *)
(* configured ports mapped, each with an alias, an address, and a task for *)
(* its events; whatever is wrong with the configuration ends the process.  *)
(* When all is mapped, the HTTP server starts.                             *)
(*                                                                         *)
(* One of the devices is an input device whose reports are followed as far *)
(* as the broker and the clients, by EventPipeline; it runs while later    *)
(* ports are still being mapped.  A request for the last values takes the  *)
(* lock of one port after another, and tasks run in between.               *)
(***************************************************************************)
EXTENDS EventPipeline, SequencesExt

CONSTANTS Configurations, \* configurations: sequences of device files
          OtherPorts,     \* ports of the devices that are not followed
          Names,          \* aliases and names of buses
          Lower,          \* to_lowercase
          PortAlias,      \* the alias of a port without one in the configuration
          NoAlias,
          NotSynchronized \* of devices other than synchronized PCA9685s

Mapping == [port : Ports \cup OtherPorts, alias : Names \cup {NoAlias}]
Group == [bus : Names, interval : Nat]
Device == [alias : Names, kind : {"input", "output"}, inputs : Seq(Mapping), outputs : Seq(Mapping),
           group : Group \cup {NotSynchronized}]

ASSUME UniverseAssumption ==
  /\ Ports \cap OtherPorts = {}
  /\ Lower \in [Names -> Names] /\ \A n \in Names : Lower[Lower[n]] = Lower[n]
  /\ PortAlias \in [Names \X (Ports \cup OtherPorts) -> Names]
  /\ NoAlias \notin Names
  /\ NotSynchronized \notin Group
  /\ \A files \in Configurations : FlattenSeq(files) \in Seq(Device)

VARIABLES devices,         \* devices still to be created, after the one whose ports are mapped
          device,          \* alias and kind of the latter
          mappings,        \* its ports still to be mapped
          aliases,         \* taken so far
          address_counter, \* the next address
          port_states,     \* ports mapped so far
          output_ports,    \* the port at each address a value can be set at
          groups,          \* synchronized_pca9685s
          serving,         \* the HTTP server runs
          to_show,         \* ports a request for the last values has still to read
          shown,           \* the values read, by alias
          since            \* history: what the broker had of each port when it was received

startVars == <<devices, device, mappings, aliases, address_counter, port_states, output_ports,
               groups, serving>>
getVars == <<to_show, shown, since>>
universeVars == <<vars, startVars, getVars>>

PortState == [port : Ports \cup OtherPorts, kind : {"input", "output"}, alias : Names, address : Nat]

UniverseTypeOK ==
  /\ TypeOK
  /\ devices \in Seq(Device)
  /\ device \in [alias : Names, kind : {"input", "output"}] \cup {NoValue}
  /\ mappings \in Seq(Mapping)
  /\ aliases \in SUBSET Names
  /\ address_counter \in Nat \ {0}
  /\ port_states \in Seq(PortState)
  /\ DOMAIN output_ports \subseteq Nat
  /\ output_ports \in [DOMAIN output_ports -> Ports \cup OtherPorts]
  /\ groups \in SUBSET Group
  /\ serving \in BOOLEAN
  /\ to_show \in Seq(1 .. Len(port_states))
  /\ DOMAIN shown \subseteq aliases
  /\ since \in [Ports -> Nat]

UniverseInit ==
  /\ Init
  /\ \E files \in Configurations : devices = FlattenSeq(files)
  /\ device = NoValue /\ mappings = <<>>
  /\ aliases = {} /\ address_counter = 1 /\ port_states = <<>> /\ output_ports = <<>>
  /\ groups = {} /\ serving = FALSE
  /\ to_show = <<>> /\ shown = <<>> /\ since = [p \in Ports |-> 0]

\* HashMap::insert
Insert(f, key, value) == [k \in DOMAIN f \cup {key} |-> IF k = key THEN value ELSE f[k]]

\* An error of the start, or a panic of any thread at any time.
Dies == ProcessEnds /\ UNCHANGED <<startVars, getVars>>
-----------------------------------------------------------------------------
(***************************************************************************)
(* Start.                                                                  *)
(***************************************************************************)
\* aggregate_from: two devices have the same alias, letter by letter.
Duplicates(ds) == \E i, j \in DOMAIN ds : i # j /\ ds[i].alias = ds[j].alias

\* MUTANT of Taken: ports only have to differ from devices.
Taken_Devices(alias) == alias \in aliases \ {port_states[i].alias : i \in DOMAIN port_states}

Taken(alias) == alias \in aliases

(***************************************************************************)
(* The next device, once the ports of the one before are mapped: its alias *)
(* must be new, and it must not have ports of the other kind configured.   *)
(* A synchronized PCA9685 joins the others on its bus.                     *)
(***************************************************************************)
CreateDevice ==
  /\ up /\ ~serving
  /\ mappings = <<>> /\ devices # <<>>
  /\ LET d      == Head(devices)
         alias  == Lower[d.alias]
         inputs == d.kind = "input"
     IN  IF \/ device = NoValue /\ Duplicates(devices)
            \/ Taken(alias)
            \/ (IF inputs THEN d.outputs ELSE d.inputs) # <<>>
         THEN Dies
         ELSE /\ device' = [alias |-> alias, kind |-> d.kind]
              /\ mappings' = IF inputs THEN d.inputs ELSE d.outputs
              /\ devices' = Tail(devices)
              /\ aliases' = aliases \cup {alias}
              /\ groups' = groups \cup
                   (IF d.group = NotSynchronized THEN {}
                    ELSE {[bus |-> Lower[d.group.bus], interval |-> d.group.interval]})
              /\ UNCHANGED <<vars, address_counter, port_states, output_ports, serving, getVars>>

\* generate_port_alias: the configured alias, or one made of the device's.
GeneratePortAlias(m) ==
  Lower[IF m.alias = NoAlias THEN PortAlias[device.alias, m.port] ELSE m.alias]

\* MUTANT of NextAddress: only outputs take an address.
NextAddress_OfOutputs == IF device.kind = "output" THEN address_counter + 1 ELSE address_counter

NextAddress == address_counter + 1

(***************************************************************************)
(* create_input_port_mappings and create_output_port_mappings, one port:   *)
(* its alias must be new, and so must the port.  Only outputs can be       *)
(* found by their address.                                                 *)
(***************************************************************************)
MapNext ==
  /\ up /\ ~serving
  /\ mappings # <<>>
  /\ LET m     == Head(mappings)
         alias == GeneratePortAlias(m)
     IN  IF Taken(alias) \/ \E i \in DOMAIN port_states : port_states[i].port = m.port
         THEN Dies
         ELSE /\ aliases' = aliases \cup {alias}
              /\ IF m.port \in Ports THEN MapPort(m.port) ELSE UNCHANGED vars
              /\ port_states' = Append(port_states, [port |-> m.port, kind |-> device.kind,
                                                     alias |-> alias, address |-> address_counter])
              /\ output_ports' = IF device.kind = "output"
                                 THEN Insert(output_ports, address_counter, m.port)
                                 ELSE output_ports
              /\ address_counter' = NextAddress
              /\ mappings' = Tail(mappings)
              /\ UNCHANGED <<devices, device, groups, serving, getVars>>

\* synchronize_pcas: the PCA9685s on a bus must have the same interval, and not zero.
Synchronizable == \A g, h \in groups : g.interval # 0 /\ (g.bus = h.bus => g.interval = h.interval)

\* The universe is complete: the HTTP server starts.
Serve ==
  /\ up /\ ~serving
  /\ devices = <<>> /\ mappings = <<>>
  /\ IF Synchronizable
     THEN /\ serving' = TRUE
          /\ UNCHANGED <<vars, devices, device, mappings, aliases, address_counter, port_states,
                         output_ports, groups, getVars>>
     ELSE Dies
-----------------------------------------------------------------------------
(***************************************************************************)
(* GET /universe/last_values; a request holds the lock of the universe.    *)
(***************************************************************************)
Getting == to_show # <<>>

GetLastValues ==
  /\ up /\ serving
  /\ ~Getting
  /\ to_show' = [i \in DOMAIN port_states |-> i]
  /\ shown' = <<>>
  /\ since' = [p \in Ports |-> Len(published[p])]
  /\ UNCHANGED <<vars, startVars>>

\* The value of one port; the devices not followed here have not reported.
LastValue(p) == IF p \in Ports THEN last_value[p] ELSE NoValue

\* get_all_last_values: the next port; the map is answered after the last one.
ShowNext ==
  /\ up
  /\ Getting
  /\ LET p == port_states[Head(to_show)]
     IN  shown' = Insert(shown, p.alias, LastValue(p.port))
  /\ to_show' = Tail(to_show)
  /\ UNCHANGED <<vars, startVars, since>>
-----------------------------------------------------------------------------
\* What goes on meanwhile: reports, the tasks of the ports and their end.
Pipeline ==
  /\ \/ Report
     \/ \E p \in Ports : Task(p) \/ PublishFails(p)
  /\ UNCHANGED <<startVars, getVars>>

UniverseNext ==
  \/ CreateDevice \/ MapNext \/ Serve
  \/ GetLastValues \/ ShowNext
  \/ Pipeline
  \/ Dies

UniverseSpec == UniverseInit /\ [][UniverseNext]_universeVars

\* tokio polls a woken task and the broker answers; sensors need not report again.
FairUniverseSpec ==
  /\ UniverseSpec
  /\ \A p \in Ports : WF_universeVars(Task(p) /\ UNCHANGED <<startVars, getVars>>)
-----------------------------------------------------------------------------
\* The address GET /universe/config has for a port is its own, and a request that sets
\* it reaches that port, or none if it is an input.
AddressesAgree ==
  \A i, j \in DOMAIN port_states :
    /\ port_states[i].address = port_states[j].address => i = j
    /\ port_states[i].address \in DOMAIN output_ports <=> port_states[i].kind = "output"
    /\ port_states[i].kind = "output" => output_ports[port_states[i].address] = port_states[i].port

\* A client of the broker that asks for the last values is not shown less than it has
\* seen: when the answer is complete, it has an entry under the alias of each port,
\* and this is the latest event published before the request, or a later one.
GetIsNotBehind ==
  DOMAIN shown # {} /\ ~Getting =>
    \A i \in DOMAIN port_states :
      LET p == port_states[i].port
      IN  p \in Ports =>
            shown[port_states[i].alias] \in
              {generated[p][n] : n \in {n \in DOMAIN generated[p] : n >= since[p]}}
              \cup (IF since[p] = 0 THEN {NoValue} ELSE {})
=============================================================================
