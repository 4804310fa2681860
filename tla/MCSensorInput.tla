---------------------------- MODULE MCSensorInput ---------------------------
(***************************************************************************)
(* TLC instances of SensorInput: every kind of device, with up to two      *)
(* mapped ports; and the frames of a DHT22 for measurements that include   *)
(* some whose damaged frames have a correct checksum.                      *)
(***************************************************************************)
EXTENDS SensorInput

MCPorts == {"temperature", "humidity", "pressure", "pin"}

MCMeasurements ==
  [humidity : {11, 140, 523, 652}, temperature : {0, 95, 256, 351}]
    \cup {[humidity |-> 0, temperature |-> 0], [humidity |-> 11, temperature |-> -351],
          [humidity |-> 573, temperature |-> 60], [humidity |-> 489, temperature |-> -404]}
=============================================================================
