--------------------------- MODULE MCDht22Expander --------------------------
(***************************************************************************)
(* TLC instances of Dht22Expander: one sensor with its two ports.          *)
(***************************************************************************)
EXTENDS Dht22Expander

CONSTANT s1

MCPorts == {s1} \X {"temperature", "humidity"}
=============================================================================
