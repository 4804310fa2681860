------------------------- MODULE MCDs18b20Expander --------------------------
(***************************************************************************)
(* TLC instances of Ds18b20Expander: p2's sensor is the second on the      *)
(* first bus, p1's alone on the last, so that its ID has as many bytes as  *)
(* a readout of all four.  No port is configured for the other two, and    *)
(* one bus is empty.                                                       *)
(***************************************************************************)
EXTENDS Ds18b20Expander

CONSTANTS p1, p2, a, b, c, d

MCWired == <<<<c, b>>, <<d>>, <<>>, <<a>>>>
MCSensorOf == [p \in Ports |-> IF p = p1 THEN a ELSE b]
MCReadings == ({a, b, c, d} \X {"new", "used"}) \cup {Junk}
=============================================================================
