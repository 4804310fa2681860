---------------------------- MODULE OutputDevice ----------------------------
(***************************************************************************)
(* What an output device promises (the comments on OutputPort::set and     *)
(* OutputHardwareDevice::update in src/device.rs): values are buffered     *)
(* first and written later, always as a whole buffer and always forward.   *)
(* A buffer that was superseded may still reach the outputs when it was    *)
(* already on its way, but only until the next write; after a write, only  *)
(* the current buffer can follow.                                          *)
(***************************************************************************)
CONSTANTS Ports, Values,
          Levels,  \* what an output can be physically
          Level    \* [Ports -> [Values -> Levels]], what a value makes of an output

VARIABLES wanted,  \* [Ports -> Values], the values last set
          pending, \* the buffers a write may still put on the outputs
          outputs  \* [Ports -> Levels], the state of the hardware

vars == <<wanted, pending, outputs>>

Buffers == [Ports -> Values]

TypeOK ==
  /\ wanted \in Buffers
  /\ pending \in SUBSET Buffers
  /\ outputs \in [Ports -> Levels]

\* The hardware keeps whatever an earlier run of the program left on it.
Init ==
  /\ wanted \in Buffers
  /\ pending = {wanted}
  /\ outputs \in [Ports -> Levels]

\* Set one port: the new buffer is pending, and superseded ones may be given up.
Set ==
  \E p \in Ports, v \in Values :
    /\ wanted' = [wanted EXCEPT ![p] = v]
    /\ pending' \subseteq pending \cup {wanted'}
    /\ wanted' \in pending'
    /\ UNCHANGED outputs

\* A write of a whole pending buffer; nothing older can be written after it.
Write ==
  \E b \in pending :
    /\ outputs' = [p \in Ports |-> Level[p][b[p]]]
    /\ pending' = {wanted}
    /\ UNCHANGED wanted

\* A failed write: each output has the new level or still the old one.
Tear ==
  \E b \in pending :
    /\ outputs' \in [Ports -> Levels]
    /\ \A p \in Ports : outputs'[p] \in {outputs[p], Level[p][b[p]]}
    /\ pending' = {wanted}
    /\ UNCHANGED wanted

Next == Set \/ Write \/ Tear

Spec == Init /\ [][Next]_vars
=============================================================================
