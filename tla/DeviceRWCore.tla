---------------------------- MODULE DeviceRWCore ----------------------------
(***************************************************************************)
(* DeviceRWCore (src/device_core.rs): a read core plus the values the      *)
(* device should show and a dirty bit, the core of every output device.    *)
(* The scalings are configuration and never change after start; they are   *)
(* folded into the constant Level of the device modules.                   *)
(***************************************************************************)
EXTENDS DeviceReadCore

CONSTANT Values    \* values a set request can carry (OutputValue), 0 among them

ASSUME RWCoreAssumption == 0 \in Values /\ Values \subseteq Nat /\ Values \subseteq Readings

VARIABLES buffered_values, \* [Ports -> Values], what the outputs should be
          dirty            \* the buffer may differ from what was last written

coreVars == <<readCoreVars, buffered_values, dirty>>

Buffers == [Ports -> Values]

CoreTypeOK ==
  /\ ReadCoreTypeOK
  /\ buffered_values \in Buffers
  /\ dirty \in BOOLEAN

\* new_dirty: all zero and dirty, so that the hardware is brought to zero first.
CoreInitDirty ==
  /\ ReadCoreInit
  /\ buffered_values = [p \in Ports |-> 0]
  /\ dirty = TRUE

\* get_output_port: create the queue; value, buffer and waker stay as they are.
GetOutputPort(p) ==
  /\ SetUpEvents(p)
  /\ UNCHANGED <<device_values, wakers, received, buffered_values, dirty>>

\* MUTANT of SetBuffered: loses the dirty bit of an earlier set.
SetBuffered_OverwritesDirty(p, v) ==
  /\ buffered_values' = [buffered_values EXCEPT ![p] = v]
  /\ dirty' = (v # buffered_values[p])
  /\ UNCHANGED readCoreVars

\* set: buffer the value; only a different value makes the core dirty.
SetBuffered(p, v) ==
  /\ buffered_values' = [buffered_values EXCEPT ![p] = v]
  /\ dirty' = (dirty \/ v # buffered_values[p])
  /\ UNCHANGED readCoreVars

\* MUTANT of AllFailed: a failed write makes the ports unknown instead of failed.
AllFailed_Unknown == [p \in Ports |-> NoValue]

\* The results of a failed write: the error, on every port.
AllFailed == [p \in Ports |-> Err]

\* MUTANT of FinishUpdate: a failed write is reported but not retried.
FinishUpdate_NoRetry(ok, written, force, suppress) ==
  /\ \/ ok /\ UpdateValues(written, force, suppress)
     \/ ~ok /\ UpdateValues(AllFailed, TRUE, FALSE)
  /\ UNCHANGED <<buffered_values, dirty>>

(***************************************************************************)
(* finish_update: written is what the worker put on the hardware.  On an   *)
(* error the core becomes dirty, so that the write is tried again, and     *)
(* every port reports the error.                                           *)
(***************************************************************************)
FinishUpdate(ok, written, force, suppress) ==
  /\ \/ /\ ok
        /\ UpdateValues(written, force, suppress)
        /\ UNCHANGED dirty
     \/ /\ ~ok
        /\ UpdateValues(AllFailed, TRUE, FALSE)
        /\ dirty' = TRUE
  /\ UNCHANGED buffered_values
=============================================================================
