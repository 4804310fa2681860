------------------------------ MODULE MCTasmota -----------------------------
(***************************************************************************)
(* TLC instances of TasmotaOutput: two relays, of which one may be left    *)
(* out of the configuration, and enough requests for two updates to wait.  *)
(***************************************************************************)
EXTENDS TasmotaOutput

CONSTANTS p1, p2

MCValues == {0, 1}
MCReadings == {0, 1, 65535}

MCDefaults == [p \in Configured |-> IF p = p1 THEN 1 ELSE NoValue]

To(p, v) == [target |-> p, value |-> v]

MCRequests == { <<To(p1, 1), To(p2, 1)>>,
                <<To(p1, 0)>>,
                <<To(p2, 0), To(Alias, 1)>> }

MCOneRequests == { <<To(p1, 1)>>, <<To(p1, 0)>> }
=============================================================================
