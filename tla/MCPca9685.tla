------------------------------ MODULE MCPca9685 -----------------------------
(***************************************************************************)
(* TLC instances of Pca9685Output: p1 is scaled over the full range, where *)
(* 1 and 0 have the same on-time, p2 never goes below a quarter of it.     *)
(***************************************************************************)
EXTENDS Pca9685Output

CONSTANTS p1, p2

MCValues == {0, 1, 40000}

MCLevel == [p \in Ports |-> IF p = p1 THEN Linear(0, 65535) ELSE Linear(16384, 65535)]
MCLevels == {MCLevel[p][v] : p \in Ports, v \in Values}

MCDefaults == [p \in Configured |-> IF p = p1 THEN 40000 ELSE NoValue]

To(p, v) == [target |-> p, value |-> v]

\* p2 is not configured: it stays at its minimum and is an invalid address.
MCRequests == { <<To(p2, 40000), To(p1, 1)>>,
                <<To(p1, 0), To(Alias, 1)>> }
=============================================================================
