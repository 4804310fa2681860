----------------------------- MODULE MCMcp23017 -----------------------------
(***************************************************************************)
(* TLC instances of Mcp23017Output: two ports and three values, two of     *)
(* which switch an output on.                                              *)
(***************************************************************************)
EXTENDS Mcp23017Output

CONSTANTS p1, p2

MCValues == {0, 1, 2}

MCDefaults == [p \in Configured |-> IF p = p1 THEN 1 ELSE NoValue]
MCNoDefaults == [p \in Configured |-> NoValue]

To(p, v) == [target |-> p, value |-> v]

\* Batches that switch both ports on, change a value without changing its level
\* and switch another port off, and name an alias after a valid entry.
MCRequests == { <<To(p1, 1), To(p2, 2)>>,
                <<To(p2, 0), To(p1, 2)>>,
                <<To(p1, 0), To(Alias, 1)>> }

\* p2 is not configured: setting it is an invalid address.
MCPartialRequests == { <<To(p2, 1), To(p1, 1)>> }
=============================================================================
