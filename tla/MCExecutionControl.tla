------------------------- MODULE MCExecutionControl -------------------------
(***************************************************************************)
(* Small instances of ExecutionControl for TLC.                            *)
(***************************************************************************)
EXTENDS ExecutionControl, TLC

CONSTANT Bound  \* the snapshot that declares every resource; others declare none

MCDeclares == [x \in Snapshots |-> IF x = Bound THEN Resources ELSE {}]

\* Ids are opaque: only equality between them is ever tested.
Symmetry == Permutations(Tokens) \cup Permutations(Calls)
                \cup Permutations(Registrations) \cup Permutations(Sessions)
=============================================================================
