--------------------------- MODULE MCRuntimeManager ---------------------------
(***************************************************************************)
(* Small instances of RuntimeManager: one command of every operation, in   *)
(* two generations.                                                        *)
(***************************************************************************)
EXTENDS RuntimeManager, TLC

Generations == [start |-> 1, replace |-> 2, stop |-> 2, observe |-> 1, cancel |-> 2]
OperationOf == [start |-> "START", replace |-> "REPLACE", stop |-> "STOP",
                observe |-> "OBSERVE", cancel |-> "CANCEL"]

AllCommands == DOMAIN Generations

\* The callers are interchangeable.
CallerSymmetry == Permutations(Callers)

=============================================================================
