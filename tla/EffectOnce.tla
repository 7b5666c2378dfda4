------------------------------ MODULE EffectOnce ------------------------------
(* What dispatching promises, without rows, leases, workers or Tasks: an     *)
(* effect is permitted once, performed at most once, only between permission *)
(* and closing, and a closed command stays closed.                           *)
EXTENDS Naturals

CONSTANT Commands

VARIABLES phase, effects

Init ==
    /\ phase = [c \in Commands |-> "pending"]
    /\ effects = [c \in Commands |-> 0]

Permit(c) ==
    /\ phase[c] = "pending"
    /\ phase' = [phase EXCEPT ![c] = "permitted"]
    /\ UNCHANGED effects

Perform(c) ==
    /\ phase[c] = "permitted"
    /\ effects[c] = 0
    /\ effects' = [effects EXCEPT ![c] = 1]
    /\ UNCHANGED phase

Close(c) ==
    /\ phase[c] = "permitted"
    /\ phase' = [phase EXCEPT ![c] = "closed"]
    /\ UNCHANGED effects

Next == \E c \in Commands : Permit(c) \/ Perform(c) \/ Close(c)

Spec == Init /\ [][Next]_<<phase, effects>>
=============================================================================
