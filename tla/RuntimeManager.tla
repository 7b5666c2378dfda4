---------------------------- MODULE RuntimeManager ----------------------------
(***************************************************************************)
(* The Runtime Manager of the operator: the desired command of one Runtime *)
(* instance, the append-only facts about it, and the provider that starts, *)
(* stops and replaces the Runtime.                                         *)
(*                                                                         *)
(* Callers either apply a command (NativeRuntimeApplicationAdapter.apply:  *)
(* request, then reconcile) or only reconcile.  Every call to the          *)
(* repository or to the provider is one action.  Scopes are checked before *)
(* anything is read and are left out; an observation is always fresh when  *)
(* it is classified, because both carry the same clock reading.            *)
(***************************************************************************)
EXTENDS Integers, Sequences

CONSTANTS
    Commands,      \* the commands for this Runtime instance
    NoCommand,     \* nothing desired yet
    Generation,    \* [Commands -> Nat], desired_generation
    Operation,     \* [Commands -> Operations]
    Callers,       \* who calls the manager
    Upsets,        \* what may go wrong: subset of {"raise", "crash", "drift"}
    MaxUpsets,     \* how often
    MaxFacts       \* bound on the facts of one behaviour

Operations == {"START", "STOP", "CANCEL", "REPLACE", "OBSERVE"}

ASSUME NoCommandAssumption == NoCommand \notin Commands
ASSUME CommandsAssumption ==
    Generation \in [Commands -> Nat] /\ Operation \in [Commands -> Operations]
ASSUME BoundsAssumption == MaxUpsets \in Nat /\ MaxFacts \in Nat

VARIABLES
    desired,   \* the repository's current command
    facts,     \* its facts: command and result
    runtime,   \* the state the lifecycle driver reports
    issued,    \* lifecycle calls made for each command
    caller,    \* the callers' local states
    upsets

vars == <<desired, facts, runtime, issued, caller, upsets>>

-----------------------------------------------------------------------------
\* "absent": the driver has no observation.
States == {"absent", "PENDING", "RUNNING", "STOPPED", "TERMINATED", "FAILED", "UNKNOWN"}

\* CommandResult.  REJECTED is never produced, STALE not within one call.
Results == {"REQUESTED", "APPLIED", "OBSERVED", "UNKNOWN", "RECOVERY_REQUIRED"}

AMBIGUOUS_COMMAND_RESULTS == {"UNKNOWN", "RECOVERY_REQUIRED"}

\* A caller: where it is, the command it read, the state it observed, the
\* result it is about to record.
Pcs == {"away", "idle", "intending", "reconciling", "observing", "deciding",
        "looking", "acting", "acted", "recording"}
Locals == [pc : Pcs, cmd : Commands \union {NoCommand}, seen : States, result : Results]
\* A caller that is away never calls.
Away == [pc |-> "away", cmd |-> NoCommand, seen |-> "absent", result |-> "REQUESTED"]
Idle == [pc |-> "idle", cmd |-> NoCommand, seen |-> "absent", result |-> "REQUESTED"]

Init ==
    /\ desired = NoCommand
    /\ facts = << >>
    /\ runtime = "absent"
    /\ issued = [c \in Commands |-> 0]
    /\ caller \in [Callers -> {Idle, Away}]
    /\ upsets = 0

Upset(u) ==
    /\ u \in Upsets
    /\ upsets < MaxUpsets
    /\ upsets' = upsets + 1

-----------------------------------------------------------------------------
(* request                                                                 *)

\* Mutant: a command of the same generation replaces the desired one.
AcceptableAgain(c) ==
    desired \notin {NoCommand, c} => Generation[c] >= Generation[desired]

\* append_desired: the same command again, or a later generation.
Acceptable(c) ==
    desired \notin {NoCommand, c} => Generation[c] > Generation[desired]

\* Mutant: a STOP takes effect before it is persisted.
StopAtOnce(p, c) ==
    /\ caller[p].pc = "idle"
    /\ Len(facts) < MaxFacts
    /\ Acceptable(c)
    /\ desired' = IF Operation[c] = "STOP" THEN desired ELSE c
    /\ caller' = [caller EXCEPT ![p].pc = IF Operation[c] = "STOP" THEN "acting" ELSE "intending",
                                ![p].cmd = c]
    /\ UNCHANGED <<facts, runtime, issued, upsets>>

AppendDesired(p, c) ==
    /\ caller[p].pc = "idle"
    /\ Len(facts) < MaxFacts
    /\ Acceptable(c)
    /\ desired' = c
    /\ caller' = [caller EXCEPT ![p].pc = "intending", ![p].cmd = c]
    /\ UNCHANGED <<facts, runtime, issued, upsets>>

AppendRequested(p) ==
    /\ caller[p].pc = "intending"
    /\ facts' = Append(facts, [cmd |-> caller[p].cmd, result |-> "REQUESTED"])
    /\ caller' = [caller EXCEPT ![p] = [Idle EXCEPT !.pc = "reconciling"]]
    /\ UNCHANGED <<desired, runtime, issued, upsets>>

-----------------------------------------------------------------------------
(* reconcile                                                               *)

\* A caller that only reconciles, for example after a restart.
Reconcile(p) ==
    /\ caller[p].pc = "idle"
    /\ desired # NoCommand
    /\ Len(facts) < MaxFacts
    /\ caller' = [caller EXCEPT ![p].pc = "reconciling"]
    /\ UNCHANGED <<desired, facts, runtime, issued, upsets>>

\* Mutant: the command to carry on with is taken from the last fact.
ReadLastFact(p) ==
    /\ caller[p].pc = "reconciling"
    /\ caller' = [caller EXCEPT ![p].pc = "observing",
                    ![p].cmd = IF facts = << >> THEN desired ELSE facts[Len(facts)].cmd]
    /\ UNCHANGED <<desired, facts, runtime, issued, upsets>>

ReadDesired(p) ==
    /\ caller[p].pc = "reconciling"
    /\ caller' = [caller EXCEPT ![p].pc = "observing", ![p].cmd = desired]
    /\ UNCHANGED <<desired, facts, runtime, issued, upsets>>

Observe(p) ==
    /\ caller[p].pc = "observing"
    /\ caller' = [caller EXCEPT ![p].pc = "deciding", ![p].seen = runtime]
    /\ UNCHANGED <<desired, facts, runtime, issued, upsets>>

\* observation_matches_desired, for an observation that is neither missing
\* nor UNKNOWN.
Wanted(operation) ==
    CASE operation = "START" -> {"RUNNING"}
      [] operation = "STOP" -> {"STOPPED", "TERMINATED"}
      [] operation = "CANCEL" -> {"TERMINATED"}
      [] operation = "REPLACE" -> {"PENDING", "RUNNING"}
      [] operation = "OBSERVE" -> States \ {"absent", "UNKNOWN"}

\* Mutant: what is unknown is reported as stale.
classify_as_stale(c, state) ==
    CASE state \in {"absent", "UNKNOWN"} -> "STALE"
      [] state \in Wanted(Operation[c]) -> "OBSERVED"
      [] OTHER -> "APPLIED"

classify_reconciliation(c, state) ==
    CASE state \in {"absent", "UNKNOWN"} -> "UNKNOWN"
      [] state \in Wanted(Operation[c]) -> "OBSERVED"
      [] OTHER -> "APPLIED"

\* replacement_already_issued
AlreadyIssued(c) ==
    \E i \in DOMAIN facts : facts[i].cmd = c /\ facts[i].result \in {"APPLIED", "OBSERVED"}

\* Mutant: a Runtime that runs counts as the replaced one.
SettledByState(p) ==
    classify_reconciliation(caller[p].cmd, caller[p].seen) = "OBSERVED"

\* The state seen is what the command wants and, for a replacement, the command
\* was applied before.
Settled(p) ==
    /\ classify_reconciliation(caller[p].cmd, caller[p].seen) = "OBSERVED"
    /\ Operation[caller[p].cmd] = "REPLACE" => AlreadyIssued(caller[p].cmd)

\* Mutant: only UNKNOWN stops the manager.
AmbiguousOnlyUnknown == facts # << >> /\ facts[Len(facts)].result = "UNKNOWN"

\* prior[-1], whichever command it is about.
LastIsAmbiguous == facts # << >> /\ facts[Len(facts)].result \in AMBIGUOUS_COMMAND_RESULTS

\* The facts are read once; the branches differ in what is recorded, if
\* anything is yet.  The observation is not used after them.
DecideObserved(p) ==
    /\ caller[p].pc = "deciding"
    /\ Settled(p)
    /\ caller' = [caller EXCEPT ![p].pc = "recording", ![p].seen = "absent",
                                ![p].result = "OBSERVED"]
    /\ UNCHANGED <<desired, facts, runtime, issued, upsets>>

DecideNotReissued(p) ==
    /\ caller[p].pc = "deciding"
    /\ ~Settled(p)
    /\ LastIsAmbiguous
    /\ caller' = [caller EXCEPT ![p].pc = "recording", ![p].seen = "absent",
                                ![p].result = "RECOVERY_REQUIRED"]
    /\ UNCHANGED <<desired, facts, runtime, issued, upsets>>

DecideEffect(p) ==
    /\ caller[p].pc = "deciding"
    /\ ~Settled(p)
    /\ ~LastIsAmbiguous
    /\ caller' = [caller EXCEPT ![p].seen = "absent", ![p].pc =
                    IF Operation[caller[p].cmd] = "START" THEN "looking"
                    ELSE IF Operation[caller[p].cmd] = "OBSERVE" THEN "acted" ELSE "acting"]
    /\ UNCHANGED <<desired, facts, runtime, issued, upsets>>

\* start_runtime observes first and leaves a running Runtime alone.
LookBeforeStart(p) ==
    /\ caller[p].pc = "looking"
    /\ caller' = [caller EXCEPT ![p].pc = IF runtime = "RUNNING" THEN "acted" ELSE "acting"]
    /\ UNCHANGED <<desired, facts, runtime, issued, upsets>>

\* What the driver may bring the Runtime to.
Driven(operation) ==
    IF operation \in {"STOP", "CANCEL"} THEN {"STOPPED", "TERMINATED"} ELSE {"PENDING", "RUNNING"}

\* The driver's effect, which may also not show yet.
Drive(c) ==
    /\ issued' = [issued EXCEPT ![c] = @ + 1]
    /\ runtime' \in Driven(Operation[c]) \union {runtime}

Act(p) ==
    /\ caller[p].pc = "acting"
    /\ Drive(caller[p].cmd)
    /\ caller' = [caller EXCEPT ![p].pc = "acted"]
    /\ UNCHANGED <<desired, facts, upsets>>

\* The provider raises: while it looks, or before or after the driver's effect.
ActRaises(p) ==
    /\ caller[p].pc \in {"looking", "acting"}
    /\ Upset("raise")
    /\ \/ UNCHANGED <<issued, runtime>>
       \/ caller[p].pc = "acting" /\ Drive(caller[p].cmd)
    /\ caller' = [caller EXCEPT ![p].pc = "recording", ![p].result = "RECOVERY_REQUIRED"]
    /\ UNCHANGED <<desired, facts>>

ObserveEffect(p) ==
    /\ caller[p].pc = "acted"
    /\ caller' = [caller EXCEPT ![p].pc = "recording",
                    ![p].result = classify_reconciliation(caller[p].cmd, runtime)]
    /\ UNCHANGED <<desired, facts, runtime, issued, upsets>>

AppendResult(p) ==
    /\ caller[p].pc = "recording"
    /\ facts' = Append(facts, [cmd |-> caller[p].cmd, result |-> caller[p].result])
    /\ caller' = [caller EXCEPT ![p] = Idle]
    /\ UNCHANGED <<desired, runtime, issued, upsets>>

-----------------------------------------------------------------------------
\* The caller's process dies and comes back, or an observation raises: nothing
\* is recorded.
Crash(p) ==
    /\ caller[p].pc \notin {"idle", "away"}
    /\ Upset("crash")
    /\ caller' = [caller EXCEPT ![p] = Idle]
    /\ UNCHANGED <<desired, facts, runtime, issued>>

\* The Runtime changes by itself.
Drift ==
    /\ runtime # "absent"
    /\ Upset("drift")
    /\ runtime' \in {"RUNNING", "FAILED", "UNKNOWN"} \ {runtime}
    /\ UNCHANGED <<desired, facts, issued, caller>>

Step(p) ==
    \/ \E c \in Commands : AppendDesired(p, c)
    \/ AppendRequested(p)
    \/ Reconcile(p) \/ ReadDesired(p) \/ Observe(p)
    \/ DecideObserved(p) \/ DecideNotReissued(p) \/ DecideEffect(p)
    \/ LookBeforeStart(p) \/ Act(p) \/ ActRaises(p)
    \/ ObserveEffect(p) \/ AppendResult(p)
    \/ Crash(p)

Next == (\E p \in Callers : Step(p)) \/ Drift

Spec == Init /\ [][Next]_vars

-----------------------------------------------------------------------------
(* Properties                                                              *)

\* Every variable has its type.
TypeOK ==
    /\ desired \in Commands \union {NoCommand}
    /\ facts \in Seq([cmd : Commands, result : Results])
    /\ runtime \in States
    /\ issued \in [Commands -> Nat]
    /\ caller \in [Callers -> Locals]
    /\ upsets \in 0 .. MaxUpsets

\* Intent before effect: whatever was issued had been persisted as desired, so
\* the desired generation is never behind an effect, over crashes and callers
\* that act on a command that is no longer desired.
IntentBeforeEffect ==
    \A c \in Commands :
        issued[c] > 0 => desired # NoCommand /\ Generation[c] <= Generation[desired]

\* The facts of one generation are all about one command: append_desired keeps
\* a second command of a generation out for ever.
OneCommandPerGeneration ==
    \A i, j \in DOMAIN facts :
        Generation[facts[i].cmd] = Generation[facts[j].cmd] => facts[i].cmd = facts[j].cmd

\* A replacement is reported as OBSERVED only if the provider was asked for it:
\* the Runtime that was to be replaced is never taken for its successor.
ReplacementWasIssued ==
    \A i \in DOMAIN facts :
        Operation[facts[i].cmd] = "REPLACE" /\ facts[i].result = "OBSERVED" =>
            issued[facts[i].cmd] > 0

\* The command has an ambiguous result on record, and none after it that is in
\* the set.
AmbiguousUpTo(c, results) ==
    \E i \in DOMAIN facts :
        /\ facts[i].cmd = c /\ facts[i].result \in AMBIGUOUS_COMMAND_RESULTS
        /\ \A j \in i .. Len(facts) : facts[j].cmd = c => facts[j].result \notin results

\* "Ambiguous effects must be observed or recovered, never blindly reissued":
\* the driver is not called for a command whose result is still ambiguous.
AmbiguousIsNotReissued ==
    [][\A c \in Commands :
        AmbiguousUpTo(c, {"APPLIED", "OBSERVED"}) => issued'[c] = issued[c]]_vars

\* Only p ever calls.
Lone(p) == \A q \in Callers \ {p} : caller[q].pc = "away"

\* What reconcile does guarantee: a caller on its own does not repeat an ambiguous
\* effect, unless it requests the command again.
AmbiguousIsRecovered ==
    [][\A c \in Commands, p \in Callers :
        Lone(p) /\ AmbiguousUpTo(c, {"APPLIED", "OBSERVED", "REQUESTED"})
            => issued'[c] = issued[c]]_vars

\* A caller on its own issues only the command that is desired at that moment,
\* also when a crash left it without its REQUESTED fact and the last fact is
\* about the command it replaced.  A second caller may still issue a command
\* that was replaced since it read it: reconcile does not look again.
LoneCallerIsCurrent ==
    [][\A c \in Commands, p \in Callers :
        Lone(p) /\ issued'[c] # issued[c] => desired = c]_vars

=============================================================================
