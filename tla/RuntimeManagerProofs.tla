------------------------- MODULE RuntimeManagerProofs -------------------------
(***************************************************************************)
(* For any set of commands and any number of callers: the Runtime Manager  *)
(* persists intent before effect, keeps one command per generation, and    *)
(* reports a replacement only if it was issued.                            *)
(***************************************************************************)
EXTENDS RuntimeManager, TLAPS

\* A caller that holds a command holds a real one, and one that is about to
\* read the desired command will find one.
HoldsCommand ==
    \A p \in Callers :
        /\ caller[p].pc \in {"observing", "deciding", "looking", "acting", "acted", "recording",
                             "intending"} => caller[p].cmd \in Commands
        /\ caller[p].pc \in {"intending", "reconciling"} => desired # NoCommand

\* c has been desired at some time: it is desired, held, on record or issued.
Known(c) ==
    \/ c = desired
    \/ \E p \in Callers : caller[p].cmd = c
    \/ \E i \in DOMAIN facts : facts[i].cmd = c
    \/ issued[c] > 0

\* No known command is ahead of the desired one, and no two share a generation.
KnownInOrder ==
    \A c \in Commands : Known(c) =>
        /\ desired # NoCommand /\ Generation[c] <= Generation[desired]
        /\ \A d \in Commands : Known(d) /\ Generation[c] = Generation[d] => c = d

\* Where a replacement is recorded, or about to be, it was issued.
IssuedBeforeRecorded ==
    /\ \A p \in Callers :
        /\ caller[p].pc = "looking" => Operation[caller[p].cmd] = "START"
        /\ \/ caller[p].pc = "acted"
           \/ caller[p].pc = "recording" /\ caller[p].result \in {"APPLIED", "OBSERVED"}
           => (Operation[caller[p].cmd] = "REPLACE" => issued[caller[p].cmd] > 0)
    /\ \A i \in DOMAIN facts :
        Operation[facts[i].cmd] = "REPLACE" /\ facts[i].result \in {"APPLIED", "OBSERVED"} =>
            issued[facts[i].cmd] > 0

ManagerInv == TypeOK /\ HoldsCommand /\ KnownInOrder /\ IssuedBeforeRecorded

-----------------------------------------------------------------------------
\* The initial state satisfies the invariant: nobody holds a command, nothing is
\* recorded.
LEMMA InitInv == Init => ManagerInv
  <1> SUFFICES ASSUME Init PROVE ManagerInv
    OBVIOUS
  <1>1. TypeOK
    BY BoundsAssumption DEF Init, TypeOK, Idle, Away, Locals, Pcs, States, Results
  <1>2. HoldsCommand
    BY DEF Init, HoldsCommand, Idle, Away
  <1>3. KnownInOrder
    BY NoCommandAssumption DEF Init, KnownInOrder, Known, Idle, Away
  <1>4. IssuedBeforeRecorded
    BY DEF Init, IssuedBeforeRecorded, Idle, Away
  <1> QED
    BY <1>1, <1>2, <1>3, <1>4 DEF ManagerInv

\* What the EXCEPTs of the actions do to a caller's local state.
LEMMA CallerPc ==
    ASSUME NEW f \in [Callers -> Locals], NEW p \in Callers, NEW pc \in Pcs
    PROVE  [f EXCEPT ![p].pc = pc] \in [Callers -> Locals]
  BY DEF Locals

\* The same where the result to record is decided as well.
LEMMA CallerResult ==
    ASSUME NEW f \in [Callers -> Locals], NEW p \in Callers,
           NEW pc \in Pcs, NEW result \in Results
    PROVE  [f EXCEPT ![p].pc = pc, ![p].result = result] \in [Callers -> Locals]
  BY DEF Locals

\* The same where the observation has been used.
LEMMA CallerDecides ==
    ASSUME NEW f \in [Callers -> Locals], NEW p \in Callers,
           NEW pc \in Pcs, NEW result \in Results
    PROVE  [f EXCEPT ![p].pc = pc, ![p].seen = "absent", ![p].result = result]
                \in [Callers -> Locals]
  BY DEF Locals, States

LEMMA CallerActs ==
    ASSUME NEW f \in [Callers -> Locals], NEW p \in Callers, NEW pc \in Pcs
    PROVE  [f EXCEPT ![p].seen = "absent", ![p].pc = pc] \in [Callers -> Locals]
  BY DEF Locals, States

\* Every step of the manager, its callers and the Runtime keeps the types.
LEMMA TypeStep == ManagerInv /\ [Next]_vars => TypeOK'
  <1> SUFFICES ASSUME TypeOK, HoldsCommand, [Next]_vars PROVE TypeOK'
    BY DEF ManagerInv
  <1> USE DEF TypeOK, Pcs
  <1>1. ASSUME NEW p \in Callers, NEW c \in Commands, AppendDesired(p, c) PROVE TypeOK'
    BY <1>1 DEF AppendDesired, Locals
  <1>2. ASSUME NEW p \in Callers, AppendRequested(p) PROVE TypeOK'
    BY <1>2 DEF AppendRequested, Locals, HoldsCommand, Idle, States, Results
  <1>3. ASSUME NEW p \in Callers, Reconcile(p) PROVE TypeOK'
    BY <1>3, CallerPc DEF Reconcile
  <1>4. ASSUME NEW p \in Callers, ReadDesired(p) PROVE TypeOK'
    BY <1>4 DEF ReadDesired, Locals, HoldsCommand
  <1>5. ASSUME NEW p \in Callers, Observe(p) PROVE TypeOK'
    BY <1>5 DEF Observe, Locals, HoldsCommand
  <1>6. ASSUME NEW p \in Callers, DecideObserved(p) PROVE TypeOK'
    BY <1>6, CallerDecides DEF DecideObserved, Results
  <1>7. ASSUME NEW p \in Callers, DecideNotReissued(p) PROVE TypeOK'
    BY <1>7, CallerDecides DEF DecideNotReissued, Results
  <1>8. ASSUME NEW p \in Callers, DecideEffect(p) PROVE TypeOK'
    <2>1. PICK pc \in {"looking", "acted", "acting"} :
            caller' = [caller EXCEPT ![p].seen = "absent", ![p].pc = pc]
      BY <1>8 DEF DecideEffect
    <2>2. caller' \in [Callers -> Locals]
      BY <2>1, CallerActs
    <2>3. UNCHANGED <<desired, facts, runtime, issued, upsets>>
      BY <1>8 DEF DecideEffect
    <2> QED
      BY <2>2, <2>3
  <1>9. ASSUME NEW p \in Callers, LookBeforeStart(p) PROVE TypeOK'
    BY <1>9, CallerPc DEF LookBeforeStart
  <1>10. ASSUME NEW p \in Callers, Act(p) PROVE TypeOK'
    <2>1. caller[p].cmd \in Commands /\ caller' \in [Callers -> Locals]
      BY <1>10, CallerPc DEF Act, HoldsCommand
    <2>2. issued' \in [Commands -> Nat] /\ runtime' \in States
      BY <1>10, <2>1 DEF Act, Drive, Driven, States
    <2> QED
      BY <1>10, <2>1, <2>2 DEF Act
  <1>11. ASSUME NEW p \in Callers, ActRaises(p) PROVE TypeOK'
    <2>1. caller[p].cmd \in Commands
      BY <1>11 DEF ActRaises, HoldsCommand
    <2>2. caller' \in [Callers -> Locals]
      BY <1>11, CallerResult DEF ActRaises, Results
    <2>3. issued' \in [Commands -> Nat] /\ runtime' \in States
      <3>1. CASE UNCHANGED <<issued, runtime>>
        BY <3>1
      <3>2. CASE Drive(caller[p].cmd)
        BY <2>1, <3>2 DEF Drive, Driven, States
      <3> QED
        BY <1>11, <3>1, <3>2 DEF ActRaises
    <2> QED
      BY <1>11, <2>2, <2>3, BoundsAssumption DEF ActRaises, Upset
  <1>12. ASSUME NEW p \in Callers, ObserveEffect(p) PROVE TypeOK'
    <2>1. classify_reconciliation(caller[p].cmd, runtime) \in Results
      BY DEF classify_reconciliation, Results
    <2> QED
      BY <1>12, <2>1, CallerResult DEF ObserveEffect
  <1>13. ASSUME NEW p \in Callers, AppendResult(p) PROVE TypeOK'
    BY <1>13 DEF AppendResult, Locals, HoldsCommand, Idle, States, Results
  <1>14. ASSUME NEW p \in Callers, Crash(p) PROVE TypeOK'
    BY <1>14, BoundsAssumption DEF Crash, Locals, HoldsCommand, Idle, Upset, States, Results
  <1>15. CASE Drift
    BY <1>15, BoundsAssumption DEF Drift, Upset, States
  <1>16. CASE UNCHANGED vars
    BY <1>16 DEF vars
  <1> QED
    BY <1>1, <1>2, <1>3, <1>4, <1>5, <1>6, <1>7, <1>8, <1>9, <1>10, <1>11, <1>12, <1>13, <1>14, <1>15, <1>16 DEF Next, Step

\* Every step leaves the callers holding real commands.
LEMMA HoldsStep == ManagerInv /\ [Next]_vars => HoldsCommand'
  <1> SUFFICES ASSUME TypeOK, HoldsCommand, [Next]_vars PROVE HoldsCommand'
    BY DEF ManagerInv
  <1> USE DEF TypeOK, HoldsCommand, Locals, Pcs
  <1>1. ASSUME NEW p \in Callers, NEW c \in Commands, AppendDesired(p, c) PROVE HoldsCommand'
    BY <1>1, NoCommandAssumption DEF AppendDesired
  <1>2. ASSUME NEW p \in Callers, AppendRequested(p) PROVE HoldsCommand'
    BY <1>2 DEF AppendRequested, Idle
  <1>3. ASSUME NEW p \in Callers, Reconcile(p) PROVE HoldsCommand'
    BY <1>3 DEF Reconcile
  <1>4. ASSUME NEW p \in Callers, ReadDesired(p) PROVE HoldsCommand'
    BY <1>4 DEF ReadDesired
  <1>5. ASSUME NEW p \in Callers, Observe(p) PROVE HoldsCommand'
    BY <1>5 DEF Observe
  <1>6. ASSUME NEW p \in Callers, DecideObserved(p) PROVE HoldsCommand'
    BY <1>6 DEF DecideObserved
  <1>7. ASSUME NEW p \in Callers, DecideNotReissued(p) PROVE HoldsCommand'
    BY <1>7 DEF DecideNotReissued
  <1>8. ASSUME NEW p \in Callers, DecideEffect(p) PROVE HoldsCommand'
    BY <1>8 DEF DecideEffect
  <1>9. ASSUME NEW p \in Callers, LookBeforeStart(p) PROVE HoldsCommand'
    BY <1>9 DEF LookBeforeStart
  <1>10. ASSUME NEW p \in Callers, Act(p) PROVE HoldsCommand'
    BY <1>10 DEF Act
  <1>11. ASSUME NEW p \in Callers, ActRaises(p) PROVE HoldsCommand'
    BY <1>11 DEF ActRaises
  <1>12. ASSUME NEW p \in Callers, ObserveEffect(p) PROVE HoldsCommand'
    BY <1>12 DEF ObserveEffect
  <1>13. ASSUME NEW p \in Callers, AppendResult(p) PROVE HoldsCommand'
    BY <1>13 DEF AppendResult, Idle
  <1>14. ASSUME NEW p \in Callers, Crash(p) PROVE HoldsCommand'
    BY <1>14 DEF Crash, Idle
  <1>15. CASE Drift
    BY <1>15 DEF Drift
  <1>16. CASE UNCHANGED vars
    BY <1>16 DEF vars
  <1> QED
    BY <1>1, <1>2, <1>3, <1>4, <1>5, <1>6, <1>7, <1>8, <1>9, <1>10, <1>11, <1>12, <1>13, <1>14, <1>15, <1>16 DEF Next, Step

\* The elements of a sequence over a set are in the set.
LEMMA ElementInSet ==
    ASSUME NEW S, NEW q \in Seq(S), NEW i \in DOMAIN q
    PROVE  q[i] \in S
  OBVIOUS

\* Facts are about commands.
LEMMA FactCommands ==
    ASSUME TypeOK
    PROVE  \A i \in DOMAIN facts : facts[i].cmd \in Commands
  <1> SUFFICES ASSUME NEW i \in DOMAIN facts PROVE facts[i].cmd \in Commands
    OBVIOUS
  <1>1. facts \in Seq([cmd : Commands, result : Results])
    BY DEF TypeOK
  <1>2. facts[i] \in [cmd : Commands, result : Results]
    BY <1>1, ElementInSet
  <1> QED
    BY <1>2

\* A step that keeps the desired command and makes no command known keeps the
\* order of the known commands.
LEMMA SameKnown ==
    ASSUME KnownInOrder, desired' = desired, \A c \in Commands : Known(c)' => Known(c)
    PROVE  KnownInOrder'
  BY DEF KnownInOrder

\* Only append_desired makes a command known, and its generation is then above
\* those of all the others.
LEMMA KnownStep == ManagerInv /\ [Next]_vars => KnownInOrder'
  <1> SUFFICES ASSUME TypeOK, HoldsCommand, KnownInOrder, [Next]_vars PROVE KnownInOrder'
    BY DEF ManagerInv
  <1> DEFINE Same == desired' = desired /\ \A c \in Commands : Known(c)' => Known(c)
  <1>1. ASSUME NEW p \in Callers, NEW c \in Commands, AppendDesired(p, c) PROVE KnownInOrder'
    <2>1. desired' = c /\ \A d \in Commands : Known(d)' => Known(d) \/ d = c
      BY <1>1 DEF AppendDesired, Known, TypeOK, Locals
    <2>2. \A d \in Commands : Known(d) => d = c \/ Generation[d] < Generation[c]
      <3>1. CASE desired = NoCommand
        BY <3>1 DEF KnownInOrder
      <3>2. CASE desired = c
        <4>1. Known(c)
          BY <3>2 DEF Known
        <4> QED
          BY <3>2, <4>1, CommandsAssumption DEF KnownInOrder
      <3>3. CASE desired \notin {NoCommand, c}
        <4>1. desired \in Commands /\ Generation[desired] < Generation[c]
          BY <1>1, <3>3, CommandsAssumption DEF AppendDesired, Acceptable, TypeOK
        <4> QED
          BY <4>1, CommandsAssumption DEF KnownInOrder
      <3> QED
        BY <3>1, <3>2, <3>3
    <2> QED
      BY <2>1, <2>2, NoCommandAssumption, CommandsAssumption DEF KnownInOrder
  <1>2. ASSUME NEW p \in Callers, AppendRequested(p) PROVE Same
    BY <1>2, NoCommandAssumption DEF AppendRequested, Known, TypeOK, Locals, HoldsCommand, Idle
  <1>3. ASSUME NEW p \in Callers, Reconcile(p) PROVE Same
    BY <1>3 DEF Reconcile, Known, TypeOK, Locals
  <1>4. ASSUME NEW p \in Callers, ReadDesired(p) PROVE Same
    BY <1>4 DEF ReadDesired, Known, TypeOK, Locals
  <1>5. ASSUME NEW p \in Callers, Observe(p) PROVE Same
    BY <1>5 DEF Observe, Known, TypeOK, Locals
  <1>6. ASSUME NEW p \in Callers, DecideObserved(p) PROVE Same
    BY <1>6 DEF DecideObserved, Known, TypeOK, Locals
  <1>7. ASSUME NEW p \in Callers, DecideNotReissued(p) PROVE Same
    BY <1>7 DEF DecideNotReissued, Known, TypeOK, Locals
  <1>8. ASSUME NEW p \in Callers, DecideEffect(p) PROVE Same
    BY <1>8 DEF DecideEffect, Known, TypeOK, Locals
  <1>9. ASSUME NEW p \in Callers, LookBeforeStart(p) PROVE Same
    BY <1>9 DEF LookBeforeStart, Known, TypeOK, Locals
  <1>10. ASSUME NEW p \in Callers, Act(p) PROVE Same
    BY <1>10 DEF Act, Known, TypeOK, Locals, HoldsCommand, Drive
  <1>11. ASSUME NEW p \in Callers, ActRaises(p) PROVE Same
    BY <1>11 DEF ActRaises, Known, TypeOK, Locals, HoldsCommand, Drive
  <1>12. ASSUME NEW p \in Callers, ObserveEffect(p) PROVE Same
    BY <1>12 DEF ObserveEffect, Known, TypeOK, Locals
  <1>13. ASSUME NEW p \in Callers, AppendResult(p) PROVE Same
    BY <1>13, NoCommandAssumption DEF AppendResult, Known, TypeOK, Locals, HoldsCommand, Idle
  <1>14. ASSUME NEW p \in Callers, Crash(p) PROVE Same
    BY <1>14, NoCommandAssumption DEF Crash, Known, TypeOK, Locals, Idle
  <1>15. Drift => Same
    BY DEF Drift, Known
  <1>16. UNCHANGED vars => Same
    BY DEF vars, Known
  <1>17. Same => KnownInOrder'
    BY SameKnown
  <1> HIDE DEF Same
  <1> QED
    BY <1>1, <1>2, <1>3, <1>4, <1>5, <1>6, <1>7, <1>8, <1>9, <1>10, <1>11, <1>12, <1>13, <1>14, <1>15, <1>16, <1>17 DEF Next, Step

\* A replacement reaches the facts only through the driver.
LEMMA IssuedStep == ManagerInv /\ [Next]_vars => IssuedBeforeRecorded'
  <1> SUFFICES ASSUME TypeOK, HoldsCommand, IssuedBeforeRecorded, [Next]_vars
               PROVE  IssuedBeforeRecorded'
    BY DEF ManagerInv
  <1> USE DEF TypeOK, Locals, IssuedBeforeRecorded
  <1>1. ASSUME NEW p \in Callers, NEW c \in Commands, AppendDesired(p, c)
        PROVE  IssuedBeforeRecorded'
    BY <1>1 DEF AppendDesired
  <1>2. ASSUME NEW p \in Callers, AppendRequested(p) PROVE IssuedBeforeRecorded'
    BY <1>2 DEF AppendRequested, Idle
  <1>3. ASSUME NEW p \in Callers, Reconcile(p) PROVE IssuedBeforeRecorded'
    BY <1>3 DEF Reconcile
  <1>4. ASSUME NEW p \in Callers, ReadDesired(p) PROVE IssuedBeforeRecorded'
    BY <1>4 DEF ReadDesired
  <1>5. ASSUME NEW p \in Callers, Observe(p) PROVE IssuedBeforeRecorded'
    BY <1>5 DEF Observe
  <1>6. ASSUME NEW p \in Callers, DecideObserved(p) PROVE IssuedBeforeRecorded'
    BY <1>6 DEF DecideObserved, Settled, AlreadyIssued
  <1>7. ASSUME NEW p \in Callers, DecideNotReissued(p) PROVE IssuedBeforeRecorded'
    BY <1>7 DEF DecideNotReissued
  <1>8. ASSUME NEW p \in Callers, DecideEffect(p) PROVE IssuedBeforeRecorded'
    BY <1>8 DEF DecideEffect
  <1>9. ASSUME NEW p \in Callers, LookBeforeStart(p) PROVE IssuedBeforeRecorded'
    BY <1>9 DEF LookBeforeStart
  <1>10. ASSUME NEW p \in Callers, Act(p) PROVE IssuedBeforeRecorded'
    BY <1>10 DEF Act, Drive, HoldsCommand
  <1>11. ASSUME NEW p \in Callers, ActRaises(p) PROVE IssuedBeforeRecorded'
    <2>1. \A c \in Commands : issued[c] > 0 => issued'[c] > 0
      BY <1>11 DEF ActRaises, Drive, HoldsCommand
    <2>2. \A q \in Callers : caller'[q] = caller[q]
                          \/ (caller'[q].pc = "recording" /\ caller'[q].result = "RECOVERY_REQUIRED")
      BY <1>11 DEF ActRaises
    <2>3. facts' = facts
      BY <1>11 DEF ActRaises
    <2>4. \A i \in DOMAIN facts : facts[i].cmd \in Commands
      BY FactCommands
    <2>5. \A q \in Callers : caller[q].pc \in {"acted", "recording"} => caller[q].cmd \in Commands
      BY DEF HoldsCommand
    <2> HIDE DEF TypeOK, Locals
    <2>6. \A i \in DOMAIN facts' : (IssuedBeforeRecorded!2!(i))'
      BY <2>1, <2>3, <2>4
    <2>7. \A q \in Callers : (IssuedBeforeRecorded!1!(q))'
      BY <2>1, <2>2, <2>5
    <2> QED
      BY <2>6, <2>7
  <1>12. ASSUME NEW p \in Callers, ObserveEffect(p) PROVE IssuedBeforeRecorded'
    BY <1>12 DEF ObserveEffect
  <1>13. ASSUME NEW p \in Callers, AppendResult(p) PROVE IssuedBeforeRecorded'
    <2>1. issued' = issued /\ \A q \in Callers : caller'[q] = caller[q] \/ caller'[q].pc = "idle"
      BY <1>13 DEF AppendResult, Idle
    <2>2. \A i \in DOMAIN facts' :
            \/ i \in DOMAIN facts /\ facts'[i] = facts[i]
            \/ facts'[i] = [cmd |-> caller[p].cmd, result |-> caller[p].result]
      BY <1>13 DEF AppendResult, HoldsCommand
    <2>3. caller[p].pc = "recording"
      BY <1>13 DEF AppendResult
    <2> HIDE DEF TypeOK, Locals
    <2>4. \A i \in DOMAIN facts' : (IssuedBeforeRecorded!2!(i))'
      BY <2>1, <2>2, <2>3
    <2>5. \A q \in Callers : (IssuedBeforeRecorded!1!(q))'
      BY <2>1
    <2> QED
      BY <2>4, <2>5
  <1>14. ASSUME NEW p \in Callers, Crash(p) PROVE IssuedBeforeRecorded'
    BY <1>14 DEF Crash, Idle
  <1>15. CASE Drift
    BY <1>15 DEF Drift
  <1>16. CASE UNCHANGED vars
    BY <1>16 DEF vars
  <1> QED
    BY <1>1, <1>2, <1>3, <1>4, <1>5, <1>6, <1>7, <1>8, <1>9, <1>10, <1>11, <1>12, <1>13, <1>14, <1>15, <1>16 DEF Next, Step

\* The invariant holds in every reachable state.
LEMMA ManagerInvariant == Spec => []ManagerInv
  <1>1. ManagerInv /\ [Next]_vars => ManagerInv'
    BY TypeStep, HoldsStep, KnownStep, IssuedStep DEF ManagerInv
  <1> QED
    BY InitInv, <1>1, PTL DEF Spec

\* Intent before effect: the manager never drives the Runtime for a command
\* that is ahead of the desired one it has persisted.
THEOREM IntentPrecedesEffect == Spec => []IntentBeforeEffect
  <1>1. ManagerInv => IntentBeforeEffect
    BY DEF ManagerInv, KnownInOrder, Known, IntentBeforeEffect
  <1> QED
    BY ManagerInvariant, <1>1, PTL

\* A generation of desired state belongs to one command for ever, whoever asks
\* and whatever is replayed or interrupted.
THEOREM GenerationsAreUnique == Spec => []OneCommandPerGeneration
  <1>1. ManagerInv => OneCommandPerGeneration
    <2> SUFFICES ASSUME ManagerInv PROVE OneCommandPerGeneration
      OBVIOUS
    <2>1. \A i \in DOMAIN facts : facts[i].cmd \in Commands /\ Known(facts[i].cmd)
      <3>1. \A i \in DOMAIN facts : facts[i].cmd \in Commands
        BY FactCommands DEF ManagerInv
      <3> QED
        BY <3>1 DEF Known
    <2> QED
      BY <2>1 DEF ManagerInv, KnownInOrder, OneCommandPerGeneration
  <1> QED
    BY ManagerInvariant, <1>1, PTL

\* A Runtime is reported as replaced only after the driver was asked for it.
THEOREM ReplacementsAreIssued == Spec => []ReplacementWasIssued
  <1>1. ManagerInv => ReplacementWasIssued
    BY DEF ManagerInv, IssuedBeforeRecorded, ReplacementWasIssued
  <1> QED
    BY ManagerInvariant, <1>1, PTL

-----------------------------------------------------------------------------
(* A caller on its own does not repeat an ambiguous effect.                *)

Busy == {"intending", "observing", "deciding", "looking", "acting", "acted", "recording"}

\* The command has an ambiguous result, and was not requested again since.
StillAmbiguous(c) == AmbiguousUpTo(c, {"APPLIED", "OBSERVED", "REQUESTED"})

\* For a caller p on its own: what it holds is desired; if anything is recorded
\* about the desired command, the last fact is; and once it has decided to act,
\* the command is not ambiguous.
LoneHolds(p) == caller[p].pc \in Busy => caller[p].cmd = desired
LastIsDesired ==
    \A i \in DOMAIN facts : facts[i].cmd = desired => facts[Len(facts)].cmd = desired
LoneDecided(p) == caller[p].pc \in {"looking", "acting"} => ~StillAmbiguous(caller[p].cmd)

LoneInv == \A p \in Callers : Lone(p) => LoneHolds(p) /\ LastIsDesired /\ LoneDecided(p)

\* A caller that takes a step is not away, before or after it.
LEMMA StepIsNotAway ==
    ASSUME TypeOK, NEW q \in Callers, Step(q)
    PROVE  /\ caller[q].pc # "away" /\ caller'[q].pc # "away"
           /\ \A r \in Callers \ {q} : caller'[r] = caller[r]
  <1> USE DEF TypeOK
  <1>1. ASSUME NEW c \in Commands, AppendDesired(q, c)
        PROVE  /\ caller[q].pc # "away" /\ caller'[q].pc # "away"
               /\ \A r \in Callers \ {q} : caller'[r] = caller[r]
    BY <1>1 DEF AppendDesired, Locals
  <1>2. CASE AppendRequested(q) \/ Reconcile(q) \/ ReadDesired(q) \/ Observe(q)
    BY <1>2 DEF AppendRequested, Reconcile, ReadDesired, Observe, Locals, Idle
  <1>3. CASE DecideObserved(q) \/ DecideNotReissued(q)
    BY <1>3 DEF DecideObserved, DecideNotReissued, Locals
  <1>4. CASE DecideEffect(q)
    BY <1>4 DEF DecideEffect, Locals
  <1>5. CASE LookBeforeStart(q) \/ Act(q) \/ ActRaises(q) \/ ObserveEffect(q)
    BY <1>5 DEF LookBeforeStart, Act, ActRaises, ObserveEffect, Locals
  <1>6. CASE AppendResult(q) \/ Crash(q)
    BY <1>6 DEF AppendResult, Crash, Locals, Idle
  <1> QED
    BY <1>1, <1>2, <1>3, <1>4, <1>5, <1>6 DEF Step

\* Whoever is alone after a step was alone before it, and took it.
LEMMA LoneActor ==
    ASSUME TypeOK, NEW p \in Callers, NEW q \in Callers, Step(q), Lone(p)' \/ Lone(p)
    PROVE  q = p /\ Lone(p)
  BY StepIsNotAway DEF Lone

\* If the command is still ambiguous and the last fact is about it, then the last
\* fact is ambiguous.
LEMMA AmbiguousLast ==
    ASSUME TypeOK, LastIsDesired, StillAmbiguous(desired)
    PROVE  LastIsAmbiguous
  <1>1. PICK i \in DOMAIN facts :
            /\ facts[i].cmd = desired
            /\ \A j \in i .. Len(facts) :
                facts[j].cmd = desired => facts[j].result \notin {"APPLIED", "OBSERVED", "REQUESTED"}
    BY DEF StillAmbiguous, AmbiguousUpTo
  <1>2. facts \in Seq([cmd : Commands, result : Results])
    BY DEF TypeOK
  <1>3. facts # << >> /\ Len(facts) \in i .. Len(facts) /\ Len(facts) \in DOMAIN facts
    BY <1>2
  <1>4. facts[Len(facts)] \in [cmd : Commands, result : Results]
    BY <1>2, <1>3, ElementInSet
  <1>5. facts[Len(facts)].result \in Results \ {"APPLIED", "OBSERVED", "REQUESTED"}
    BY <1>1, <1>3, <1>4 DEF LastIsDesired
  <1> QED
    BY <1>3, <1>5 DEF LastIsAmbiguous, AMBIGUOUS_COMMAND_RESULTS, Results

\* A command that becomes desired has no facts yet.
LEMMA NewCommandHasNoFacts ==
    ASSUME ManagerInv, NEW p \in Callers, NEW c \in Commands, AppendDesired(p, c), c # desired
    PROVE  \A i \in DOMAIN facts : facts[i].cmd # c
  <1> SUFFICES ASSUME NEW i \in DOMAIN facts, facts[i].cmd = c PROVE FALSE
    OBVIOUS
  <1>1. desired # NoCommand /\ Generation[c] <= Generation[desired]
    BY DEF Known, ManagerInv, KnownInOrder
  <1>2. Generation[c] > Generation[desired]
    BY <1>1 DEF AppendDesired, Acceptable
  <1>3. desired \in Commands
    BY <1>1 DEF ManagerInv, TypeOK
  <1>4. Generation[c] \in Nat /\ Generation[desired] \in Nat
    BY <1>3, CommandsAssumption
  <1> QED
    BY <1>1, <1>2, <1>4

\* A fact about the desired command goes to the end.
LEMMA AppendKeepsLast ==
    ASSUME TypeOK, NEW f, f.cmd = desired, facts' = Append(facts, f), desired' = desired
    PROVE  LastIsDesired'
  <1>1. Len(facts') = Len(facts) + 1 /\ facts'[Len(facts) + 1] = f
    BY DEF TypeOK
  <1> QED
    BY <1>1 DEF LastIsDesired

\* Every step of a caller on its own keeps what is claimed of it.
LEMMA LoneStep ==
    ASSUME ManagerInv, LoneInv, [Next]_vars, NEW p \in Callers, Lone(p)'
    PROVE  LoneHolds(p)' /\ LastIsDesired' /\ LoneDecided(p)'
  <1> USE DEF ManagerInv
  <1> DEFINE Goal == LoneHolds(p)' /\ LastIsDesired' /\ LoneDecided(p)'
  <1>1. ASSUME Step(p), Lone(p) PROVE Goal
    <2>0. LoneHolds(p) /\ LastIsDesired /\ LoneDecided(p) /\ caller \in [Callers -> Locals]
      BY <1>1 DEF LoneInv, TypeOK
    <2>1. ASSUME NEW c \in Commands, AppendDesired(p, c) PROVE Goal
      <3>1. /\ desired' = c /\ facts' = facts
            /\ caller'[p].pc = "intending" /\ caller'[p].cmd = c
        BY <2>0, <2>1 DEF AppendDesired, Locals
      <3>2. LastIsDesired'
        BY <2>0, <2>1, <3>1, NewCommandHasNoFacts DEF LastIsDesired
      <3> QED
        BY <3>1, <3>2 DEF LoneHolds, LoneDecided
    <2>2. CASE AppendRequested(p)
      <3>1. /\ facts' = Append(facts, [cmd |-> desired, result |-> "REQUESTED"])
            /\ desired' = desired /\ caller'[p].pc = "reconciling"
        BY <2>0, <2>2 DEF AppendRequested, Locals, Idle, LoneHolds, Busy
      <3>2. LastIsDesired'
        BY <3>1, AppendKeepsLast
      <3> QED
        BY <3>1, <3>2 DEF LoneHolds, LoneDecided, Busy
    <2>3. CASE AppendResult(p)
      <3>1. /\ facts' = Append(facts, [cmd |-> desired, result |-> caller[p].result])
            /\ desired' = desired /\ caller'[p].pc = "idle"
        BY <2>0, <2>3 DEF AppendResult, Locals, Idle, LoneHolds, Busy
      <3>2. LastIsDesired'
        BY <3>1, AppendKeepsLast
      <3> QED
        BY <3>1, <3>2 DEF LoneHolds, LoneDecided, Busy
    <2>4. ASSUME facts' = facts, desired' = desired,
                 \/ caller'[p].pc \notin Busy
                 \/ /\ caller'[p].cmd = caller[p].cmd /\ caller[p].pc \in Busy
                    /\ \/ caller'[p].pc \notin {"looking", "acting"}
                       \/ caller[p].pc \in {"looking", "acting"}
                 \/ caller'[p].cmd = desired /\ caller'[p].pc = "observing"
          PROVE  Goal
      <3>1. LastIsDesired'
        BY <2>0, <2>4 DEF LastIsDesired
      <3>2. LoneHolds(p)'
        BY <2>0, <2>4 DEF LoneHolds
      <3>3. \A c \in Commands \union {NoCommand} : StillAmbiguous(c)' <=> StillAmbiguous(c)
        BY <2>4 DEF StillAmbiguous, AmbiguousUpTo
      <3>4. LoneDecided(p)'
        <4>1. CASE caller'[p].pc \in {"looking", "acting"}
          <5>1. caller'[p].cmd = caller[p].cmd /\ caller[p].pc \in {"looking", "acting"}
            BY <2>4, <4>1 DEF Busy
          <5>2. caller[p].cmd \in Commands \union {NoCommand}
            BY <2>0 DEF Locals
          <5> QED
            BY <2>0, <3>3, <5>1, <5>2 DEF LoneDecided
        <4> QED
          BY <4>1 DEF LoneDecided
      <3> QED
        BY <3>1, <3>2, <3>4
    <2>5. CASE Reconcile(p) \/ ReadDesired(p) \/ Observe(p) \/ DecideObserved(p) \/ DecideNotReissued(p)
      BY <2>0, <2>4, <2>5 DEF Reconcile, ReadDesired, Observe, DecideObserved, DecideNotReissued, Locals, Busy
    <2>6. CASE LookBeforeStart(p) \/ Act(p) \/ ActRaises(p) \/ ObserveEffect(p) \/ Crash(p)
      BY <2>0, <2>4, <2>6 DEF LookBeforeStart, Act, ActRaises, ObserveEffect, Crash, Locals, Busy, Idle
    <2>7. CASE DecideEffect(p)
      <3>1. /\ facts' = facts /\ desired' = desired
            /\ caller[p].cmd = desired /\ caller'[p].cmd = caller[p].cmd
        BY <2>0, <2>7 DEF DecideEffect, LoneHolds, Busy, Locals
      <3>2. ~StillAmbiguous(desired)
        BY <2>0, <2>7, AmbiguousLast DEF DecideEffect
      <3>3. ~StillAmbiguous(desired)'
        BY <3>1, <3>2 DEF StillAmbiguous, AmbiguousUpTo
      <3>4. LastIsDesired'
        BY <2>0, <3>1 DEF LastIsDesired
      <3> QED
        BY <3>1, <3>3, <3>4 DEF LoneHolds, LoneDecided
    <2> QED
      BY <1>1, <2>1, <2>2, <2>3, <2>5, <2>6, <2>7 DEF Step
  <1>2. ASSUME UNCHANGED <<desired, facts, caller>> PROVE Goal
    BY <1>2 DEF LoneInv, Lone, LoneHolds, LastIsDesired, LoneDecided, StillAmbiguous, AmbiguousUpTo
  <1>3. CASE Drift \/ UNCHANGED vars
    BY <1>2, <1>3 DEF Drift, vars
  <1>4. CASE \E q \in Callers : Step(q)
    BY <1>1, <1>4, LoneActor
  <1> QED
    BY <1>3, <1>4 DEF Next

LEMMA LoneInvariant == Spec => []LoneInv
  <1>1. Init => LoneInv
    BY DEF Init, LoneInv, LoneHolds, LastIsDesired, LoneDecided, Idle, Away, Busy
  <1>2. ManagerInv /\ LoneInv /\ [Next]_vars => LoneInv'
    BY LoneStep DEF LoneInv
  <1> QED
    BY ManagerInvariant, <1>1, <1>2, PTL DEF Spec

\* What is issued while one caller is on its own is the command it decided on.
LEMMA LoneIssues ==
    ASSUME TypeOK, [Next]_vars, NEW c \in Commands, NEW p \in Callers,
           Lone(p), issued'[c] # issued[c]
    PROVE  caller[p].pc \in {"looking", "acting"} /\ caller[p].cmd = c
  <1>1. CASE issued' = issued
    BY <1>1
  <1>2. CASE Step(p)
    <2>1. CASE Act(p) \/ ActRaises(p)
      <3>1. caller[p].pc \in {"looking", "acting"} /\ (issued' = issued \/ Drive(caller[p].cmd))
        BY <2>1 DEF Act, ActRaises
      <3> QED
        BY <3>1 DEF Drive, TypeOK
    <2>2. CASE ~(Act(p) \/ ActRaises(p))
      BY <1>1, <1>2, <2>2 DEF Step, AppendDesired, AppendRequested, Reconcile, ReadDesired, Observe,
          DecideObserved, DecideNotReissued, DecideEffect, LookBeforeStart, ObserveEffect,
          AppendResult, Crash
    <2> QED
      BY <2>1, <2>2
  <1>3. CASE Drift \/ UNCHANGED vars
    BY <1>1, <1>3 DEF Drift, vars
  <1>4. CASE \E q \in Callers : Step(q)
    BY <1>2, <1>4, LoneActor
  <1> QED
    BY <1>3, <1>4 DEF Next

\* reconcile, run by one caller, never repeats an effect whose result is
\* ambiguous, unless the command is requested again.
THEOREM AmbiguousEffectsAreRecovered == Spec => AmbiguousIsRecovered
  <1>1. ASSUME ManagerInv, LoneInv, [Next]_vars, NEW c \in Commands, NEW p \in Callers,
               Lone(p), StillAmbiguous(c)
        PROVE  issued'[c] = issued[c]
    BY <1>1, LoneIssues DEF LoneInv, LoneDecided, ManagerInv
  <1>2. ManagerInv /\ LoneInv /\ [Next]_vars =>
            [\A c \in Commands, p \in Callers :
                Lone(p) /\ AmbiguousUpTo(c, {"APPLIED", "OBSERVED", "REQUESTED"})
                    => issued'[c] = issued[c]]_vars
    BY <1>1 DEF StillAmbiguous
  <1> QED
    BY ManagerInvariant, LoneInvariant, <1>2, PTL DEF Spec, AmbiguousIsRecovered

\* Without a second caller no command is issued after another one replaced it,
\* over crashes between append_desired and the facts about it.
THEOREM LoneCallersAreCurrent == Spec => LoneCallerIsCurrent
  <1>1. ASSUME ManagerInv, LoneInv, [Next]_vars, NEW c \in Commands, NEW p \in Callers,
               Lone(p), issued'[c] # issued[c]
        PROVE  desired = c
    BY <1>1, LoneIssues DEF LoneInv, LoneHolds, Busy, ManagerInv
  <1>2. ManagerInv /\ LoneInv /\ [Next]_vars =>
            [\A c \in Commands, p \in Callers :
                Lone(p) /\ issued'[c] # issued[c] => desired = c]_vars
    BY <1>1
  <1> QED
    BY ManagerInvariant, LoneInvariant, <1>2, PTL DEF Spec, LoneCallerIsCurrent

=============================================================================
