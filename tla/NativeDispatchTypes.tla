-------------------------- MODULE NativeDispatchTypes --------------------------
(* Type correctness of NativeDispatch, for any number of commands and        *)
(* processes, any assignment of worker ids and any bounds.                   *)
EXTENDS NativeDispatch, FiniteSetTheorems, SequenceTheorems, TLAPS

-----------------------------------------------------------------------------
(* Type correctness                                                          *)

ProcTyped ==
    /\ proc \in [Procs -> Locals]
    /\ \A p \in Procs : proc[p].pc \in Working => proc[p].cmd \in Commands

\* Replacing the local state of one process by another well-typed one.
LEMMA LocalTyped ==
    ASSUME TypeOK, NEW p \in Procs, NEW l \in Locals,
           l.pc \in Working => l.cmd \in Commands,
           proc' = [proc EXCEPT ![p] = l]
    PROVE  ProcTyped'
<1>1. proc' \in [Procs -> Locals]
  BY DEF TypeOK
<1>2. ASSUME NEW q \in Procs, proc'[q].pc \in Working
      PROVE  proc'[q].cmd \in Commands
  BY <1>2 DEF TypeOK
<1>3. QED
  BY <1>1, <1>2 DEF ProcTyped

\* Leaving run_once, or moving on within it, keeps the processes well-typed.
LEMMA ReturnTyped ==
    ASSUME TypeOK, NEW p \in Procs, Return(p)
    PROVE  ProcTyped'
<1>1. Idle \in Locals /\ Idle.pc \notin Working
  BY DEF Idle, Locals, Polling, Working
<1>2. QED
  BY <1>1, LocalTyped DEF Return

LEMMA GotoTyped ==
    ASSUME TypeOK, NEW p \in Procs, NEW pc \in Polling \union Working, Goto(p, pc),
           pc \in Working => proc[p].cmd \in Commands
    PROVE  ProcTyped'
<1> DEFINE l == [proc[p] EXCEPT !.pc = pc]
<1>1. proc[p] \in Locals
  BY DEF TypeOK
<1>2. l \in Locals /\ l.pc = pc /\ l.cmd = proc[p].cmd
  BY <1>1 DEF Locals
<1>3. proc' = [proc EXCEPT ![p] = l]
  BY DEF Goto
<1> HIDE DEF l
<1>4. QED
  BY <1>2, <1>3, LocalTyped

\* The journal only grows by facts of the known kinds.
LEMMA FactTyped ==
    ASSUME TypeOK, NEW c \in Commands, NEW k \in FactKinds, Fact(c, k)
    PROVE  facts' \in [Commands -> Seq(FactKinds)]
BY AppendProperties DEF TypeOK, Fact

LEMMA UpsetTyped ==
    ASSUME TypeOK, NEW u, Upset(u)
    PROVE  upsets' \in 0 .. MaxUpsets
BY BoundsAssumption DEF TypeOK, Upset

\* The ordinal that stands for effect_started_at is a number.
LEMMA StartedTyped ==
    Cardinality(StartedEffects) + 1 \in Nat
<1>1. IsFiniteSet(StartedEffects)
  BY CommandsAssumption, FS_Subset DEF StartedEffects
<1>2. QED
  BY <1>1, FS_CardinalityType

\* A claim as the process holds it when run_once hands it to run_claim.
LEMMA ClaimTyped ==
    ASSUME NEW c \in Commands, NEW g \in Nat
    PROVE  LET l == [Idle EXCEPT !.pc = "claimed", !.cmd = c, !.gen = g]
           IN  l \in Locals /\ l.pc = "claimed" /\ l.cmd = c /\ l.gen = g
BY DEF Idle, Locals, Working

\* A step that only moves a process.
LEMMA ProcessOnly ==
    ASSUME TypeOK, ProcTyped', UNCHANGED <<db, kubernetes, runtime, upsets>>
    PROVE  TypeOK'
BY DEF TypeOK, ProcTyped, db, kubernetes, runtime

\* Steps of run_once: looking for a claim.
LEMMA PollTyped ==
    ASSUME TypeOK, NEW p \in Procs,
           \/ ResumeEffectStarted(p) \/ NothingToResume(p)
           \/ ClaimNext(p) \/ NothingToClaim(p)
    PROVE  TypeOK'
<1>1. CASE ResumeEffectStarted(p)
  <2>1. PICK d \in Commands : proc' = [proc EXCEPT ![p] =
            [Idle EXCEPT !.pc = "claimed", !.cmd = d, !.gen = row[d].gen]]
    BY <1>1 DEF ResumeEffectStarted
  <2>2. row[d].gen \in Nat
    BY DEF TypeOK, Rows
  <2>3. ProcTyped'
    BY <2>1, <2>2, ClaimTyped, LocalTyped
  <2>4. QED
    BY <1>1, <2>3, ProcessOnly DEF ResumeEffectStarted
<1>2. CASE NothingToResume(p)
  <2>1. ProcTyped'
    BY <1>2, GotoTyped DEF NothingToResume, Polling, Working
  <2>2. QED
    BY <1>2, <2>1, ProcessOnly DEF NothingToResume
<1>3. CASE ClaimNext(p)
  <2>1. PICK d \in Commands :
          /\ row' = [row EXCEPT ![d].state = "CLAIMED", ![d].gen = NextGen(d),
                                ![d].worker = WorkerId[p], ![d].expired = FALSE]
          /\ Fact(d, "CLAIMED") \/ UNCHANGED facts
          /\ proc' = [proc EXCEPT ![p] = [Idle EXCEPT !.pc = "claimed", !.cmd = d,
                                                      !.gen = NextGen(d)]]
    BY <1>3 DEF ClaimNext
  <2>2. NextGen(d) \in Nat
    BY DEF TypeOK, Rows, NextGen
  <2>3. ProcTyped'
    BY <2>1, <2>2, ClaimTyped, LocalTyped
  <2>4. facts' \in [Commands -> Seq(FactKinds)]
    BY <2>1, FactTyped DEF FactKinds, TypeOK
  <2>5. row' \in [Commands -> Rows]
    <3> DEFINE r == [row[d] EXCEPT !.state = "CLAIMED", !.gen = NextGen(d),
                                   !.worker = WorkerId[p], !.expired = FALSE]
    <3>1. row[d] \in Rows /\ WorkerId[p] \in Nat
      BY WorkerIdAssumption DEF TypeOK
    <3>2. r \in Rows
      BY <2>2, <3>1 DEF Rows, States
    <3>3. row' = [row EXCEPT ![d] = r]
      BY <2>1
    <3> HIDE DEF r
    <3>4. QED
      BY <3>2, <3>3 DEF TypeOK
  <2>6. QED
    BY <1>3, <2>3, <2>4, <2>5 DEF ClaimNext, TypeOK, ProcTyped, kubernetes, runtime
<1>4. CASE NothingToClaim(p)
  <2>1. ProcTyped'
    BY <1>4, ReturnTyped DEF NothingToClaim
  <2>2. QED
    BY <1>4, <2>1, ProcessOnly DEF NothingToClaim
<1>5. QED
  BY <1>1, <1>2, <1>3, <1>4

\* Steps of run_claim up to the linearization point.
LEMMA PermitTyped ==
    ASSUME TypeOK, NEW p \in Procs,
           ReadClock(p) \/ PermitReplayed(p) \/ PermitEffect(p) \/ PermitRefused(p)
    PROVE  TypeOK'
<1> DEFINE c == proc[p].cmd
<1>0. proc[p] \in Locals /\ (proc[p].pc \in Working => c \in Commands)
  BY DEF TypeOK
<1>1. CASE ReadClock(p)
  <2>1. PICK now \in BOOLEAN :
            proc' = [proc EXCEPT ![p].pc = "permitting", ![p].fresh = now]
    BY <1>1 DEF ReadClock
  <2> DEFINE l == [proc[p] EXCEPT !.pc = "permitting", !.fresh = now]
  <2>2. l \in Locals /\ l.cmd = c /\ c \in Commands
    BY <1>0, <1>1 DEF ReadClock, Locals, Working
  <2>3. proc' = [proc EXCEPT ![p] = l]
    BY <2>1
  <2> HIDE DEF l
  <2>4. ProcTyped'
    BY <2>2, <2>3, LocalTyped
  <2>5. QED
    BY <1>1, <2>4, ProcessOnly DEF ReadClock
<1>2. CASE PermitReplayed(p)
  <2>1. c \in Commands /\ Goto(p, "observing")
    BY <1>0, <1>2 DEF PermitReplayed, Working
  <2>2. ProcTyped'
    BY <2>1, GotoTyped DEF Working
  <2>3. QED
    BY <1>2, <2>2, ProcessOnly DEF PermitReplayed
<1>3. CASE PermitEffect(p)
  <2>1. /\ c \in Commands
        /\ Goto(p, "permitted")
        /\ Fact(c, "EFFECT_STARTED")
    BY <1>0, <1>3 DEF PermitEffect, Working
  <2>2. ProcTyped'
    BY <2>1, GotoTyped DEF Working
  <2>3. facts' \in [Commands -> Seq(FactKinds)]
    BY <2>1, FactTyped DEF FactKinds
  <2>4. row' \in [Commands -> Rows]
    <3> DEFINE n == Cardinality(StartedEffects) + 1
               r == [row[c] EXCEPT !.state = "EFFECT_STARTED", !.expired = FALSE,
                                   !.started = n]
    <3>1. row' = [row EXCEPT ![c] = r]
      BY <1>3 DEF PermitEffect
    <3>2. n \in Nat /\ row[c] \in Rows
      BY <2>1, StartedTyped DEF TypeOK
    <3> HIDE DEF n
    <3>3. r \in Rows
      BY <3>2 DEF Rows, States
    <3> HIDE DEF r
    <3>4. QED
      BY <3>1, <3>3 DEF TypeOK
  <2>5. attempt' \in [Commands -> AttemptStates]
    BY <1>3 DEF PermitEffect, TypeOK, AttemptStates
  <2>6. QED
    BY <1>3, <2>2, <2>3, <2>4, <2>5 DEF PermitEffect, TypeOK, ProcTyped, kubernetes, runtime
<1>4. CASE PermitRefused(p)
  <2>1. ProcTyped'
    BY <1>4, ReturnTyped DEF PermitRefused
  <2>2. QED
    BY <1>4, <2>1, ProcessOnly DEF PermitRefused
<1>5. QED
  BY <1>1, <1>2, <1>3, <1>4

\* What create() leaves under the Task's name is a Task.
LEMMA ApplyCreateTyped ==
    ASSUME TypeOK, NEW p \in Procs, NEW c \in Commands, ApplyCreate(p, c)
    PROVE  /\ task' \in [Commands -> Tasks]
           /\ objects' \in [Commands -> Nat]
           /\ CreatedTask(p, c).uid \in Nat
<1>1. proc[p].gen \in Nat /\ objects[c] \in Nat /\ task[c] \in Tasks
  BY DEF TypeOK, Locals
<1>2. CreatedTask(p, c) \in Tasks
  BY <1>1 DEF CreatedTask, Tasks, Phases
<1>3. QED
  BY <1>1, <1>2 DEF ApplyCreate, TypeOK, Tasks

\* Steps of run_claim that create and correlate the Task.
LEMMA CreateTyped ==
    ASSUME TypeOK, NEW p \in Procs,
           \/ CreateTask(p) \/ CreateConflict(p) \/ CreateLost(p) \/ CreateWithoutUid(p)
           \/ RecordCorrelation(p) \/ CorrelationRefused(p)
    PROVE  TypeOK'
<1> DEFINE c == proc[p].cmd
<1>0. proc[p] \in Locals /\ (proc[p].pc \in Working => c \in Commands)
  BY DEF TypeOK
<1>1. CASE CreateTask(p)
  <2> DEFINE u == CreatedTask(p, c).uid
             l == [proc[p] EXCEPT !.pc = "created", !.uid = u]
  <2>1. /\ c \in Commands
        /\ ApplyCreate(p, c)
        /\ proc' = [proc EXCEPT ![p].pc = "created", ![p].uid = u]
    BY <1>0, <1>1 DEF CreateTask, Working
  <2>2. proc' = [proc EXCEPT ![p] = l]
    BY <2>1
  <2>3. u \in Nat /\ task' \in [Commands -> Tasks] /\ objects' \in [Commands -> Nat]
    BY <2>1, ApplyCreateTyped
  <2> HIDE DEF u
  <2>4. l \in Locals /\ l.cmd = c
    BY <1>0, <2>3 DEF Locals, Working
  <2> HIDE DEF l
  <2>5. ProcTyped'
    BY <2>1, <2>2, <2>4, LocalTyped
  <2>6. QED
    BY <1>1, <2>3, <2>5 DEF CreateTask, TypeOK, ProcTyped, db, runtime
<1>2. CASE CreateConflict(p)
  <2>1. ProcTyped'
    BY <1>2, ReturnTyped DEF CreateConflict
  <2>2. QED
    BY <1>2, <2>1, ProcessOnly DEF CreateConflict
<1>3. CASE CreateLost(p)
  <2>1. c \in Commands /\ ApplyCreate(p, c) /\ Upset("lost") /\ Return(p)
    BY <1>0, <1>3 DEF CreateLost, Working
  <2>2. ProcTyped' /\ upsets' \in 0 .. MaxUpsets
    BY <2>1, ReturnTyped, UpsetTyped
  <2>3. task' \in [Commands -> Tasks] /\ objects' \in [Commands -> Nat]
    BY <2>1, ApplyCreateTyped
  <2>4. QED
    BY <1>3, <2>2, <2>3 DEF CreateLost, TypeOK, ProcTyped, db, runtime
<1>4. CASE CreateWithoutUid(p)
  <2> DEFINE l == [proc[p] EXCEPT !.pc = "finishing", !.kind = "RECOVERY_REQUIRED"]
  <2>1. c \in Commands /\ ApplyCreate(p, c) /\ Upset("nouid")
    BY <1>0, <1>4 DEF CreateWithoutUid, Working
  <2>2. proc' = [proc EXCEPT ![p] = l]
    BY <1>4 DEF CreateWithoutUid
  <2>3. l \in Locals /\ l.cmd = c
    BY <1>0 DEF Locals, Working, Terminal, Uncertain
  <2> HIDE DEF l
  <2>4. ProcTyped' /\ upsets' \in 0 .. MaxUpsets
    BY <2>1, <2>2, <2>3, LocalTyped, UpsetTyped
  <2>5. task' \in [Commands -> Tasks] /\ objects' \in [Commands -> Nat]
    BY <2>1, ApplyCreateTyped
  <2>6. QED
    BY <1>4, <2>4, <2>5 DEF CreateWithoutUid, TypeOK, ProcTyped, db, runtime
<1>5. CASE RecordCorrelation(p)
  <2>1. c \in Commands /\ Goto(p, "correlated")
    BY <1>0, <1>5 DEF RecordCorrelation, Working
  <2>2. ProcTyped'
    BY <2>1, GotoTyped DEF Working
  <2>3. facts' \in [Commands -> Seq(FactKinds)]
    <3>1. CASE Fact(c, "CORRELATED")
      BY <2>1, <3>1, FactTyped DEF FactKinds
    <3>2. CASE UNCHANGED facts
      BY <3>2 DEF TypeOK
    <3>3. QED
      BY <1>5, <3>1, <3>2 DEF RecordCorrelation
  <2>4. row' \in [Commands -> Rows]
    <3> DEFINE r == [row[c] EXCEPT !.uid = proc[p].uid]
    <3>1. row' = [row EXCEPT ![c] = r]
      BY <1>5 DEF RecordCorrelation
    <3>2. proc[p].uid \in Nat /\ row[c] \in Rows
      BY <1>0, <2>1 DEF Locals, TypeOK
    <3>3. r \in Rows
      BY <3>2 DEF Rows
    <3> HIDE DEF r
    <3>4. QED
      BY <3>1, <3>3 DEF TypeOK
  <2>5. QED
    BY <1>5, <2>2, <2>3, <2>4 DEF RecordCorrelation, TypeOK, ProcTyped, kubernetes, runtime
<1>6. CASE CorrelationRefused(p)
  <2>1. ProcTyped'
    BY <1>6, ReturnTyped DEF CorrelationRefused
  <2>2. QED
    BY <1>6, <2>1, ProcessOnly DEF CorrelationRefused
<1>7. QED
  BY <1>1, <1>2, <1>3, <1>4, <1>5, <1>6

\* A new phase for the Task leaves it a Task.
LEMMA PhaseTyped ==
    ASSUME TypeOK, NEW c \in Commands, NEW ph \in Phases,
           task' = [task EXCEPT ![c].phase = ph]
    PROVE  task' \in [Commands -> Tasks]
<1> DEFINE t == [task[c] EXCEPT !.phase = ph]
<1>1. task[c] \in Tasks
  BY DEF TypeOK
<1>2. t \in Tasks
  BY <1>1 DEF Tasks
<1>3. task' = [task EXCEPT ![c] = t]
  OBVIOUS
<1> HIDE DEF t
<1>4. QED
  BY <1>2, <1>3 DEF TypeOK

\* Steps of run_claim that call the Runtime and patch the Task.
LEMMA InvokeTyped ==
    ASSUME TypeOK, NEW p \in Procs,
           PatchRunning(p) \/ Invoke(p) \/ PatchTerminal(p) \/ PatchNotFound(p)
    PROVE  TypeOK'
<1> DEFINE c == proc[p].cmd
<1>0. proc[p] \in Locals /\ (proc[p].pc \in Working => c \in Commands)
  BY DEF TypeOK
<1>1. CASE PatchRunning(p)
  <2>1. /\ c \in Commands
        /\ Goto(p, "running")
        /\ task' = [task EXCEPT ![c].phase = "Running"]
    BY <1>0, <1>1 DEF PatchRunning, Working
  <2>2. ProcTyped'
    BY <2>1, GotoTyped DEF Working
  <2>3. task' \in [Commands -> Tasks]
    BY <2>1, PhaseTyped DEF Phases
  <2>4. QED
    BY <1>1, <2>2, <2>3 DEF PatchRunning, TypeOK, ProcTyped, db, runtime
<1>2. CASE Invoke(p)
  <2>1. PICK a \in Answers :
          /\ answer' = [answer EXCEPT ![c] = a]
          /\ proc' = [proc EXCEPT ![p].pc = IF a = "lost" THEN "finishing" ELSE "answered",
                                  ![p].kind = IF a = "lost" THEN "UNKNOWN" ELSE a]
    BY <1>2 DEF Invoke
  <2> DEFINE pc == IF a = "lost" THEN "finishing" ELSE "answered"
             k == IF a = "lost" THEN "UNKNOWN" ELSE a
             l == [proc[p] EXCEPT !.pc = pc, !.kind = k]
  <2>2. a \in AllAnswers /\ c \in Commands /\ invoked' = [invoked EXCEPT ![c] = @ + 1]
    BY <1>0, <1>2, AnswersAssumption DEF Invoke, Working
  <2>3. proc' = [proc EXCEPT ![p] = l]
    BY <2>1
  <2>4. pc \in Working /\ k \in AllAnswers \union Terminal
    BY <2>2 DEF Working, Terminal, Uncertain
  <2> HIDE DEF pc, k
  <2>5. l \in Locals /\ l.cmd = c
    BY <1>0, <2>4 DEF Locals
  <2> HIDE DEF l
  <2>6. ProcTyped'
    BY <2>2, <2>3, <2>5, LocalTyped
  <2>7. invoked' \in [Commands -> Nat] /\ answer' \in [Commands -> AllAnswers \union {"none"}]
    BY <2>1, <2>2 DEF TypeOK
  <2>8. QED
    BY <1>2, <2>6, <2>7 DEF Invoke, TypeOK, ProcTyped, db, kubernetes
<1>3. CASE PatchTerminal(p)
  <2>1. /\ c \in Commands
        /\ Goto(p, "observing")
        /\ task' = [task EXCEPT ![c].phase = PhaseOf(proc[p].kind)]
    BY <1>0, <1>3 DEF PatchTerminal, Working
  <2>2. ProcTyped'
    BY <2>1, GotoTyped DEF Working
  <2>3. PhaseOf(proc[p].kind) \in Phases
    BY DEF PhaseOf, Phases
  <2>4. task' \in [Commands -> Tasks]
    BY <2>1, <2>3, PhaseTyped
  <2>5. QED
    BY <1>3, <2>2, <2>4 DEF PatchTerminal, TypeOK, ProcTyped, db, runtime
<1>4. CASE PatchNotFound(p)
  <2>1. ProcTyped'
    BY <1>4, ReturnTyped DEF PatchNotFound
  <2>2. QED
    BY <1>4, <2>1, ProcessOnly DEF PatchNotFound
<1>5. QED
  BY <1>1, <1>2, <1>3, <1>4

\* A row that is closed with a result stays a row.
LEMMA CloseTyped ==
    ASSUME TypeOK, NEW c \in Commands, NEW k \in Terminal,
           row' = [row EXCEPT ![c].state = k],
           attempt' = [attempt EXCEPT ![c] = k],
           Fact(c, k)
    PROVE  /\ row' \in [Commands -> Rows]
           /\ attempt' \in [Commands -> AttemptStates]
           /\ facts' \in [Commands -> Seq(FactKinds)]
<1> DEFINE r == [row[c] EXCEPT !.state = k]
<1>1. row[c] \in Rows /\ k \in States /\ k \in AttemptStates /\ k \in FactKinds
  BY DEF TypeOK, States, AttemptStates, FactKinds
<1>2. r \in Rows
  BY <1>1 DEF Rows
<1>3. row' = [row EXCEPT ![c] = r]
  OBVIOUS
<1> HIDE DEF r
<1>4. row \in [Commands -> Rows] /\ attempt \in [Commands -> AttemptStates]
  BY DEF TypeOK
<1>5. row' \in [Commands -> Rows]
  BY <1>2, <1>3, <1>4
<1>6. attempt' \in [Commands -> AttemptStates]
  BY <1>1, <1>4
<1>7. facts' \in [Commands -> Seq(FactKinds)]
  BY <1>1, FactTyped
<1>8. QED
  BY <1>5, <1>6, <1>7

\* Steps of run_claim that observe the Task and record what they saw.
LEMMA RecordTyped ==
    ASSUME TypeOK, NEW p \in Procs,
           \/ Observe(p) \/ ObserveRefused(p)
           \/ RecordUncertain(p) \/ RecordCompletion(p) \/ RecordRefused(p)
    PROVE  TypeOK'
<1> DEFINE c == proc[p].cmd
<1>0. proc[p] \in Locals /\ (proc[p].pc \in Working => c \in Commands)
  BY DEF TypeOK
<1>1. CASE Observe(p)
  <2> DEFINE k == ObservedKind(task[c])
             l == [proc[p] EXCEPT !.pc = "finishing", !.uid = task[c].uid, !.kind = k]
  <2>1. c \in Commands /\ proc' = [proc EXCEPT ![p].pc = "finishing", ![p].uid = task[c].uid,
                                             ![p].kind = k]
    BY <1>0, <1>1 DEF Observe, Working
  <2>2. proc' = [proc EXCEPT ![p] = l]
    BY <2>1
  <2>3. k \in Terminal /\ task[c].uid \in Nat
    BY <2>1 DEF ObservedKind, Terminal, Known, Uncertain, TypeOK, Tasks
  <2> HIDE DEF k
  <2>4. l \in Locals /\ l.cmd = c
    BY <1>0, <2>3 DEF Locals, Working
  <2> HIDE DEF l
  <2>5. ProcTyped'
    BY <2>1, <2>2, <2>4, LocalTyped
  <2>6. QED
    BY <1>1, <2>5, ProcessOnly DEF Observe
<1>2. CASE ObserveRefused(p)
  <2>1. ProcTyped'
    BY <1>2, ReturnTyped DEF ObserveRefused
  <2>2. QED
    BY <1>2, <2>1, ProcessOnly DEF ObserveRefused
<1>3. CASE RecordUncertain(p)
  <2>1. c \in Commands /\ proc[p].kind \in Terminal /\ Return(p)
    BY <1>0, <1>3 DEF RecordUncertain, Working, Terminal
  <2>2. ProcTyped'
    BY <2>1, ReturnTyped
  <2>3. /\ row' \in [Commands -> Rows]
        /\ attempt' \in [Commands -> AttemptStates]
        /\ facts' \in [Commands -> Seq(FactKinds)]
    BY <1>3, <2>1, CloseTyped DEF RecordUncertain
  <2>4. QED
    BY <1>3, <2>2, <2>3 DEF RecordUncertain, TypeOK, ProcTyped, kubernetes, runtime
<1>4. CASE RecordCompletion(p)
  <2>1. /\ c \in Commands
        /\ proc[p].kind \in Known
        /\ proc[p].kind \in Terminal
        /\ Return(p)
    BY <1>0, <1>4 DEF RecordCompletion, Working, Terminal
  <2>2. ProcTyped'
    BY <2>1, ReturnTyped
  <2>3. /\ row' \in [Commands -> Rows]
        /\ attempt' \in [Commands -> AttemptStates]
        /\ facts' \in [Commands -> Seq(FactKinds)]
    BY <1>4, <2>1, CloseTyped DEF RecordCompletion
  <2>4. outcome' \in [Commands -> Known \union {"none"}]
    BY <1>4, <2>1 DEF RecordCompletion, TypeOK
  <2>5. QED
    BY <1>4, <2>2, <2>3, <2>4 DEF RecordCompletion, TypeOK, ProcTyped, kubernetes, runtime
<1>5. CASE RecordRefused(p)
  <2>1. ProcTyped'
    BY <1>5, ReturnTyped DEF RecordRefused
  <2>2. QED
    BY <1>5, <2>1, ProcessOnly DEF RecordRefused
<1>6. QED
  BY <1>1, <1>2, <1>3, <1>4, <1>5

\* Exceptions, deaths and restarts of a process.
LEMMA FailureTyped ==
    ASSUME TypeOK, NEW p \in Procs, Abort(p) \/ Crash(p) \/ Restart(p)
    PROVE  TypeOK'
<1>1. CASE Abort(p)
  <2>1. ProcTyped' /\ upsets' \in 0 .. MaxUpsets
    BY <1>1, ReturnTyped, UpsetTyped DEF Abort
  <2>2. QED
    BY <1>1, <2>1 DEF Abort, TypeOK, ProcTyped, db, kubernetes, runtime
<1>2. CASE Crash(p)
  <2> DEFINE l == [Idle EXCEPT !.pc = "down"]
  <2>1. l \in Locals /\ l.pc \notin Working
    BY DEF Idle, Locals, Polling, Working
  <2>2. proc' = [proc EXCEPT ![p] = l] /\ Upset("crash")
    BY <1>2 DEF Crash
  <2> HIDE DEF l
  <2>3. ProcTyped' /\ upsets' \in 0 .. MaxUpsets
    BY <2>1, <2>2, LocalTyped, UpsetTyped
  <2>4. QED
    BY <1>2, <2>3 DEF Crash, TypeOK, ProcTyped, db, kubernetes, runtime
<1>3. CASE Restart(p)
  <2>1. ProcTyped'
    BY <1>3, ReturnTyped DEF Restart
  <2>2. QED
    BY <1>3, <2>1, ProcessOnly DEF Restart
<1>4. QED
  BY <1>1, <1>2, <1>3

\* What others do to the rows, the Attempt and the Task.
LEMMA EnvironmentTyped ==
    ASSUME TypeOK, NEW c \in Commands, Environment(c)
    PROVE  TypeOK'
<1>0. row[c] \in Rows
  BY DEF TypeOK
<1>1. CASE Enqueue(c)
  <2> DEFINE r == [row[c] EXCEPT !.state = "QUEUED"]
  <2>1. r \in Rows
    BY <1>0 DEF Rows, States
  <2>2. row' = [row EXCEPT ![c] = r] /\ Fact(c, "QUEUED")
    BY <1>1 DEF Enqueue
  <2> HIDE DEF r
  <2>3. row' \in [Commands -> Rows] /\ facts' \in [Commands -> Seq(FactKinds)]
    BY <2>1, <2>2, FactTyped DEF TypeOK, FactKinds
  <2>4. QED
    BY <1>1, <2>3 DEF Enqueue, TypeOK, kubernetes, runtime
<1>2. CASE LeaseExpires(c)
  <2> DEFINE r == [row[c] EXCEPT !.expired = TRUE]
  <2>1. r \in Rows
    BY <1>0 DEF Rows
  <2>2. row' = [row EXCEPT ![c] = r]
    BY <1>2 DEF LeaseExpires
  <2> HIDE DEF r
  <2>3. row' \in [Commands -> Rows]
    BY <2>1, <2>2 DEF TypeOK
  <2>4. upsets' \in 0 .. MaxUpsets
    BY <1>2, UpsetTyped DEF LeaseExpires, TypeOK
  <2>5. QED
    BY <1>2, <2>3, <2>4 DEF LeaseExpires, TypeOK, kubernetes, runtime
<1>3. CASE DeleteTask(c)
  <2>1. NoTask \in Tasks
    BY DEF NoTask, Tasks, Phases
  <2>2. task' \in [Commands -> Tasks] /\ upsets' \in 0 .. MaxUpsets
    BY <1>3, <2>1, UpsetTyped DEF DeleteTask, TypeOK
  <2>3. QED
    BY <1>3, <2>2 DEF DeleteTask, TypeOK, db, runtime
<1>4. CASE ForeignTask(c)
  <2> DEFINE t == [uid |-> objects[c] + 1, gen |-> 0, phase |-> "none"]
  <2>1. objects[c] \in Nat
    BY DEF TypeOK
  <2>2. t \in Tasks
    BY <2>1 DEF Tasks, Phases
  <2>3. task' = [task EXCEPT ![c] = t]
    BY <1>4 DEF ForeignTask
  <2> HIDE DEF t
  <2>4. /\ task' \in [Commands -> Tasks]
        /\ objects' \in [Commands -> Nat]
        /\ upsets' \in 0 .. MaxUpsets
    BY <1>4, <2>2, <2>3, UpsetTyped DEF ForeignTask, TypeOK
  <2>5. QED
    BY <1>4, <2>4 DEF ForeignTask, TypeOK, db, runtime
<1>5. CASE Withdraw(c)
  <2>1. authority' \in [Commands -> SUBSET {"binding", "grant"}]
    BY <1>5 DEF Withdraw, TypeOK
  <2>2. upsets' \in 0 .. MaxUpsets
    BY <1>5, UpsetTyped DEF Withdraw
  <2>3. QED
    BY <1>5, <2>1, <2>2 DEF Withdraw, TypeOK, kubernetes, runtime
<1>6. CASE Intervene(c)
  <2>1. PICK s \in AttemptTransitions(attempt[c]) \union
                   (IF attempt[c] \in ImmutableAttempt THEN {}
                    ELSE {"CANCELLATION_PENDING", "SUCCEEDED", "FAILED", "CANCELLED"}) :
            attempt' = [attempt EXCEPT ![c] = s]
    BY <1>6 DEF Intervene
  <2>2. s \in AttemptStates
    BY DEF AttemptTransitions, AttemptStates, Terminal, Known, Uncertain
  <2>3. attempt' \in [Commands -> AttemptStates] /\ upsets' \in 0 .. MaxUpsets
    BY <1>6, <2>1, <2>2, UpsetTyped DEF Intervene, TypeOK
  <2>4. QED
    BY <1>6, <2>3 DEF Intervene, TypeOK, kubernetes, runtime
<1>7. CASE Regrant(c)
  <2>1. authority' \in [Commands -> SUBSET {"binding", "grant"}]
    BY <1>7 DEF Regrant, TypeOK
  <2>2. QED
    BY <1>7, <2>1 DEF Regrant, TypeOK, kubernetes, runtime
<1>8. QED
  BY <1>1, <1>2, <1>3, <1>4, <1>5, <1>6, <1>7 DEF Environment

LEMMA InitTyped == Init => TypeOK
<1> SUFFICES ASSUME Init PROVE TypeOK
  OBVIOUS
<1>1. row \in [Commands -> Rows]
  BY DEF Init, Rows, States
<1>2. proc \in [Procs -> Locals] /\ \A p \in Procs : proc[p].pc \notin Working
  BY DEF Init, Idle, Locals, Polling, Working
<1>3. task \in [Commands -> Tasks]
  BY DEF Init, NoTask, Tasks, Phases
<1>4. facts \in [Commands -> Seq(FactKinds)]
  BY DEF Init
<1>5. QED
  BY <1>1, <1>2, <1>3, <1>4, BoundsAssumption DEF Init, TypeOK, AttemptStates

LEMMA NextTyped == TypeOK /\ [Next]_vars => TypeOK'
<1> SUFFICES ASSUME TypeOK, [Next]_vars PROVE TypeOK'
  OBVIOUS
<1>1. ASSUME NEW p \in Procs, Step(p) PROVE TypeOK'
  BY <1>1, PollTyped, PermitTyped, CreateTyped, InvokeTyped, RecordTyped DEF Step
<1>2. ASSUME NEW p \in Procs, Fault(p) \/ Restart(p) PROVE TypeOK'
  BY <1>2, CreateTyped, FailureTyped DEF Fault
<1>3. ASSUME NEW c \in Commands, Environment(c) PROVE TypeOK'
  BY <1>3, EnvironmentTyped
<1>4. CASE UNCHANGED vars
  BY <1>4 DEF TypeOK, vars, db, kubernetes, runtime
<1>5. QED
  BY <1>1, <1>2, <1>3, <1>4 DEF Next

\* Every variable keeps its type: rows, journal, Attempt, Task and worker
\* processes hold only the states the code defines.
THEOREM TypeCorrect == Spec => []TypeOK
<1>1. Init => TypeOK
  BY InitTyped
<1>2. TypeOK /\ [Next]_vars => TypeOK'
  BY NextTyped
<1>3. QED
  BY <1>1, <1>2, PTL DEF Spec
=============================================================================
