------------------------ MODULE NativeDispatchResults ------------------------
(* The results recorded for a command are the Runtime's answers, for any     *)
(* number of commands and processes, any worker ids and any bounds.          *)
EXTENDS NativeDispatchProofs

-----------------------------------------------------------------------------
(* Recorded results are the Runtime's answers                                *)

\* The inductive invariant behind OutcomeIsTheAnswer: no answer before the
\* request, and every place on the way from the answer to the row (the worker's
\* memory, the Task's phase, the observation) agrees with it.
ResultInv ==
    /\ \A c \in Commands : invoked[c] = 0 => answer[c] = "none"
    /\ \A c \in Commands :
        /\ task[c].phase = "Succeeded" => answer[c] = "ok"
        /\ task[c].phase = "Failed" => answer[c] = "error"
    /\ \A p \in Procs : proc[p].pc = "answered" =>
        proc[p].kind \in {"ok", "unusable", "error"} /\ answer[proc[p].cmd] = proc[p].kind
    /\ \A p \in Procs : proc[p].pc = "finishing" =>
        /\ proc[p].kind = "SUCCEEDED" => answer[proc[p].cmd] = "ok"
        /\ proc[p].kind = "FAILED" => answer[proc[p].cmd] = "error"
    /\ OutcomeIsTheAnswer

\* No process comes to hold an answer or a known result.
NoNewResult ==
    \A p \in Procs : proc'[p].pc \in {"answered", "finishing"} =>
        \/ proc'[p] = proc[p]
        \/ proc'[p].pc = "finishing" /\ proc'[p].kind \in Uncertain

\* No row gets or loses a known result.
SameKnownRows ==
    \A c \in Commands :
        \/ row'[c].state = row[c].state
        \/ row[c].state \notin Known /\ row'[c].state \notin Known

\* No Task gets a terminal phase.
NoNewPhase ==
    \A c \in Commands : task'[c].phase \in {"none", "Running", task[c].phase}

\* A step that moves no result further.
Neutral ==
    /\ UNCHANGED <<runtime, outcome>>
    /\ NoNewResult
    /\ SameKnownRows
    /\ NoNewPhase

LEMMA NeutralKeepsResult ==
    ASSUME TypeOK, ResultInv, Neutral
    PROVE  ResultInv'
<1>1. UNCHANGED <<invoked, answer, outcome>>
  BY DEF Neutral, runtime
<1>2. \A c \in Commands :
        /\ task'[c].phase = "Succeeded" => answer'[c] = "ok"
        /\ task'[c].phase = "Failed" => answer'[c] = "error"
  BY <1>1 DEF Neutral, NoNewResult, NoNewPhase, ResultInv
<1>3. \A p \in Procs : proc'[p].pc = "answered" =>
        proc'[p].kind \in {"ok", "unusable", "error"} /\ answer'[proc'[p].cmd] = proc'[p].kind
  BY <1>1 DEF Neutral, NoNewResult, NoNewPhase, ResultInv
<1>4. \A p \in Procs : proc'[p].pc = "finishing" =>
        /\ proc'[p].kind = "SUCCEEDED" => answer'[proc'[p].cmd] = "ok"
        /\ proc'[p].kind = "FAILED" => answer'[proc'[p].cmd] = "error"
  BY <1>1 DEF Neutral, NoNewResult, ResultInv, Uncertain
<1>5. OutcomeIsTheAnswer'
  BY <1>1 DEF Neutral, SameKnownRows, ResultInv, OutcomeIsTheAnswer, Known
<1>6. QED
  BY <1>1, <1>2, <1>3, <1>4, <1>5 DEF ResultInv

\* Moving a process to a place without a result is neutral for the processes.
LEMMA LocalNeutral ==
    ASSUME TypeOK, NEW p \in Procs, NEW l, proc' = [proc EXCEPT ![p] = l],
           \/ l.pc \notin {"answered", "finishing"}
           \/ l.pc = "finishing" /\ l.kind \in Uncertain
    PROVE  NoNewResult
BY DEF TypeOK, NoNewResult

LEMMA ReturnNeutral ==
    ASSUME TypeOK, NEW p \in Procs, Return(p)
    PROVE  NoNewResult
<1>1. Idle.pc \notin {"answered", "finishing"}
  BY DEF Idle
<1>2. QED
  BY <1>1, LocalNeutral DEF Return

LEMMA GotoNeutral ==
    ASSUME TypeOK, NEW p \in Procs, NEW pc, pc \notin {"answered", "finishing"}, Goto(p, pc)
    PROVE  NoNewResult
<1> DEFINE l == [proc[p] EXCEPT !.pc = pc]
<1>1. l.pc = pc
  BY DEF TypeOK, Locals
<1>2. proc' = [proc EXCEPT ![p] = l]
  BY DEF Goto
<1> HIDE DEF l
<1>3. QED
  BY <1>1, <1>2, LocalNeutral

LEMMA PollNeutral ==
    ASSUME TypeOK, NEW p \in Procs,
           \/ ResumeEffectStarted(p) \/ NothingToResume(p)
           \/ ClaimNext(p) \/ NothingToClaim(p)
    PROVE  Neutral
<1>1. CASE ResumeEffectStarted(p)
  <2>1. PICK d \in Commands : proc' = [proc EXCEPT ![p] =
            [Idle EXCEPT !.pc = "claimed", !.cmd = d, !.gen = row[d].gen]]
    BY <1>1 DEF ResumeEffectStarted
  <2>2. [Idle EXCEPT !.pc = "claimed", !.cmd = d, !.gen = row[d].gen].pc = "claimed"
    BY DEF Idle
  <2>3. QED
    BY <1>1, <2>1, <2>2, LocalNeutral DEF ResumeEffectStarted, Neutral, SameKnownRows, NoNewPhase, db, kubernetes
<1>2. CASE NothingToResume(p)
  BY <1>2, GotoNeutral DEF NothingToResume, Neutral, SameKnownRows, NoNewPhase, db, kubernetes
<1>3. CASE ClaimNext(p)
  <2>1. PICK d \in Commands :
          /\ Claimable(d)
          /\ row' = [row EXCEPT ![d].state = "CLAIMED", ![d].gen = NextGen(d),
                                ![d].worker = WorkerId[p], ![d].expired = FALSE]
          /\ proc' = [proc EXCEPT ![p] = [Idle EXCEPT !.pc = "claimed", !.cmd = d,
                                                      !.gen = NextGen(d)]]
    BY <1>3 DEF ClaimNext
  <2>2. [Idle EXCEPT !.pc = "claimed", !.cmd = d, !.gen = NextGen(d)].pc = "claimed"
    BY DEF Idle
  <2>3. row'[d].state = "CLAIMED" /\ \A c \in Commands \ {d} : row'[c] = row[c]
    BY <2>1 DEF TypeOK, Rows
  <2>4. SameKnownRows
    BY <2>1, <2>3 DEF Claimable, Known, SameKnownRows
  <2>5. QED
    BY <1>3, <2>1, <2>2, <2>4, LocalNeutral DEF ClaimNext, Neutral, NoNewPhase, kubernetes
<1>4. CASE NothingToClaim(p)
  BY <1>4, ReturnNeutral DEF NothingToClaim, Neutral, SameKnownRows, NoNewPhase, db, kubernetes
<1>5. QED
  BY <1>1, <1>2, <1>3, <1>4

LEMMA PermitNeutral ==
    ASSUME TypeOK, NEW p \in Procs,
           ReadClock(p) \/ PermitReplayed(p) \/ PermitEffect(p) \/ PermitRefused(p)
    PROVE  Neutral
<1>1. CASE ReadClock(p)
  <2>1. PICK now \in BOOLEAN :
            proc' = [proc EXCEPT ![p].pc = "permitting", ![p].fresh = now]
    BY <1>1 DEF ReadClock
  <2> DEFINE l == [proc[p] EXCEPT !.pc = "permitting", !.fresh = now]
  <2>2. l.pc = "permitting"
    BY DEF TypeOK, Locals
  <2>3. proc' = [proc EXCEPT ![p] = l]
    BY <2>1
  <2> HIDE DEF l
  <2>4. QED
    BY <1>1, <2>2, <2>3, LocalNeutral DEF ReadClock, Neutral, SameKnownRows, NoNewPhase, db, kubernetes
<1>2. CASE PermitReplayed(p)
  BY <1>2, GotoNeutral DEF PermitReplayed, Neutral, SameKnownRows, NoNewPhase, db, kubernetes
<1>3. CASE PermitEffect(p)
  <2>1. SameKnownRows
    BY <1>3, PermitEffectDoes DEF Permitted, Known, SameKnownRows
  <2>2. Goto(p, "permitted") /\ UNCHANGED <<outcome, kubernetes, runtime>>
    BY <1>3 DEF PermitEffect
  <2>3. QED
    BY <2>1, <2>2, GotoNeutral DEF Neutral, NoNewPhase, kubernetes
<1>4. CASE PermitRefused(p)
  BY <1>4, ReturnNeutral DEF PermitRefused, Neutral, SameKnownRows, NoNewPhase, db, kubernetes
<1>5. QED
  BY <1>1, <1>2, <1>3, <1>4

\* create() gives no Task a terminal phase.
LEMMA ApplyCreateNeutral ==
    ASSUME TypeOK, NEW p \in Procs, NEW c \in Commands, ApplyCreate(p, c)
    PROVE  NoNewPhase
<1>1. CreatedTask(p, c).phase \in {"none", task[c].phase}
  BY DEF CreatedTask
<1>2. QED
  BY <1>1 DEF ApplyCreate, TypeOK, NoNewPhase

LEMMA CreateNeutral ==
    ASSUME TypeOK, NEW p \in Procs,
           \/ CreateTask(p) \/ CreateConflict(p) \/ CreateLost(p) \/ CreateWithoutUid(p)
           \/ RecordCorrelation(p) \/ CorrelationRefused(p)
    PROVE  Neutral
<1> DEFINE c == proc[p].cmd
<1>0. proc[p] \in Locals /\ (proc[p].pc \in Working => c \in Commands)
  BY DEF TypeOK
<1>1. CASE CreateTask(p)
  <2> DEFINE u == CreatedTask(p, c).uid
             l == [proc[p] EXCEPT !.pc = "created", !.uid = u]
  <2>1. c \in Commands /\ proc' = [proc EXCEPT ![p].pc = "created", ![p].uid = u]
    BY <1>0, <1>1 DEF CreateTask, Working
  <2>2. NoNewPhase
    BY <1>1, <2>1, ApplyCreateNeutral DEF CreateTask
  <2> HIDE DEF u
  <2>3. l.pc = "created"
    BY <1>0 DEF Locals
  <2>4. proc' = [proc EXCEPT ![p] = l]
    BY <2>1
  <2> HIDE DEF l
  <2>5. QED
    BY <1>1, <2>2, <2>3, <2>4, LocalNeutral DEF CreateTask, Neutral, SameKnownRows, db
<1>2. CASE CreateConflict(p)
  BY <1>2, ReturnNeutral DEF CreateConflict, Neutral, SameKnownRows, NoNewPhase, db, kubernetes
<1>3. CASE CreateLost(p)
  <2>1. NoNewPhase
    BY <1>0, <1>3, ApplyCreateNeutral DEF CreateLost, Working
  <2>2. QED
    BY <1>3, <2>1, ReturnNeutral DEF CreateLost, Neutral, SameKnownRows, db
<1>4. CASE CreateWithoutUid(p)
  <2> DEFINE l == [proc[p] EXCEPT !.pc = "finishing", !.kind = "RECOVERY_REQUIRED"]
  <2>1. l.pc = "finishing" /\ l.kind \in Uncertain
    BY <1>0 DEF Locals, Uncertain
  <2>2. proc' = [proc EXCEPT ![p] = l]
    BY <1>4 DEF CreateWithoutUid
  <2> HIDE DEF l
  <2>3. NoNewPhase
    BY <1>0, <1>4, ApplyCreateNeutral DEF CreateWithoutUid, Working
  <2>4. QED
    BY <1>4, <2>1, <2>2, <2>3, LocalNeutral DEF CreateWithoutUid, Neutral, SameKnownRows, db
<1>5. CASE RecordCorrelation(p)
  <2>1. SameKnownRows
    BY <1>5 DEF RecordCorrelation, TypeOK, Rows, SameKnownRows
  <2>2. QED
    BY <1>5, <2>1, GotoNeutral DEF RecordCorrelation, Neutral, NoNewPhase, kubernetes
<1>6. CASE CorrelationRefused(p)
  BY <1>6, ReturnNeutral DEF CorrelationRefused, Neutral, SameKnownRows, NoNewPhase, db, kubernetes
<1>7. QED
  BY <1>1, <1>2, <1>3, <1>4, <1>5, <1>6

LEMMA PatchNeutral ==
    ASSUME TypeOK, NEW p \in Procs, PatchRunning(p) \/ PatchNotFound(p)
    PROVE  Neutral
<1>1. CASE PatchRunning(p)
  <2>1. NoNewPhase
    BY <1>1 DEF PatchRunning, NoNewPhase, TypeOK, Tasks
  <2>2. QED
    BY <1>1, <2>1, GotoNeutral DEF PatchRunning, Neutral, SameKnownRows, db
<1>2. CASE PatchNotFound(p)
  BY <1>2, ReturnNeutral DEF PatchNotFound, Neutral, SameKnownRows, NoNewPhase, db, kubernetes
<1>3. QED
  BY <1>1, <1>2

LEMMA RecordNeutral ==
    ASSUME TypeOK, NEW p \in Procs,
           ObserveRefused(p) \/ RecordUncertain(p) \/ RecordRefused(p)
    PROVE  Neutral
<1>1. CASE ObserveRefused(p)
  BY <1>1, ReturnNeutral DEF ObserveRefused, Neutral, SameKnownRows, NoNewPhase, db, kubernetes
<1>2. CASE RecordUncertain(p)
  <2> DEFINE c == proc[p].cmd
  <2>1. /\ row' = [row EXCEPT ![c].state = proc[p].kind]
        /\ row[c].state = "EFFECT_STARTED"
        /\ proc[p].kind \in Uncertain
    BY <1>2 DEF RecordUncertain, Recordable
  <2>2. \A d \in Commands : row'[d].state = IF d = c THEN proc[p].kind ELSE row[d].state
    BY <2>1 DEF TypeOK, Rows
  <2>3. SameKnownRows
    BY <2>1, <2>2 DEF SameKnownRows, Known, Uncertain
  <2>4. QED
    BY <1>2, <2>3, ReturnNeutral DEF RecordUncertain, Neutral, NoNewPhase, kubernetes
<1>3. CASE RecordRefused(p)
  BY <1>3, ReturnNeutral DEF RecordRefused, Neutral, SameKnownRows, NoNewPhase, db, kubernetes
<1>4. QED
  BY <1>1, <1>2, <1>3

LEMMA FailureNeutral ==
    ASSUME TypeOK, NEW p \in Procs, Abort(p) \/ Crash(p) \/ Restart(p)
    PROVE  Neutral
<1>1. NoNewResult
  <2>1. [Idle EXCEPT !.pc = "down"].pc \notin {"answered", "finishing"}
    BY DEF Idle
  <2>2. QED
    BY <2>1, LocalNeutral, ReturnNeutral DEF Abort, Crash, Restart
<1>2. QED
  BY <1>1 DEF Abort, Crash, Restart, Neutral, SameKnownRows, NoNewPhase, db, kubernetes

LEMMA EnvironmentNeutral ==
    ASSUME TypeOK, NEW c \in Commands, Environment(c)
    PROVE  Neutral
<1>0. NoNewResult /\ UNCHANGED <<runtime, outcome>>
  BY DEF Environment, Enqueue, LeaseExpires, DeleteTask, ForeignTask, Withdraw, Regrant,
         Intervene, NoNewResult, db
<1>1. CASE Enqueue(c) \/ LeaseExpires(c)
  <2>1. CASE Enqueue(c)
    <3>1. \A d \in Commands : row'[d].state = IF d = c THEN "QUEUED" ELSE row[d].state
      BY <2>1 DEF Enqueue, TypeOK, Rows
    <3>2. QED
      BY <1>0, <2>1, <3>1 DEF Enqueue, Neutral, SameKnownRows, NoNewPhase, Known, kubernetes
  <2>2. CASE LeaseExpires(c)
    <3>1. \A d \in Commands : row'[d].state = row[d].state
      BY <2>2 DEF LeaseExpires, TypeOK, Rows
    <3>2. QED
      BY <1>0, <2>2, <3>1 DEF LeaseExpires, Neutral, SameKnownRows, NoNewPhase, kubernetes
  <2>3. QED
    BY <1>1, <2>1, <2>2
<1>2. CASE DeleteTask(c) \/ ForeignTask(c)
  <2>1. NoNewPhase
    <3>1. PICK t : t.phase = "none" /\ task' = [task EXCEPT ![c] = t]
      BY <1>2 DEF DeleteTask, ForeignTask, NoTask
    <3>2. QED
      BY <3>1 DEF TypeOK, NoNewPhase
  <2>2. QED
    BY <1>0, <1>2, <2>1 DEF DeleteTask, ForeignTask, Neutral, SameKnownRows, db
<1>3. CASE Withdraw(c) \/ Regrant(c) \/ Intervene(c)
  BY <1>0, <1>3 DEF Withdraw, Regrant, Intervene, Neutral, SameKnownRows, NoNewPhase, kubernetes
<1>4. QED
  BY <1>1, <1>2, <1>3 DEF Environment

\* The request: before it nothing anywhere claims to be its answer.
LEMMA InvokeKeepsResult ==
    ASSUME TypeOK, DispatchInv, ResultInv, NEW p \in Procs, Invoke(p)
    PROVE  ResultInv'
<1> DEFINE c == proc[p].cmd
<1>1. PICK a \in AllAnswers :
        /\ answer' = [answer EXCEPT ![c] = a]
        /\ proc'[p].kind = IF a = "lost" THEN "UNKNOWN" ELSE a
        /\ proc'[p].pc = IF a = "lost" THEN "finishing" ELSE "answered"
  BY InvokeDoes
<1>2. /\ c \in Commands /\ proc'[p].cmd = c
      /\ proc[p].pc \in Dispatching
      /\ \A q \in Procs \ {p} : proc'[q] = proc[q]
      /\ invoked' = [invoked EXCEPT ![c] = @ + 1]
      /\ UNCHANGED <<row, outcome, task>>
  BY InvokeDoes DEF Dispatching, db, kubernetes
<1>3. answer[c] = "none" /\ invoked[c] = 0
  BY <1>2 DEF DispatchInv, ResultInv
<1>4. invoked'[c] = 1 /\ answer'[c] = a
  BY <1>1, <1>2, <1>3 DEF TypeOK
<1>5. \A d \in Commands \ {c} : invoked'[d] = invoked[d] /\ answer'[d] = answer[d]
  BY <1>1, <1>2 DEF TypeOK
<1>6. /\ task[c].phase \notin {"Succeeded", "Failed"}
      /\ row[c].state \notin Known
  BY <1>2, <1>3 DEF ResultInv, OutcomeIsTheAnswer, Known
<1>7. \A q \in Procs :
        /\ proc[q].pc = "answered" => proc[q].cmd # c
        /\ proc[q].pc = "finishing" /\ proc[q].cmd = c => proc[q].kind \notin Known
  BY <1>3 DEF ResultInv, Known
<1>8. \A q \in Procs : proc[q].pc \in {"answered", "finishing"} => proc[q].cmd \in Commands
  BY DEF TypeOK, Working
<1>9. ASSUME NEW q \in Procs, proc'[q].pc = "answered"
      PROVE  proc'[q].kind \in {"ok", "unusable", "error"} /\ answer'[proc'[q].cmd] = proc'[q].kind
  <2>1. CASE q = p
    <3>1. a # "lost" /\ proc'[p].kind = a /\ proc'[p].cmd = c
      BY <1>1, <1>2, <1>9, <2>1
    <3>2. QED
      BY <1>4, <2>1, <3>1 DEF AllAnswers
  <2>2. CASE q # p
    <3>1. proc'[q] = proc[q] /\ proc[q].pc = "answered"
      BY <1>2, <1>9, <2>2
    <3>2. proc[q].cmd \in Commands \ {c}
      BY <1>7, <1>8, <3>1
    <3>3. proc[q].kind \in {"ok", "unusable", "error"} /\ answer[proc[q].cmd] = proc[q].kind
      BY <3>1 DEF ResultInv
    <3>4. QED
      BY <1>5, <3>1, <3>2, <3>3
  <2>3. QED
    BY <2>1, <2>2
<1>10. ASSUME NEW q \in Procs, proc'[q].pc = "finishing"
       PROVE  /\ proc'[q].kind = "SUCCEEDED" => answer'[proc'[q].cmd] = "ok"
              /\ proc'[q].kind = "FAILED" => answer'[proc'[q].cmd] = "error"
  <2>1. CASE q = p
    <3>1. proc'[p].kind = "UNKNOWN"
      BY <1>1, <1>10, <2>1
    <3>2. QED
      BY <2>1, <3>1
  <2>2. CASE q # p
    <3>1. proc'[q] = proc[q] /\ proc[q].pc = "finishing" /\ proc[q].cmd \in Commands
      BY <1>2, <1>8, <1>10, <2>2
    <3>2. CASE proc[q].cmd = c
      BY <1>7, <3>1, <3>2 DEF Known
    <3>3. CASE proc[q].cmd # c
      BY <1>5, <3>1, <3>3 DEF ResultInv
    <3>4. QED
      BY <3>2, <3>3
  <2>3. QED
    BY <2>1, <2>2
<1>11. \A d \in Commands : invoked'[d] = 0 => answer'[d] = "none"
  BY <1>4, <1>5 DEF ResultInv
<1>12. \A d \in Commands :
         /\ task'[d].phase = "Succeeded" => answer'[d] = "ok"
         /\ task'[d].phase = "Failed" => answer'[d] = "error"
  BY <1>2, <1>5, <1>6 DEF ResultInv
<1>13. OutcomeIsTheAnswer'
  <2>1. \A d \in Commands : row[d].state \in Known => d # c
    BY <1>6
  <2>2. QED
    BY <1>2, <1>5, <2>1 DEF ResultInv, OutcomeIsTheAnswer, Known
<1>14. QED
  BY <1>9, <1>10, <1>11, <1>12, <1>13 DEF ResultInv

\* The answer goes into the Task's phase.
LEMMA PatchTerminalKeepsResult ==
    ASSUME TypeOK, ResultInv, NEW p \in Procs, PatchTerminal(p)
    PROVE  ResultInv'
<1> DEFINE c == proc[p].cmd
<1>1. /\ c \in Commands
      /\ proc[p].pc = "answered"
      /\ task' = [task EXCEPT ![c].phase = PhaseOf(proc[p].kind)]
      /\ UNCHANGED <<row, outcome, invoked, answer>>
  BY DEF PatchTerminal, TypeOK, Working, db, runtime
<1>2. NoNewResult
  BY GotoNeutral DEF PatchTerminal
<1>3. proc[p].kind \in {"ok", "unusable", "error"} /\ answer[c] = proc[p].kind
  BY <1>1 DEF ResultInv
<1>4. \A d \in Commands : task'[d].phase = IF d = c THEN PhaseOf(proc[p].kind) ELSE task[d].phase
  BY <1>1 DEF TypeOK, Tasks
<1>5. \A d \in Commands :
        /\ task'[d].phase = "Succeeded" => answer'[d] = "ok"
        /\ task'[d].phase = "Failed" => answer'[d] = "error"
  BY <1>1, <1>3, <1>4 DEF ResultInv, PhaseOf
<1>6. QED
  BY <1>1, <1>2, <1>5 DEF ResultInv, NoNewResult, OutcomeIsTheAnswer, Uncertain

\* The Task's phase goes into the observation.
LEMMA ObserveKeepsResult ==
    ASSUME TypeOK, ResultInv, NEW p \in Procs, Observe(p)
    PROVE  ResultInv'
<1> DEFINE c == proc[p].cmd
           k == ObservedKind(task[c])
           l == [proc[p] EXCEPT !.pc = "finishing", !.uid = task[c].uid, !.kind = k]
<1>1. /\ c \in Commands
      /\ proc' = [proc EXCEPT ![p] = l]
      /\ UNCHANGED <<row, outcome, task, invoked, answer>>
  BY DEF Observe, TypeOK, Working, db, kubernetes, runtime
<1>2. /\ k = "SUCCEEDED" => answer[c] = "ok"
      /\ k = "FAILED" => answer[c] = "error"
  BY <1>1 DEF ObservedKind, ResultInv
<1> HIDE DEF k
<1>3. l.pc = "finishing" /\ l.cmd = c /\ l.kind = k
  BY DEF TypeOK, Locals
<1> HIDE DEF l
<1>4. proc'[p] = l /\ \A q \in Procs \ {p} : proc'[q] = proc[q]
  BY <1>1 DEF TypeOK
<1>5. \A q \in Procs : proc'[q].pc = "answered" =>
        proc'[q].kind \in {"ok", "unusable", "error"} /\ answer'[proc'[q].cmd] = proc'[q].kind
  BY <1>1, <1>3, <1>4 DEF ResultInv
<1>6. \A q \in Procs : proc'[q].pc = "finishing" =>
        /\ proc'[q].kind = "SUCCEEDED" => answer'[proc'[q].cmd] = "ok"
        /\ proc'[q].kind = "FAILED" => answer'[proc'[q].cmd] = "error"
  BY <1>1, <1>2, <1>3, <1>4 DEF ResultInv
<1>7. OutcomeIsTheAnswer'
  BY <1>1 DEF ResultInv, OutcomeIsTheAnswer
<1>8. QED
  BY <1>1, <1>5, <1>6, <1>7 DEF ResultInv

\* The observation goes into the row and the outcome.
LEMMA RecordCompletionKeepsResult ==
    ASSUME TypeOK, ResultInv, NEW p \in Procs, RecordCompletion(p)
    PROVE  ResultInv'
<1> DEFINE c == proc[p].cmd
           k == proc[p].kind
<1>1. /\ c \in Commands
      /\ proc[p].pc = "finishing" /\ k \in Known
      /\ row' = [row EXCEPT ![c].state = k]
      /\ outcome' = [outcome EXCEPT ![c] = k]
      /\ UNCHANGED <<task, invoked, answer>>
  BY DEF RecordCompletion, TypeOK, Working, kubernetes, runtime
<1>2. NoNewResult
  BY ReturnNeutral DEF RecordCompletion
<1>3. \A d \in Commands : row'[d].state = IF d = c THEN k ELSE row[d].state
  BY <1>1 DEF TypeOK, Rows
<1>4. \A d \in Commands : outcome'[d] = IF d = c THEN k ELSE outcome[d]
  BY <1>1 DEF TypeOK
<1>5. /\ k = "SUCCEEDED" => answer[c] = "ok"
      /\ k = "FAILED" => answer[c] = "error"
  BY <1>1 DEF ResultInv
<1>6. OutcomeIsTheAnswer'
  <2> SUFFICES ASSUME NEW d \in Commands
               PROVE  /\ row'[d].state = "SUCCEEDED" => answer'[d] = "ok"
                      /\ row'[d].state = "FAILED" => answer'[d] = "error"
                      /\ outcome'[d] = IF row'[d].state \in Known THEN row'[d].state ELSE "none"
    BY DEF OutcomeIsTheAnswer
  <2>1. CASE d = c
    BY <1>1, <1>3, <1>4, <1>5, <2>1
  <2>2. CASE d # c
    BY <1>1, <1>3, <1>4, <2>2 DEF ResultInv, OutcomeIsTheAnswer
  <2>3. QED
    BY <2>1, <2>2
<1>7. QED
  BY <1>1, <1>2, <1>6 DEF ResultInv, NoNewResult, Uncertain

LEMMA NextKeepsResult ==
    ASSUME TypeOK, DispatchInv, ResultInv, [Next]_vars
    PROVE  ResultInv'
<1>1. ASSUME NEW p \in Procs, Step(p) PROVE ResultInv'
  BY <1>1, PollNeutral, PermitNeutral, CreateNeutral, PatchNeutral, RecordNeutral,
     NeutralKeepsResult, InvokeKeepsResult, PatchTerminalKeepsResult, ObserveKeepsResult,
     RecordCompletionKeepsResult DEF Step
<1>2. ASSUME NEW p \in Procs, Fault(p) \/ Restart(p) PROVE ResultInv'
  BY <1>2, CreateNeutral, FailureNeutral, NeutralKeepsResult DEF Fault
<1>3. ASSUME NEW c \in Commands, Environment(c) PROVE ResultInv'
  BY <1>3, EnvironmentNeutral, NeutralKeepsResult
<1>4. CASE UNCHANGED vars
  <2>1. Neutral
    BY <1>4 DEF Neutral, NoNewResult, SameKnownRows, NoNewPhase, vars, db, kubernetes, runtime
  <2>2. QED
    BY <2>1, NeutralKeepsResult
<1>5. QED
  BY <1>1, <1>2, <1>3, <1>4 DEF Next

\* A command is SUCCEEDED or FAILED only if its one request was answered so,
\* and the outcome row says the same, for any worker ids, clocks and faults:
\* no resumed, late or duplicate observation is recorded as another result.
THEOREM ResultsAreAnswers == Spec => []OutcomeIsTheAnswer
<1>1. Init => ResultInv
  BY DEF Init, Idle, NoTask, ResultInv, OutcomeIsTheAnswer, Known
<1>2. TypeOK /\ DispatchInv /\ ResultInv /\ [Next]_vars => ResultInv'
  BY NextKeepsResult
<1>3. ResultInv => OutcomeIsTheAnswer
  BY DEF ResultInv
<1>4. QED
  BY <1>1, <1>2, <1>3, TypeCorrect, DispatchInvariant, PTL DEF Spec
=============================================================================
