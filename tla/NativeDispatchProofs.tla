------------------------- MODULE NativeDispatchProofs -------------------------
(* At most one request per command, closed rows and the refinement of        *)
(* EffectOnce, for any number of commands and processes and any bounds.      *)
EXTENDS NativeDispatchTypes

-----------------------------------------------------------------------------
(* At most one request to the Runtime, whatever the worker ids               *)

\* Where a process is on its way to the request.
Dispatching == {"permitted", "created", "correlated", "running"}

\* The inductive invariant.  One process at most is on its way to the request
\* for a command; while it is, the command is started and the request not sent;
\* and before the start nothing was sent.
DispatchInv ==
    /\ \A p, q \in Procs :
        /\ proc[p].pc \in Dispatching
        /\ proc[q].pc \in Dispatching
        /\ proc[p].cmd = proc[q].cmd
        => p = q
    /\ \A p \in Procs : proc[p].pc \in Dispatching =>
        ~NotStarted(proc[p].cmd) /\ invoked[proc[p].cmd] = 0
    /\ \A c \in Commands : NotStarted(c) => invoked[c] = 0
    /\ AtMostOneInvocation

\* Nobody new is on the way to a request, and a claim underway is not exchanged.
NoNewDispatcher ==
    \A p \in Procs : proc'[p].pc \in Dispatching =>
        /\ proc[p].pc \in Dispatching
        /\ proc'[p].cmd = proc[p].cmd
        /\ proc'[p].gen = proc[p].gen

\* The row of c changes and stays on its side of the linearization point: it is
\* queued or claimed, or a started row is correlated or closed by a current claim.
RowAdvances(c) ==
    \/ NotStarted(c) /\ NotStarted(c)'
    \/ /\ row[c].state = "EFFECT_STARTED"
       /\ row'[c].gen = row[c].gen
       /\ row'[c].worker = row[c].worker
       /\ \/ row'[c].state = "EFFECT_STARTED"
          \/ /\ row'[c].state \in Terminal
             /\ \E p \in Procs : Current(p, c) /\ proc[p].pc = "finishing"

\* A step that neither starts an effect nor sends a request.
Quiet ==
    /\ UNCHANGED invoked
    /\ NoNewDispatcher
    /\ \/ UNCHANGED row
       \/ \E c \in Commands : row' = [row EXCEPT ![c] = row'[c]] /\ RowAdvances(c)

\* Hence no command changes sides.
LEMMA QuietSides ==
    ASSUME TypeOK, Quiet, NEW c \in Commands
    PROVE  NotStarted(c)' <=> NotStarted(c)
<1>1. CASE UNCHANGED row
  BY <1>1 DEF NotStarted
<1>2. ASSUME NEW d \in Commands, row' = [row EXCEPT ![d] = row'[d]], RowAdvances(d)
      PROVE  NotStarted(c)' <=> NotStarted(c)
  <2>1. c # d => row'[c] = row[c]
    BY <1>2 DEF TypeOK
  <2>2. QED
    BY <1>2, <2>1 DEF RowAdvances, NotStarted, Terminal, Known, Uncertain
<1>3. QED
  BY <1>1, <1>2 DEF Quiet

LEMMA QuietKeepsDispatch ==
    ASSUME TypeOK, DispatchInv, Quiet
    PROVE  DispatchInv'
<1>1. \A p \in Procs : proc[p].pc \in Dispatching => proc[p].cmd \in Commands
  BY DEF TypeOK, Dispatching, Working
<1>2. \A p, q \in Procs :
        proc'[p].pc \in Dispatching /\ proc'[q].pc \in Dispatching /\ proc'[p].cmd = proc'[q].cmd
        => p = q
  BY DEF DispatchInv, Quiet, NoNewDispatcher
<1>3. \A p \in Procs : proc'[p].pc \in Dispatching =>
        ~NotStarted(proc[p].cmd)' /\ invoked'[proc'[p].cmd] = 0
  <2> SUFFICES ASSUME NEW p \in Procs, proc'[p].pc \in Dispatching
               PROVE  ~NotStarted(proc[p].cmd)' /\ invoked'[proc'[p].cmd] = 0
    OBVIOUS
  <2>1. proc[p].pc \in Dispatching /\ proc'[p].cmd = proc[p].cmd
    BY DEF Quiet, NoNewDispatcher
  <2>2. proc[p].cmd \in Commands /\ ~NotStarted(proc[p].cmd) /\ invoked[proc[p].cmd] = 0
    BY <1>1, <2>1 DEF DispatchInv
  <2>3. QED
    BY <2>1, <2>2, QuietSides DEF Quiet, NotStarted
<1>4. QED
  BY <1>2, <1>3, QuietSides DEF DispatchInv, Quiet, AtMostOneInvocation

\* Return, and Goto to a place that is not on the way to the request.
LEMMA ReturnKeepsOthers ==
    ASSUME TypeOK, NEW p \in Procs, Return(p)
    PROVE  NoNewDispatcher
BY DEF TypeOK, Return, Idle, Dispatching, NoNewDispatcher

LEMMA LocalKeepsOthers ==
    ASSUME TypeOK, NEW p \in Procs, NEW l, proc' = [proc EXCEPT ![p] = l],
           l.pc \in Dispatching =>
               proc[p].pc \in Dispatching /\ l.cmd = proc[p].cmd /\ l.gen = proc[p].gen
    PROVE  NoNewDispatcher
BY DEF TypeOK, NoNewDispatcher

LEMMA GotoKeepsOthers ==
    ASSUME TypeOK, NEW p \in Procs, NEW pc, Goto(p, pc),
           pc \in Dispatching => proc[p].pc \in Dispatching
    PROVE  NoNewDispatcher
<1> DEFINE l == [proc[p] EXCEPT !.pc = pc]
<1>1. proc[p] \in Locals
  BY DEF TypeOK
<1>2. l.pc = pc /\ l.cmd = proc[p].cmd /\ l.gen = proc[p].gen
  BY <1>1 DEF Locals
<1>3. proc' = [proc EXCEPT ![p] = l]
  BY DEF Goto
<1> HIDE DEF l
<1>4. QED
  BY <1>2, <1>3, LocalKeepsOthers

\* A step that leaves the rows and the request count alone.
LEMMA SameRowsQuiet ==
    ASSUME UNCHANGED <<row, invoked>>,
           NoNewDispatcher
    PROVE  Quiet
BY DEF Quiet

LEMMA PollQuiet ==
    ASSUME TypeOK, NEW p \in Procs,
           \/ ResumeEffectStarted(p) \/ NothingToResume(p)
           \/ ClaimNext(p) \/ NothingToClaim(p)
    PROVE  Quiet
<1>1. CASE ResumeEffectStarted(p)
  <2>1. PICK d \in Commands : proc' = [proc EXCEPT ![p] =
            [Idle EXCEPT !.pc = "claimed", !.cmd = d, !.gen = row[d].gen]]
    BY <1>1 DEF ResumeEffectStarted
  <2>2. [Idle EXCEPT !.pc = "claimed", !.cmd = d, !.gen = row[d].gen].pc \notin Dispatching
    BY DEF Idle, Dispatching
  <2>3. UNCHANGED <<row, invoked>>
    BY <1>1 DEF ResumeEffectStarted, db, runtime
  <2>4. QED
    BY <2>1, <2>2, <2>3, LocalKeepsOthers, SameRowsQuiet
<1>2. CASE NothingToResume(p)
  BY <1>2, GotoKeepsOthers, SameRowsQuiet DEF NothingToResume, Dispatching, db, runtime
<1>3. CASE ClaimNext(p)
  <2>1. PICK d \in Commands :
          /\ Claimable(d)
          /\ row' = [row EXCEPT ![d].state = "CLAIMED", ![d].gen = NextGen(d),
                                ![d].worker = WorkerId[p], ![d].expired = FALSE]
          /\ proc' = [proc EXCEPT ![p] = [Idle EXCEPT !.pc = "claimed", !.cmd = d,
                                                      !.gen = NextGen(d)]]
    BY <1>3 DEF ClaimNext
  <2>2. [Idle EXCEPT !.pc = "claimed", !.cmd = d, !.gen = NextGen(d)].pc \notin Dispatching
    BY DEF Idle, Dispatching
  <2>3. NoNewDispatcher
    BY <2>1, <2>2, LocalKeepsOthers
  <2>4. row'[d].state = "CLAIMED" /\ row' = [row EXCEPT ![d] = row'[d]]
    <3> DEFINE r == [row[d] EXCEPT !.state = "CLAIMED", !.gen = NextGen(d),
                                   !.worker = WorkerId[p], !.expired = FALSE]
    <3>1. row' = [row EXCEPT ![d] = r]
      BY <2>1
    <3>2. row[d] \in Rows /\ row \in [Commands -> Rows]
      BY DEF TypeOK
    <3>3. r.state = "CLAIMED"
      BY <3>2 DEF Rows
    <3> HIDE DEF r
    <3>4. QED
      BY <3>1, <3>2, <3>3
  <2>5. RowAdvances(d)
    BY <2>1, <2>4 DEF RowAdvances, NotStarted, Claimable
  <2>6. QED
    BY <1>3, <2>3, <2>4, <2>5 DEF Quiet, ClaimNext, runtime
<1>4. CASE NothingToClaim(p)
  BY <1>4, ReturnKeepsOthers, SameRowsQuiet DEF NothingToClaim, db, runtime
<1>5. QED
  BY <1>1, <1>2, <1>3, <1>4

LEMMA PermitQuiet ==
    ASSUME TypeOK, NEW p \in Procs, ReadClock(p) \/ PermitReplayed(p) \/ PermitRefused(p)
    PROVE  Quiet
<1>1. CASE ReadClock(p)
  <2>1. PICK now \in BOOLEAN :
            proc' = [proc EXCEPT ![p].pc = "permitting", ![p].fresh = now]
    BY <1>1 DEF ReadClock
  <2> DEFINE l == [proc[p] EXCEPT !.pc = "permitting", !.fresh = now]
  <2>2. l.pc \notin Dispatching
    BY DEF TypeOK, Locals, Dispatching
  <2>3. proc' = [proc EXCEPT ![p] = l]
    BY <2>1
  <2> HIDE DEF l
  <2>4. QED
    BY <1>1, <2>2, <2>3, LocalKeepsOthers, SameRowsQuiet DEF ReadClock, db, runtime
<1>2. CASE PermitReplayed(p)
  BY <1>2, GotoKeepsOthers, SameRowsQuiet DEF PermitReplayed, Dispatching, db, runtime
<1>3. CASE PermitRefused(p)
  BY <1>3, ReturnKeepsOthers, SameRowsQuiet DEF PermitRefused, db, runtime
<1>4. QED
  BY <1>1, <1>2, <1>3

LEMMA CreateQuiet ==
    ASSUME TypeOK, NEW p \in Procs,
           \/ CreateTask(p) \/ CreateConflict(p) \/ CreateLost(p) \/ CreateWithoutUid(p)
           \/ RecordCorrelation(p) \/ CorrelationRefused(p)
    PROVE  Quiet
<1> DEFINE c == proc[p].cmd
<1>0. proc[p] \in Locals
  BY DEF TypeOK
<1>1. CASE CreateTask(p)
  <2> DEFINE u == CreatedTask(p, c).uid
             l == [proc[p] EXCEPT !.pc = "created", !.uid = u]
  <2>1. proc[p].pc = "permitted" /\ proc' = [proc EXCEPT ![p].pc = "created", ![p].uid = u]
    BY <1>1 DEF CreateTask
  <2> HIDE DEF u
  <2>2. l.cmd = c /\ l.gen = proc[p].gen /\ proc[p].pc \in Dispatching
    BY <1>0, <2>1 DEF Locals, Dispatching
  <2>3. proc' = [proc EXCEPT ![p] = l]
    BY <2>1
  <2> HIDE DEF l
  <2>4. QED
    BY <1>1, <2>2, <2>3, LocalKeepsOthers, SameRowsQuiet DEF CreateTask, db, runtime
<1>2. CASE CreateConflict(p)
  BY <1>2, ReturnKeepsOthers, SameRowsQuiet DEF CreateConflict, db, runtime
<1>3. CASE CreateLost(p)
  BY <1>3, ReturnKeepsOthers, SameRowsQuiet DEF CreateLost, db, runtime
<1>4. CASE CreateWithoutUid(p)
  <2> DEFINE l == [proc[p] EXCEPT !.pc = "finishing", !.kind = "RECOVERY_REQUIRED"]
  <2>1. l.pc \notin Dispatching
    BY <1>0 DEF Locals, Dispatching
  <2>2. proc' = [proc EXCEPT ![p] = l]
    BY <1>4 DEF CreateWithoutUid
  <2> HIDE DEF l
  <2>3. QED
    BY <1>4, <2>1, <2>2, LocalKeepsOthers, SameRowsQuiet DEF CreateWithoutUid, db, runtime
<1>5. CASE RecordCorrelation(p)
  <2>1. NoNewDispatcher
    BY <1>5, GotoKeepsOthers DEF RecordCorrelation, Dispatching
  <2>2. c \in Commands /\ row' = [row EXCEPT ![c].uid = proc[p].uid]
    BY <1>5 DEF RecordCorrelation, TypeOK, Working
  <2>3. /\ row' = [row EXCEPT ![c] = row'[c]]
        /\ row'[c].state = row[c].state
        /\ row'[c].gen = row[c].gen
        /\ row'[c].worker = row[c].worker
    <3> DEFINE r == [row[c] EXCEPT !.uid = proc[p].uid]
    <3>1. row' = [row EXCEPT ![c] = r]
      BY <2>2
    <3>2. r.state = row[c].state /\ r.gen = row[c].gen /\ r.worker = row[c].worker
      BY <2>2 DEF TypeOK, Rows
    <3> HIDE DEF r
    <3>3. QED
      BY <2>2, <3>1, <3>2 DEF TypeOK
  <2>4. RowAdvances(c)
    BY <1>5, <2>3 DEF RecordCorrelation, Correlatable, RowAdvances
  <2>5. QED
    BY <1>5, <2>1, <2>2, <2>3, <2>4 DEF RecordCorrelation, Quiet, runtime
<1>6. CASE CorrelationRefused(p)
  BY <1>6, ReturnKeepsOthers, SameRowsQuiet DEF CorrelationRefused, db, runtime
<1>7. QED
  BY <1>1, <1>2, <1>3, <1>4, <1>5, <1>6

LEMMA PatchQuiet ==
    ASSUME TypeOK, NEW p \in Procs, PatchRunning(p) \/ PatchTerminal(p) \/ PatchNotFound(p)
    PROVE  Quiet
<1>1. CASE PatchRunning(p)
  BY <1>1, GotoKeepsOthers, SameRowsQuiet DEF PatchRunning, Dispatching, db, runtime
<1>2. CASE PatchTerminal(p)
  BY <1>2, GotoKeepsOthers, SameRowsQuiet DEF PatchTerminal, Dispatching, db, runtime
<1>3. CASE PatchNotFound(p)
  BY <1>3, ReturnKeepsOthers, SameRowsQuiet DEF PatchNotFound, db, runtime
<1>4. QED
  BY <1>1, <1>2, <1>3

LEMMA RecordQuiet ==
    ASSUME TypeOK, NEW p \in Procs,
           \/ Observe(p) \/ ObserveRefused(p)
           \/ RecordUncertain(p) \/ RecordCompletion(p) \/ RecordRefused(p)
    PROVE  Quiet
<1> DEFINE c == proc[p].cmd
<1>1. CASE Observe(p)
  <2> DEFINE k == ObservedKind(task[c])
             l == [proc[p] EXCEPT !.pc = "finishing", !.uid = task[c].uid, !.kind = k]
  <2>1. proc' = [proc EXCEPT ![p] = l]
    BY <1>1 DEF Observe
  <2> HIDE DEF k
  <2>2. l.pc \notin Dispatching
    BY DEF TypeOK, Locals, Dispatching
  <2> HIDE DEF l
  <2>3. QED
    BY <1>1, <2>1, <2>2, LocalKeepsOthers, SameRowsQuiet DEF Observe, db, runtime
<1>2. CASE ObserveRefused(p)
  BY <1>2, ReturnKeepsOthers, SameRowsQuiet DEF ObserveRefused, db, runtime
<1>3. CASE RecordUncertain(p) \/ RecordCompletion(p)
  <2>1. /\ row' = [row EXCEPT ![c].state = proc[p].kind]
        /\ row[c].state = "EFFECT_STARTED"
        /\ proc[p].pc = "finishing" /\ proc[p].kind \in Terminal
        /\ Current(p, c)
        /\ Return(p)
        /\ UNCHANGED invoked
    BY <1>3 DEF RecordUncertain, RecordCompletion, Recordable, Terminal, runtime
  <2>2. c \in Commands
    BY <2>1 DEF TypeOK, Working
  <2>3. /\ row' = [row EXCEPT ![c] = row'[c]]
        /\ row'[c].state = proc[p].kind
        /\ row'[c].gen = row[c].gen
        /\ row'[c].worker = row[c].worker
    <3> DEFINE r == [row[c] EXCEPT !.state = proc[p].kind]
    <3>1. row' = [row EXCEPT ![c] = r]
      BY <2>1
    <3>2. r.state = proc[p].kind /\ r.gen = row[c].gen /\ r.worker = row[c].worker
      BY <2>2 DEF TypeOK, Rows
    <3> HIDE DEF r
    <3>3. QED
      BY <2>2, <3>1, <3>2 DEF TypeOK
  <2>4. RowAdvances(c)
    BY <2>1, <2>3 DEF RowAdvances
  <2>5. QED
    BY <2>1, <2>2, <2>3, <2>4, ReturnKeepsOthers DEF Quiet
<1>4. CASE RecordRefused(p)
  BY <1>4, ReturnKeepsOthers, SameRowsQuiet DEF RecordRefused, db, runtime
<1>5. QED
  BY <1>1, <1>2, <1>3, <1>4

LEMMA FailureQuiet ==
    ASSUME TypeOK, NEW p \in Procs, Abort(p) \/ Crash(p) \/ Restart(p)
    PROVE  Quiet
<1>1. CASE Abort(p)
  BY <1>1, ReturnKeepsOthers, SameRowsQuiet DEF Abort, db, runtime
<1>2. CASE Crash(p)
  <2>1. [Idle EXCEPT !.pc = "down"].pc \notin Dispatching
    BY DEF Idle, Dispatching
  <2>2. QED
    BY <1>2, <2>1, LocalKeepsOthers, SameRowsQuiet DEF Crash, db, runtime
<1>3. CASE Restart(p)
  BY <1>3, ReturnKeepsOthers, SameRowsQuiet DEF Restart, db, runtime
<1>4. QED
  BY <1>1, <1>2, <1>3

LEMMA EnvironmentQuiet ==
    ASSUME TypeOK, NEW c \in Commands, Environment(c)
    PROVE  Quiet
<1>1. CASE Enqueue(c)
  <2>1. row' = [row EXCEPT ![c] = row'[c]] /\ row'[c].state = "QUEUED"
    BY <1>1 DEF Enqueue, TypeOK, Rows
  <2>2. QED
    BY <1>1, <2>1 DEF Enqueue, Quiet, NoNewDispatcher, RowAdvances, NotStarted, runtime
<1>2. CASE LeaseExpires(c)
  <2>1. row' = [row EXCEPT ![c] = row'[c]] /\ row'[c].state = "CLAIMED"
    BY <1>2 DEF LeaseExpires, TypeOK, Rows
  <2>2. QED
    BY <1>2, <2>1 DEF LeaseExpires, Quiet, NoNewDispatcher, RowAdvances, NotStarted, runtime
<1>3. CASE DeleteTask(c) \/ ForeignTask(c) \/ Withdraw(c) \/ Regrant(c) \/ Intervene(c)
  BY <1>3, SameRowsQuiet
  DEF NoNewDispatcher, DeleteTask, ForeignTask, Withdraw, Regrant, Intervene, db, runtime
<1>4. QED
  BY <1>1, <1>2, <1>3 DEF Environment

\* Every step but the two that matter is quiet.
LEMMA OtherStepsQuiet ==
    ASSUME TypeOK, [Next]_vars,
           ~ \E p \in Procs : PermitEffect(p) \/ Invoke(p)
    PROVE  Quiet
<1>1. ASSUME NEW p \in Procs, Step(p) PROVE Quiet
  BY <1>1, PollQuiet, PermitQuiet, CreateQuiet, PatchQuiet, RecordQuiet DEF Step
<1>2. ASSUME NEW p \in Procs, Fault(p) \/ Restart(p) PROVE Quiet
  BY <1>2, CreateQuiet, FailureQuiet DEF Fault
<1>3. ASSUME NEW c \in Commands, Environment(c) PROVE Quiet
  BY <1>3, EnvironmentQuiet
<1>4. CASE UNCHANGED vars
  BY <1>4, SameRowsQuiet DEF NoNewDispatcher, vars, db, runtime
<1>5. QED
  BY <1>1, <1>2, <1>3, <1>4 DEF Next

\* What permit_effect changes: one row crosses the linearization point and its
\* process is the only one new on the way to the request.
LEMMA PermitEffectDoes ==
    ASSUME TypeOK, NEW p \in Procs, PermitEffect(p)
    PROVE  LET c == proc[p].cmd IN
           /\ c \in Commands
           /\ proc[p].pc = "permitting" /\ proc'[p].pc = "permitted" /\ proc'[p].cmd = c
           /\ proc'[p].gen = proc[p].gen
           /\ \A q \in Procs \ {p} : proc'[q] = proc[q]
           /\ Permitted(p, c)
           /\ row'[c].state = "EFFECT_STARTED"
           /\ row'[c].gen = row[c].gen /\ row'[c].worker = row[c].worker
           /\ \A d \in Commands \ {c} : row'[d] = row[d]
           /\ UNCHANGED <<outcome, kubernetes, runtime>>
<1> DEFINE c == proc[p].cmd
           n == Cardinality(StartedEffects) + 1
<1>1. c \in Commands
  BY DEF PermitEffect, TypeOK, Working
<1>2. /\ row' = [row EXCEPT ![c].state = "EFFECT_STARTED", ![c].expired = FALSE,
                            ![c].started = n]
      /\ proc' = [proc EXCEPT ![p].pc = "permitted"]
  BY DEF PermitEffect, Goto
<1> HIDE DEF n
<1>3. row[c] \in Rows /\ proc[p] \in Locals
  BY <1>1 DEF TypeOK
<1>4. /\ row'[c].state = "EFFECT_STARTED"
      /\ row'[c].gen = row[c].gen /\ row'[c].worker = row[c].worker
      /\ \A d \in Commands \ {c} : row'[d] = row[d]
  BY <1>1, <1>2, <1>3 DEF TypeOK, Rows
<1>5. /\ proc'[p].pc = "permitted" /\ proc'[p].cmd = c /\ proc'[p].gen = proc[p].gen
      /\ \A q \in Procs \ {p} : proc'[q] = proc[q]
  BY <1>2, <1>3 DEF TypeOK, Locals
<1>6. QED
  BY <1>1, <1>4, <1>5 DEF PermitEffect

\* What the request changes.
LEMMA InvokeDoes ==
    ASSUME TypeOK, NEW p \in Procs, Invoke(p)
    PROVE  LET c == proc[p].cmd IN
           /\ c \in Commands
           /\ proc[p].pc = "running" /\ proc'[p].pc \in {"finishing", "answered"}
           /\ proc'[p].cmd = c
           /\ \A q \in Procs \ {p} : proc'[q] = proc[q]
           /\ invoked' = [invoked EXCEPT ![c] = @ + 1]
           /\ \E a \in AllAnswers :
                /\ answer' = [answer EXCEPT ![c] = a]
                /\ proc'[p].kind = IF a = "lost" THEN "UNKNOWN" ELSE a
                /\ proc'[p].pc = IF a = "lost" THEN "finishing" ELSE "answered"
           /\ UNCHANGED <<db, kubernetes>>
<1> DEFINE c == proc[p].cmd
<1>1. PICK a \in Answers :
        /\ answer' = [answer EXCEPT ![c] = a]
        /\ proc' = [proc EXCEPT ![p].pc = IF a = "lost" THEN "finishing" ELSE "answered",
                                ![p].kind = IF a = "lost" THEN "UNKNOWN" ELSE a]
  BY DEF Invoke
<1> DEFINE pc == IF a = "lost" THEN "finishing" ELSE "answered"
           k == IF a = "lost" THEN "UNKNOWN" ELSE a
           l == [proc[p] EXCEPT !.pc = pc, !.kind = k]
<1>2. c \in Commands /\ a \in AllAnswers /\ proc[p] \in Locals
  BY AnswersAssumption DEF Invoke, TypeOK, Working
<1>3. proc' = [proc EXCEPT ![p] = l]
  BY <1>1
<1>4. pc \in {"finishing", "answered"}
  OBVIOUS
<1>5. l.pc = pc /\ l.kind = k /\ l.cmd = c
  BY <1>2 DEF Locals
<1> HIDE DEF l
<1>6. proc'[p] = l /\ \A q \in Procs \ {p} : proc'[q] = proc[q]
  BY <1>3 DEF TypeOK
<1>7. \E b \in AllAnswers :
        /\ answer' = [answer EXCEPT ![c] = b]
        /\ proc'[p].kind = IF b = "lost" THEN "UNKNOWN" ELSE b
        /\ proc'[p].pc = IF b = "lost" THEN "finishing" ELSE "answered"
  BY <1>1, <1>2, <1>5, <1>6
<1>8. QED
  BY <1>2, <1>4, <1>5, <1>6, <1>7 DEF Invoke

LEMMA NextKeepsDispatch ==
    ASSUME TypeOK, DispatchInv, [Next]_vars
    PROVE  DispatchInv'
<1>0. \A p \in Procs : proc[p].pc \in Dispatching => proc[p].cmd \in Commands
  BY DEF TypeOK, Dispatching, Working
<1>1. ASSUME NEW p \in Procs, PermitEffect(p)
      PROVE  DispatchInv'
  <2> DEFINE c == proc[p].cmd
  <2>1. /\ c \in Commands
        /\ proc[p].pc = "permitting" /\ proc'[p].pc = "permitted" /\ proc'[p].cmd = c
        /\ \A q \in Procs \ {p} : proc'[q] = proc[q]
        /\ row[c].state = "CLAIMED"
        /\ row'[c].state = "EFFECT_STARTED"
        /\ \A d \in Commands \ {c} : row'[d] = row[d]
        /\ UNCHANGED invoked
    BY <1>1, PermitEffectDoes DEF Permitted, runtime
  <2>2. NotStarted(c) /\ invoked[c] = 0
    BY <2>1 DEF NotStarted, DispatchInv
  <2>3. \A q \in Procs : proc[q].pc \in Dispatching => proc[q].cmd # c
    BY <2>2 DEF DispatchInv
  <2>4. \A q, r \in Procs :
          proc'[q].pc \in Dispatching /\ proc'[r].pc \in Dispatching /\ proc'[q].cmd = proc'[r].cmd
          => q = r
    BY <2>1, <2>3 DEF DispatchInv
  <2>5. \A q \in Procs : proc'[q].pc \in Dispatching =>
          ~NotStarted(proc[q].cmd)' /\ invoked'[proc'[q].cmd] = 0
    BY <1>0, <2>1, <2>2, <2>3 DEF DispatchInv, NotStarted
  <2>6. \A d \in Commands : NotStarted(d)' => invoked'[d] = 0
    BY <2>1 DEF DispatchInv, NotStarted
  <2>7. QED
    BY <2>1, <2>4, <2>5, <2>6 DEF DispatchInv, AtMostOneInvocation
<1>2. ASSUME NEW p \in Procs, Invoke(p)
      PROVE  DispatchInv'
  <2> DEFINE c == proc[p].cmd
  <2>1. /\ c \in Commands
        /\ proc[p].pc \in Dispatching /\ proc'[p].pc \notin Dispatching
        /\ \A q \in Procs \ {p} : proc'[q] = proc[q]
        /\ invoked' = [invoked EXCEPT ![c] = @ + 1]
        /\ UNCHANGED row
    BY <1>2, InvokeDoes DEF Dispatching, db
  <2>2. ~NotStarted(c) /\ invoked[c] = 0
    BY <2>1 DEF DispatchInv
  <2>3. invoked'[c] = 1 /\ \A d \in Commands \ {c} : invoked'[d] = invoked[d]
    BY <2>1, <2>2 DEF TypeOK
  <2>4. \A q \in Procs \ {p} : proc[q].pc \in Dispatching => proc[q].cmd # c
    BY <2>1 DEF DispatchInv
  <2>5. \A q \in Procs : proc'[q].pc \in Dispatching =>
          ~NotStarted(proc[q].cmd)' /\ invoked'[proc'[q].cmd] = 0
    BY <1>0, <2>1, <2>3, <2>4 DEF DispatchInv, NotStarted
  <2>6. \A d \in Commands : NotStarted(d)' => invoked'[d] = 0
    BY <2>1, <2>2, <2>3 DEF DispatchInv, NotStarted
  <2>7. \A q, r \in Procs :
          proc'[q].pc \in Dispatching /\ proc'[r].pc \in Dispatching /\ proc'[q].cmd = proc'[r].cmd
          => q = r
    BY <2>1 DEF DispatchInv
  <2>8. AtMostOneInvocation'
    BY <2>3 DEF DispatchInv, AtMostOneInvocation
  <2>9. QED
    BY <2>5, <2>6, <2>7, <2>8 DEF DispatchInv
<1>3. CASE ~ \E p \in Procs : PermitEffect(p) \/ Invoke(p)
  BY <1>3, OtherStepsQuiet, QuietKeepsDispatch
<1>4. QED
  BY <1>1, <1>2, <1>3

LEMMA DispatchInvariant == Spec => []DispatchInv
<1>1. Init => DispatchInv
  BY DEF Init, Idle, DispatchInv, Dispatching, AtMostOneInvocation, NotStarted
<1>2. TypeOK /\ DispatchInv /\ [Next]_vars => DispatchInv'
  BY NextKeepsDispatch
<1>3. QED
  BY <1>1, <1>2, TypeCorrect, PTL DEF Spec

\* The Runtime is asked at most once per command, for any number of worker
\* processes and any assignment of worker ids, own or shared: permit_effect
\* sends a process on its way only out of a CLAIMED row.
THEOREM AtMostOnce == Spec => []AtMostOneInvocation
<1>1. DispatchInv => AtMostOneInvocation
  BY DEF DispatchInv
<1>2. QED
  BY <1>1, DispatchInvariant, PTL

-----------------------------------------------------------------------------
(* Closed rows, and the refinement of EffectOnce                             *)

LEMMA NextKeepsClosed ==
    ASSUME TypeOK, [Next]_vars, NEW c \in Commands, row[c].state \in Terminal
    PROVE  row'[c] = row[c]
<1>0. row[c].state \notin {"ABSENT", "QUEUED", "CLAIMED", "EFFECT_STARTED"}
  BY DEF Terminal, Known, Uncertain
<1>1. ASSUME NEW p \in Procs, PermitEffect(p)
      PROVE  row'[c] = row[c]
  BY <1>0, <1>1, PermitEffectDoes DEF Permitted
<1>2. ASSUME NEW p \in Procs, Invoke(p)
      PROVE  row'[c] = row[c]
  BY <1>2, InvokeDoes DEF db
<1>3. CASE Quiet
  <2>1. CASE UNCHANGED row
    BY <2>1
  <2>2. ASSUME NEW d \in Commands, row' = [row EXCEPT ![d] = row'[d]], RowAdvances(d)
        PROVE  row'[c] = row[c]
    <3>1. c # d
      BY <1>0, <2>2 DEF RowAdvances, NotStarted
    <3>2. QED
      BY <2>2, <3>1 DEF TypeOK
  <2>3. QED
    BY <1>3, <2>1, <2>2 DEF Quiet
<1>4. QED
  BY <1>1, <1>2, <1>3, OtherStepsQuiet

\* A row that is SUCCEEDED, FAILED, UNKNOWN or RECOVERY_REQUIRED is never
\* written again, by any worker under any id.
THEOREM ClosedStaysClosed == Spec => ClosedRowIsFinal
<1>1. TypeOK /\ [Next]_vars =>
        [\A c \in Commands : row[c].state \in Terminal => row'[c] = row[c]]_vars
  BY NextKeepsClosed
<1>2. QED
  BY <1>1, TypeCorrect, PTL DEF Spec, ClosedRowIsFinal

LEMMA NextKeepsUnstarted ==
    ASSUME TypeOK, DispatchInv, [Next]_vars, NEW c \in Commands, NotStarted(c), Withdrawn(c)
    PROVE  NotStarted(c)' /\ invoked'[c] = 0
<1>0. invoked[c] = 0
  BY DEF DispatchInv
<1>1. ASSUME NEW p \in Procs, PermitEffect(p)
      PROVE  NotStarted(c)' /\ invoked'[c] = 0
  <2>1. proc[p].cmd # c
    BY <1>1, PermitEffectDoes DEF Permitted, Withdrawn, Barred
  <2>2. row'[c] = row[c] /\ UNCHANGED invoked
    BY <1>1, <2>1, PermitEffectDoes DEF runtime
  <2>3. QED
    BY <1>0, <2>2 DEF NotStarted
<1>2. ASSUME NEW p \in Procs, Invoke(p)
      PROVE  NotStarted(c)' /\ invoked'[c] = 0
  <2> DEFINE d == proc[p].cmd
  <2>1. /\ proc[p].pc \in Dispatching
        /\ invoked' = [invoked EXCEPT ![d] = @ + 1]
        /\ UNCHANGED row
    BY <1>2, InvokeDoes DEF Dispatching, db
  <2>2. d # c
    BY <2>1 DEF DispatchInv
  <2>3. QED
    BY <1>0, <2>1, <2>2 DEF NotStarted, TypeOK
<1>3. CASE Quiet
  BY <1>0, <1>3, QuietSides DEF Quiet
<1>4. QED
  BY <1>1, <1>2, <1>3, OtherStepsQuiet

\* Nobody restores a binding or takes an Attempt back to PENDING.
LEMMA NextKeepsBarred ==
    ASSUME TypeOK, [Next]_vars, NEW c \in Commands, NotStarted(c), Barred(c)
    PROVE  Barred(c)'
<1>1. ASSUME NEW p \in Procs, Step(p)
      PROVE  Barred(c)'
  <2> DEFINE d == proc[p].cmd
  <2>1. CASE PermitEffect(p)
    <3>1. d # c
      BY <2>1 DEF PermitEffect, Permitted, Barred
    <3>2. UNCHANGED authority /\ attempt' = [attempt EXCEPT ![d] = "RUNNING"]
      BY <2>1 DEF PermitEffect
    <3>3. QED
      BY <3>1, <3>2 DEF Barred, TypeOK
  <2>2. CASE RecordUncertain(p) \/ RecordCompletion(p)
    <3>1. d # c
      BY <2>2 DEF RecordUncertain, RecordCompletion, Recordable, NotStarted
    <3>2. UNCHANGED authority /\ attempt' = [attempt EXCEPT ![d] = proc[p].kind]
      BY <2>2 DEF RecordUncertain, RecordCompletion
    <3>3. QED
      BY <3>1, <3>2 DEF Barred, TypeOK
  <2>3. CASE UNCHANGED <<authority, attempt>>
    BY <2>3 DEF Barred
  <2>4. QED
    BY <1>1, <2>1, <2>2, <2>3
    DEF Step, ResumeEffectStarted, NothingToResume, ClaimNext, NothingToClaim, ReadClock,
        PermitReplayed, PermitRefused, CreateTask, CreateConflict, RecordCorrelation,
        CorrelationRefused, PatchRunning, Invoke, PatchTerminal, PatchNotFound,
        Observe, ObserveRefused, RecordRefused, db
<1>2. ASSUME NEW p \in Procs, Fault(p) \/ Restart(p)
      PROVE  Barred(c)'
  BY <1>2 DEF Fault, CreateLost, CreateWithoutUid, Abort, Crash, Restart, Barred, db
<1>3. ASSUME NEW d \in Commands, Environment(d)
      PROVE  Barred(c)'
  <2>1. CASE Withdraw(d) \/ Regrant(d)
    <3>1. PICK s : /\ "binding" \in s => "binding" \in authority[d]
                   /\ authority' = [authority EXCEPT ![d] = s]
      <4>1. CASE Withdraw(d)
        <5>1. PICK a \in authority[d] : authority' = [authority EXCEPT ![d] = authority[d] \ {a}]
          BY <4>1 DEF Withdraw
        <5>2. QED
          BY <5>1
      <4>2. CASE Regrant(d)
        <5>1. "binding" \in authority[d] \union {"grant"} => "binding" \in authority[d]
          OBVIOUS
        <5>2. QED
          BY <4>2, <5>1 DEF Regrant
      <4>3. QED
        BY <2>1, <4>1, <4>2
    <3>2. QED
      BY <2>1, <3>1 DEF Withdraw, Regrant, Barred, TypeOK
  <2>2. CASE Intervene(d)
    <3>1. PICK s : s # "PENDING" /\ attempt' = [attempt EXCEPT ![d] = s]
      BY <2>2 DEF Intervene, AttemptTransitions, Terminal, Known, Uncertain
    <3>2. QED
      BY <2>2, <3>1 DEF Intervene, Barred, TypeOK
  <2>3. CASE UNCHANGED <<authority, attempt>>
    BY <2>3 DEF Barred
  <2>4. QED
    BY <1>3, <2>1, <2>2, <2>3
    DEF Environment, Enqueue, LeaseExpires, DeleteTask, ForeignTask, db
<1>4. CASE UNCHANGED vars
  BY <1>4 DEF Barred, vars, db
<1>5. QED
  BY <1>1, <1>2, <1>3, <1>4 DEF Next

\* No effect starts while its authority is withdrawn, whatever claims are held,
\* taken over or taken anew; one whose binding is stale or whose Attempt was taken
\* elsewhere never starts, also after a new grant.
THEOREM WithdrawalHolds == Spec => NoEffectWhileWithdrawn
<1>1. TypeOK /\ DispatchInv /\ [Next]_vars =>
        [\A c \in Commands :
            NotStarted(c) /\ Withdrawn(c) => NotStarted(c)' /\ invoked'[c] = 0]_vars
  BY NextKeepsUnstarted
<1>2. ASSUME NEW c \in Commands
      PROVE  Spec => [](NotStarted(c) /\ Barred(c) => [](invoked[c] = 0))
  <2> DEFINE Kept == NotStarted(c) /\ Barred(c)
  <2>1. TypeOK /\ DispatchInv /\ Kept /\ [Next]_vars => Kept'
    BY NextKeepsUnstarted, NextKeepsBarred DEF Withdrawn
  <2>2. DispatchInv /\ Kept => invoked[c] = 0
    BY DEF DispatchInv
  <2> HIDE DEF Kept
  <2>3. Spec => [](Kept => [](invoked[c] = 0))
    BY <2>1, <2>2, TypeCorrect, DispatchInvariant, PTL DEF Spec
  <2>4. QED
    BY <2>3 DEF Kept
<1>3. Spec => \A c \in Commands : [](NotStarted(c) /\ Barred(c) => [](invoked[c] = 0))
  BY <1>2
<1>4. QED
  BY <1>1, <1>3, TypeCorrect, DispatchInvariant, PTL DEF Spec, NoEffectWhileWithdrawn

\* One process per configured worker id.
OwnWorkerIds == \A p, q \in Procs : WorkerId[p] = WorkerId[q] => p = q

\* A process on its way to the request holds the row's current claim, and the
\* row waits in EFFECT_STARTED for it: nobody else can close it.
SoleDispatcher ==
    \A p \in Procs : proc[p].pc \in Dispatching =>
        row[proc[p].cmd].state = "EFFECT_STARTED" /\ Current(p, proc[p].cmd)

LEMMA NextKeepsSole ==
    ASSUME OwnWorkerIds, TypeOK, SoleDispatcher, [Next]_vars
    PROVE  SoleDispatcher'
<1> SUFFICES ASSUME NEW q \in Procs, proc'[q].pc \in Dispatching
             PROVE  /\ row'[proc'[q].cmd].state = "EFFECT_STARTED"
                    /\ row'[proc'[q].cmd].gen = proc'[q].gen
                    /\ row'[proc'[q].cmd].worker = WorkerId[q]
  BY DEF SoleDispatcher, Current
<1>0. proc[q].pc \in Dispatching =>
        /\ proc[q].cmd \in Commands
        /\ row[proc[q].cmd].state = "EFFECT_STARTED"
        /\ row[proc[q].cmd].gen = proc[q].gen
        /\ row[proc[q].cmd].worker = WorkerId[q]
  BY DEF TypeOK, Dispatching, Working, SoleDispatcher, Current
<1>1. ASSUME NEW p \in Procs, PermitEffect(p)
      PROVE  /\ row'[proc'[q].cmd].state = "EFFECT_STARTED"
             /\ row'[proc'[q].cmd].gen = proc'[q].gen
             /\ row'[proc'[q].cmd].worker = WorkerId[q]
  <2> DEFINE c == proc[p].cmd
  <2>1. /\ c \in Commands
        /\ proc'[p].cmd = c /\ proc'[p].gen = proc[p].gen
        /\ \A r \in Procs \ {p} : proc'[r] = proc[r]
        /\ row[c].state = "CLAIMED" /\ Current(p, c)
        /\ row'[c].state = "EFFECT_STARTED"
        /\ row'[c].gen = row[c].gen /\ row'[c].worker = row[c].worker
        /\ \A d \in Commands \ {c} : row'[d] = row[d]
    BY <1>1, PermitEffectDoes DEF Permitted
  <2>2. CASE q = p
    BY <2>1, <2>2 DEF Current
  <2>3. CASE q # p
    <3>1. proc'[q] = proc[q] /\ proc[q].cmd # c
      BY <1>0, <2>1, <2>3
    <3>2. QED
      BY <1>0, <2>1, <3>1
  <2>4. QED
    BY <2>2, <2>3
<1>2. ASSUME NEW p \in Procs, Invoke(p)
      PROVE  /\ row'[proc'[q].cmd].state = "EFFECT_STARTED"
             /\ row'[proc'[q].cmd].gen = proc'[q].gen
             /\ row'[proc'[q].cmd].worker = WorkerId[q]
  <2>1. proc'[p].pc \notin Dispatching /\ UNCHANGED row /\ \A r \in Procs \ {p} : proc'[r] = proc[r]
    BY <1>2, InvokeDoes DEF Dispatching, db
  <2>2. QED
    BY <1>0, <2>1
<1>3. CASE Quiet
  <2> DEFINE c == proc[q].cmd
  <2>1. proc[q].pc \in Dispatching /\ proc'[q].cmd = c /\ proc'[q].gen = proc[q].gen
    BY <1>3 DEF Quiet, NoNewDispatcher
  <2>2. CASE UNCHANGED row
    BY <1>0, <2>1, <2>2
  <2>3. ASSUME NEW d \in Commands, row' = [row EXCEPT ![d] = row'[d]], RowAdvances(d)
        PROVE  /\ row'[c].state = "EFFECT_STARTED"
               /\ row'[c].gen = proc[q].gen
               /\ row'[c].worker = WorkerId[q]
    <3>1. CASE c # d
      BY <1>0, <2>1, <2>3, <3>1 DEF TypeOK
    <3>2. CASE c = d
      <4>1. ASSUME NEW p \in Procs, Current(p, c), proc[p].pc = "finishing" PROVE FALSE
        <5>1. WorkerId[p] = WorkerId[q]
          BY <1>0, <2>1, <4>1 DEF Current
        <5>2. QED
          BY <2>1, <4>1, <5>1 DEF OwnWorkerIds, Dispatching
      <4>2. ~NotStarted(c)
        BY <1>0, <2>1 DEF NotStarted
      <4>3. QED
        BY <1>0, <2>1, <2>3, <3>2, <4>1, <4>2 DEF RowAdvances
    <3>3. QED
      BY <3>1, <3>2
  <2>4. QED
    BY <1>3, <2>1, <2>2, <2>3, <1>0 DEF Quiet
<1>4. QED
  BY <1>1, <1>2, <1>3, OtherStepsQuiet

\* The refinement mapping, as a state function.
PhaseOfRow(state) ==
    IF state \in {"ABSENT", "QUEUED", "CLAIMED"} THEN "pending"
    ELSE IF state = "EFFECT_STARTED" THEN "permitted" ELSE "closed"

PhaseMap == [c \in Commands |-> PhaseOfRow(row[c].state)]

LEMMA StepRefines ==
    ASSUME OwnWorkerIds, TypeOK, DispatchInv, SoleDispatcher, [Next]_vars
    PROVE  \/ UNCHANGED <<PhaseMap, invoked>>
           \/ \E c \in Commands :
                \/ PhaseMap[c] = "pending" /\ PhaseMap' = [PhaseMap EXCEPT ![c] = "permitted"]
                   /\ UNCHANGED invoked
                \/ PhaseMap[c] = "permitted" /\ invoked[c] = 0
                   /\ invoked' = [invoked EXCEPT ![c] = 1] /\ UNCHANGED PhaseMap
                \/ PhaseMap[c] = "permitted" /\ PhaseMap' = [PhaseMap EXCEPT ![c] = "closed"]
                   /\ UNCHANGED invoked
<1>1. ASSUME NEW p \in Procs, PermitEffect(p)
      PROVE  \E c \in Commands :
               PhaseMap[c] = "pending" /\ PhaseMap' = [PhaseMap EXCEPT ![c] = "permitted"]
               /\ UNCHANGED invoked
  <2> DEFINE c == proc[p].cmd
  <2>1. /\ c \in Commands
        /\ row[c].state = "CLAIMED"
        /\ row'[c].state = "EFFECT_STARTED"
        /\ \A d \in Commands \ {c} : row'[d] = row[d]
        /\ UNCHANGED invoked
    BY <1>1, PermitEffectDoes DEF Permitted, runtime
  <2>2. PhaseMap[c] = "pending" /\ PhaseMap' = [PhaseMap EXCEPT ![c] = "permitted"]
    BY <2>1 DEF PhaseMap, PhaseOfRow
  <2>3. QED
    BY <2>1, <2>2
<1>2. ASSUME NEW p \in Procs, Invoke(p)
      PROVE  \E c \in Commands :
               PhaseMap[c] = "permitted" /\ invoked[c] = 0
               /\ invoked' = [invoked EXCEPT ![c] = 1] /\ UNCHANGED PhaseMap
  <2> DEFINE c == proc[p].cmd
  <2>1. /\ c \in Commands
        /\ proc[p].pc \in Dispatching
        /\ invoked' = [invoked EXCEPT ![c] = @ + 1]
        /\ UNCHANGED row
    BY <1>2, InvokeDoes DEF Dispatching, db
  <2>2. row[c].state = "EFFECT_STARTED" /\ invoked[c] = 0
    BY <2>1 DEF DispatchInv, SoleDispatcher
  <2>3. PhaseMap[c] = "permitted" /\ UNCHANGED PhaseMap
    BY <2>1, <2>2 DEF PhaseMap, PhaseOfRow
  <2>4. invoked' = [invoked EXCEPT ![c] = 1]
    BY <2>1, <2>2
  <2>5. QED
    BY <2>1, <2>2, <2>3, <2>4
<1>3. CASE Quiet
  <2>1. CASE UNCHANGED row
    BY <1>3, <2>1 DEF Quiet, PhaseMap
  <2>2. ASSUME NEW c \in Commands, row' = [row EXCEPT ![c] = row'[c]], RowAdvances(c)
        PROVE  \/ UNCHANGED PhaseMap
               \/ PhaseMap[c] = "permitted" /\ PhaseMap' = [PhaseMap EXCEPT ![c] = "closed"]
    <3>1. \A d \in Commands \ {c} : row'[d] = row[d]
      BY <2>2 DEF TypeOK
    <3>2. CASE NotStarted(c) /\ NotStarted(c)'
      BY <3>1, <3>2 DEF NotStarted, PhaseMap, PhaseOfRow
    <3>3. CASE row[c].state = "EFFECT_STARTED" /\ row'[c].state = "EFFECT_STARTED"
      BY <3>1, <3>3 DEF PhaseMap, PhaseOfRow
    <3>4. CASE row[c].state = "EFFECT_STARTED" /\ row'[c].state \in Terminal
      BY <3>1, <3>4 DEF PhaseMap, PhaseOfRow, Terminal, Known, Uncertain
    <3>5. QED
      BY <2>2, <3>2, <3>3, <3>4 DEF RowAdvances
  <2>3. QED
    BY <1>3, <2>1, <2>2 DEF Quiet
<1>4. QED
  BY <1>1, <1>2, <1>3, OtherStepsQuiet

\* With one process per worker id, the worker implements EffectOnce: a request
\* is sent once at most and only between EFFECT_STARTED and the closing of the
\* row, over every fault and every clock.
THEOREM Refinement == OwnWorkerIds => (Spec => ImplementsEffectOnce)
<1> SUFFICES ASSUME OwnWorkerIds PROVE Spec => ImplementsEffectOnce
  OBVIOUS
<1> DEFINE Map == [c \in Commands |-> IF NotStarted(c) THEN "pending"
                                      ELSE IF row[c].state = "EFFECT_STARTED" THEN "permitted"
                                      ELSE "closed"]
<1>1. Init => SoleDispatcher
  BY DEF Init, Idle, SoleDispatcher, Dispatching
<1>2. TypeOK /\ SoleDispatcher /\ [Next]_vars => SoleDispatcher'
  BY NextKeepsSole
<1>3. Map = PhaseMap /\ Map' = PhaseMap'
  BY DEF PhaseMap, PhaseOfRow, NotStarted
<1>4. Init => EO!Init
  BY DEF Init, EO!Init, NotStarted
<1>5. TypeOK /\ DispatchInv /\ SoleDispatcher /\ [Next]_vars => [EO!Next]_<<Map, invoked>>
  <2> SUFFICES ASSUME TypeOK, DispatchInv, SoleDispatcher, [Next]_vars
               PROVE  [EO!Next]_<<Map, invoked>>
    OBVIOUS
  <2> HIDE DEF Map
  <2>1. CASE UNCHANGED <<PhaseMap, invoked>>
    BY <1>3, <2>1
  <2>2. ASSUME NEW c \in Commands, PhaseMap[c] = "pending",
               PhaseMap' = [PhaseMap EXCEPT ![c] = "permitted"], UNCHANGED invoked
        PROVE  EO!Next
    <3>1. EO!Permit(c)
      BY <1>3, <2>2 DEF EO!Permit, Map
    <3>2. QED
      BY <3>1 DEF EO!Next
  <2>3. ASSUME NEW c \in Commands, PhaseMap[c] = "permitted", invoked[c] = 0,
               invoked' = [invoked EXCEPT ![c] = 1], UNCHANGED PhaseMap
        PROVE  EO!Next
    <3>1. EO!Perform(c)
      BY <1>3, <2>3 DEF EO!Perform, Map
    <3>2. QED
      BY <3>1 DEF EO!Next
  <2>4. ASSUME NEW c \in Commands, PhaseMap[c] = "permitted",
               PhaseMap' = [PhaseMap EXCEPT ![c] = "closed"], UNCHANGED invoked
        PROVE  EO!Next
    <3>1. EO!Close(c)
      BY <1>3, <2>4 DEF EO!Close, Map
    <3>2. QED
      BY <3>1 DEF EO!Next
  <2>5. QED
    BY <2>1, <2>2, <2>3, <2>4, StepRefines
<1>6. QED
  BY <1>1, <1>2, <1>4, <1>5, TypeCorrect, DispatchInvariant, PTL
  DEF Spec, ImplementsEffectOnce, EO!Spec, Map
=============================================================================
