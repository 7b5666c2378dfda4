---------------------------- MODULE NativeDispatch ----------------------------
(***************************************************************************)
(* The native dispatch worker of the operator and the durable command rows *)
(* it works from.                                                          *)
(*                                                                         *)
(* A command is a row of native_dispatch_commands in PostgreSQL.  Worker   *)
(* processes poll for rows, claim one under a lease, cross the             *)
(* linearization point "EFFECT_STARTED", create one Kubernetes Task, call  *)
(* the Agent Runtime once and record what they observed.  Each transaction *)
(* and each API call of run_claim is one action, so a process can be       *)
(* overtaken, raise an exception or die between any two of them.           *)
(*                                                                         *)
(* Data abstractions.                                                      *)
(*  - claim_generation and fencing_token change together, in claim_next    *)
(*    only, and the token is fresh: one number "gen" stands for both.      *)
(*  - the Task name is a function of the command, so task[c] is whatever   *)
(*    object lives under that name, and its uid is the ordinal of that     *)
(*    object among those that ever had the name (0: no uid, SQL NULL).     *)
(*  - a terminal observation is identified by its digest, which covers the *)
(*    time of the observation: two observations never share one, so a row  *)
(*    with a terminal digest refuses every further observation.            *)
(*  - Commands are numbered in the order (queued_at, command_id).          *)
(***************************************************************************)
EXTENDS Integers, Sequences, FiniteSets

CONSTANTS
    Commands,     \* the dispatch commands, positive integers
    Procs,        \* the worker processes
    WorkerId,     \* [Procs -> ids], the configured NATIVE_DISPATCH_WORKER_ID
    ClockSkew,    \* may a process judge another's lease by a fast or slow clock?
    Answers,      \* how the Runtime may answer: subset of AllAnswers
    Upsets,       \* what may befall the system: subset of AllUpsets
    MaxUpsets,    \* how many such events happen in one behaviour
    MaxGen        \* the generation at which a command's counter stands still

AllAnswers == {"ok", "unusable", "error", "lost"}

AllUpsets == {"abort", "crash", "lost", "nouid", "delete", "foreign",
              "expire", "withdraw", "intervene"}

ASSUME CommandsAssumption == Commands \subseteq Nat \ {0} /\ IsFiniteSet(Commands)
ASSUME WorkerIdAssumption == WorkerId \in [Procs -> Nat \ {0}]
ASSUME ClockSkewAssumption == ClockSkew \in BOOLEAN
ASSUME AnswersAssumption == Answers \subseteq AllAnswers
ASSUME UpsetsAssumption == Upsets \subseteq AllUpsets
ASSUME BoundsAssumption == MaxUpsets \in Nat /\ MaxGen \in Nat \ {0}

VARIABLES
    row,        \* native_dispatch_commands
    facts,      \* native_dispatch_facts: kinds in ordinal order
    attempt,    \* attempts.control_state of the command's Attempt
    authority,  \* what still holds of the persisted binding and the grant
    outcome,    \* evidence and outcome rows written for the command
    task,       \* the Kubernetes Task under the command's name
    objects,    \* Task objects ever created under that name
    proc,       \* the local state of each worker process
    invoked,    \* requests sent to the Runtime for the command
    answer,     \* what the Runtime made of the last of them
    upsets      \* events from Upsets so far

db == <<row, facts, attempt, authority, outcome>>
kubernetes == <<task, objects>>
runtime == <<invoked, answer>>
vars == <<db, kubernetes, runtime, proc, upsets>>

-----------------------------------------------------------------------------
Uncertain == {"UNKNOWN", "RECOVERY_REQUIRED"}
Known == {"SUCCEEDED", "FAILED"}
Terminal == Known \union Uncertain

\* "ABSENT": the command has not been queued yet.
States == {"ABSENT", "QUEUED", "CLAIMED", "EFFECT_STARTED"} \union Terminal

FactKinds == {"QUEUED", "CLAIMED", "EFFECT_STARTED", "CORRELATED"} \union Terminal

AttemptStates == {"PENDING", "PLACED", "RUNNING", "CANCELLATION_PENDING",
                  "CANCELLED"} \union Terminal

\* A Succeeded Task whose result the terminal contract refuses (blank or
\* longer than 32 KiB) is told apart from one with a usable result.
Phases == {"none", "Running", "Succeeded", "Unusable", "Failed"}

NoTask == [uid |-> 0, gen |-> 0, phase |-> "none"]

Idle == [pc |-> "idle", cmd |-> 0, gen |-> 0, fresh |-> FALSE,
         uid |-> 0, kind |-> "none"]

\* A process that holds a claim, and one that does not.
Polling == {"down", "idle", "claiming"}
Working == {"claimed", "permitting", "permitted", "created", "correlated",
            "running", "answered", "observing", "finishing"}

Rows == [state : States, gen : Nat, worker : Nat, expired : BOOLEAN,
         uid : Nat, started : Nat]

Tasks == [uid : Nat, gen : Nat, phase : Phases]

Locals == [pc : Polling \union Working, cmd : Commands \union {0}, gen : Nat,
           fresh : BOOLEAN, uid : Nat,
           kind : AllAnswers \union Terminal \union {"none"}]

\* Every variable has its type, and a process at work has a command.
TypeOK ==
    /\ row \in [Commands -> Rows]
    /\ facts \in [Commands -> Seq(FactKinds)]
    /\ attempt \in [Commands -> AttemptStates]
    /\ authority \in [Commands -> SUBSET {"binding", "grant"}]
    /\ outcome \in [Commands -> Known \union {"none"}]
    /\ task \in [Commands -> Tasks]
    /\ objects \in [Commands -> Nat]
    /\ proc \in [Procs -> Locals]
    /\ \A p \in Procs : proc[p].pc \in Working => proc[p].cmd \in Commands
    /\ invoked \in [Commands -> Nat]
    /\ answer \in [Commands -> AllAnswers \union {"none"}]
    /\ upsets \in 0 .. MaxUpsets

Init ==
    /\ row = [c \in Commands |-> [state |-> "ABSENT", gen |-> 0, worker |-> 0,
                                  expired |-> FALSE, uid |-> 0, started |-> 0]]
    /\ facts = [c \in Commands |-> << >>]
    /\ attempt = [c \in Commands |-> "PENDING"]
    /\ authority = [c \in Commands |-> {"binding", "grant"}]
    /\ outcome = [c \in Commands |-> "none"]
    /\ task = [c \in Commands |-> NoTask]
    /\ objects = [c \in Commands |-> 0]
    /\ proc = [p \in Procs |-> Idle]
    /\ invoked = [c \in Commands |-> 0]
    /\ answer = [c \in Commands |-> "none"]
    /\ upsets = 0

-----------------------------------------------------------------------------
(* Helpers                                                                 *)

\* One event of kind u happens to the system.
Upset(u) ==
    /\ u \in Upsets
    /\ upsets < MaxUpsets
    /\ upsets' = upsets + 1

\* The process leaves run_once: normally, or because an exception reached
\* the polling loop, which logs it and polls again.
Return(p) == proc' = [proc EXCEPT ![p] = Idle]

Goto(p, pc) == proc' = [proc EXCEPT ![p].pc = pc]

\* _dispatch_fact: the next ordinal of the command's journal.
Fact(c, kind) == facts' = [facts EXCEPT ![c] = Append(@, kind)]

\* FOR UPDATE SKIP LOCKED passes over rows another transaction holds; only a
\* process at work on the command can be inside one.
MayBeLocked(p, c) ==
    \E q \in Procs \ {p} : proc[q].pc \in Working /\ proc[q].cmd = c

\* _locked_claim: generation, token and worker of the claim are the row's.
Current(p, c) ==
    /\ row[c].gen = proc[p].gen
    /\ row[c].worker = WorkerId[p]

\* KubernetesNativeTaskPort._matches: labels and annotations of the Task
\* carry this command and this claim.
Matches(p, body) == body.gen = proc[p].gen

NotStarted(c) == row[c].state \in {"ABSENT", "QUEUED", "CLAIMED"}

StartedEffects == {c \in Commands : row[c].started > 0}

-----------------------------------------------------------------------------
(* The console backend queues a command                                    *)

\* enqueue: the binding is re-read and the Attempt must still be PENDING; the
\* grant is not looked at.  Queueing an existing command again changes nothing.
Enqueue(c) ==
    /\ row[c].state = "ABSENT"
    /\ "binding" \in authority[c]
    /\ attempt[c] = "PENDING"
    /\ row' = [row EXCEPT ![c].state = "QUEUED"]
    /\ Fact(c, "QUEUED")
    /\ UNCHANGED <<attempt, authority, outcome, kubernetes, runtime, proc, upsets>>

-----------------------------------------------------------------------------
(* One worker process: run_once                                            *)

\* Mutant: a started effect is never taken up again.
ResumableNever(p, c) == FALSE

Resumable(p, c) ==
    row[c].state = "EFFECT_STARTED" /\ row[c].worker = WorkerId[p]

\* resume_effect_started: the oldest started effect of this worker id is taken
\* up again under the generation and token already in the row.
ResumeEffectStarted(p) ==
    /\ proc[p].pc = "idle"
    /\ \E c \in Commands :
        /\ Resumable(p, c)
        /\ \A d \in Commands :
            Resumable(p, d) /\ row[d].started < row[c].started => MayBeLocked(p, d)
        /\ proc' = [proc EXCEPT ![p] = [Idle EXCEPT !.pc = "claimed", !.cmd = c,
                                                    !.gen = row[c].gen]]
    /\ UNCHANGED <<db, kubernetes, runtime, upsets>>

NothingToResume(p) ==
    /\ proc[p].pc = "idle"
    /\ \A c \in Commands : Resumable(p, c) => MayBeLocked(p, c)
    /\ Goto(p, "claiming")
    /\ UNCHANGED <<db, kubernetes, runtime, upsets>>

\* Mutant: an unresolved command is claimed anew.
ClaimableWhenUnknown(c) ==
    row[c].state \in {"QUEUED", "UNKNOWN"} \/ (row[c].state = "CLAIMED" /\ row[c].expired)

\* Mutant: an expired lease is never taken over.
ClaimableWhenQueued(c) == row[c].state = "QUEUED"

Claimable(c) ==
    row[c].state = "QUEUED" \/ (row[c].state = "CLAIMED" /\ (row[c].expired \/ ClockSkew))

\* Claims are never refused for their number.  From MaxGen on the counter and the
\* journal stand still, which nobody can tell as long as no other process holds
\* a claim on the row: the token it would compare with the row's is then gone.
NextGen(c) == IF row[c].gen < MaxGen THEN row[c].gen + 1 ELSE row[c].gen

\* claim_next: the first queued row, or claimed row whose lease ran out, gets a
\* new generation, token, worker and lease.
ClaimNext(p) ==
    /\ proc[p].pc = "claiming"
    /\ \E c \in Commands :
        /\ Claimable(c)
        /\ \A d \in Commands : Claimable(d) /\ d < c => MayBeLocked(p, d)
        /\ row[c].gen < MaxGen \/ ~MayBeLocked(p, c)
        /\ row' = [row EXCEPT ![c].state = "CLAIMED", ![c].gen = NextGen(c),
                              ![c].worker = WorkerId[p], ![c].expired = FALSE]
        /\ IF row[c].gen < MaxGen THEN Fact(c, "CLAIMED") ELSE UNCHANGED facts
        /\ proc' = [proc EXCEPT ![p] = [Idle EXCEPT !.pc = "claimed", !.cmd = c,
                                                    !.gen = NextGen(c)]]
    /\ UNCHANGED <<attempt, authority, outcome, kubernetes, runtime, upsets>>

NothingToClaim(p) ==
    /\ proc[p].pc = "claiming"
    /\ \A c \in Commands : Claimable(c) => MayBeLocked(p, c)
    /\ Return(p)
    /\ UNCHANGED <<db, kubernetes, runtime, upsets>>

-----------------------------------------------------------------------------
(* run_claim                                                               *)

\* permit_effect reads the clock before its transaction takes the row lock.
ReadClock(p) ==
    /\ proc[p].pc = "claimed"
    /\ LET live == ~row[proc[p].cmd].expired IN
        \E now \in IF ClockSkew THEN BOOLEAN ELSE {live} :
            proc' = [proc EXCEPT ![p].pc = "permitting", ![p].fresh = now]
    /\ UNCHANGED <<db, kubernetes, runtime, upsets>>

\* Mutant: a started effect is dispatched again instead of observed.
PermitDispatchesAgain(p) ==
    LET c == proc[p].cmd IN
    /\ proc[p].pc = "permitting"
    /\ Current(p, c)
    /\ row[c].state = "EFFECT_STARTED"
    /\ Goto(p, "permitted")
    /\ UNCHANGED <<db, kubernetes, runtime, upsets>>

\* permit_effect of an effect that already started: observe only.
PermitReplayed(p) ==
    LET c == proc[p].cmd IN
    /\ proc[p].pc = "permitting"
    /\ Current(p, c)
    /\ row[c].state = "EFFECT_STARTED"
    /\ Goto(p, "observing")
    /\ UNCHANGED <<db, kubernetes, runtime, upsets>>

\* Mutant: the authority read when the command was queued is trusted.
PermittedUnchecked(p, c) ==
    /\ Current(p, c)
    /\ row[c].state = "CLAIMED"
    /\ proc[p].fresh

\* The conditions under which permit_effect commits a new effect: the claim is
\* the row's, its lease was live, the persisted binding is exact, the Attempt
\* is PENDING and the grant is in force, all read in the same transaction.
Permitted(p, c) ==
    /\ Current(p, c)
    /\ row[c].state = "CLAIMED"
    /\ proc[p].fresh
    /\ authority[c] = {"binding", "grant"}
    /\ attempt[c] = "PENDING"

\* Mutant: the Attempt is left PENDING.
PermitEffectOnly(p) ==
    LET c == proc[p].cmd IN
    /\ proc[p].pc = "permitting"
    /\ Permitted(p, c)
    /\ row' = [row EXCEPT ![c].state = "EFFECT_STARTED", ![c].expired = FALSE,
                          ![c].started = Cardinality(StartedEffects) + 1]
    /\ Fact(c, "EFFECT_STARTED")
    /\ Goto(p, "permitted")
    /\ UNCHANGED <<attempt, authority, outcome, kubernetes, runtime, upsets>>

PermitEffect(p) ==
    LET c == proc[p].cmd IN
    /\ proc[p].pc = "permitting"
    /\ Permitted(p, c)
    /\ row' = [row EXCEPT ![c].state = "EFFECT_STARTED", ![c].expired = FALSE,
                          ![c].started = Cardinality(StartedEffects) + 1]
    /\ attempt' = [attempt EXCEPT ![c] = "RUNNING"]
    /\ Fact(c, "EFFECT_STARTED")
    /\ Goto(p, "permitted")
    /\ UNCHANGED <<authority, outcome, kubernetes, runtime, upsets>>

\* NATIVE_DISPATCH_CLAIM_STALE or NATIVE_DISPATCH_EFFECT_NOT_AUTHORIZED: the
\* row stays as it is, a claim stays claimed until its lease runs out.
PermitRefused(p) ==
    LET c == proc[p].cmd IN
    /\ proc[p].pc = "permitting"
    /\ ~(Current(p, c) /\ row[c].state = "EFFECT_STARTED")
    /\ ~Permitted(p, c)
    /\ Return(p)
    /\ UNCHANGED <<db, kubernetes, runtime, upsets>>

\* The Task that create() leaves behind: a new one carrying the claim, or,
\* after a 409, the one that already has the name.
CreatedTask(p, c) ==
    IF task[c] = NoTask
    THEN [uid |-> objects[c] + 1, gen |-> proc[p].gen, phase |-> "none"]
    ELSE task[c]

ApplyCreate(p, c) ==
    /\ task' = [task EXCEPT ![c] = CreatedTask(p, c)]
    /\ objects' = [objects EXCEPT ![c] = IF task[c] = NoTask THEN @ + 1 ELSE @]

CreateTask(p) ==
    LET c == proc[p].cmd IN
    /\ proc[p].pc = "permitted"
    /\ Matches(p, CreatedTask(p, c))
    /\ ApplyCreate(p, c)
    /\ proc' = [proc EXCEPT ![p].pc = "created", ![p].uid = CreatedTask(p, c).uid]
    /\ UNCHANGED <<db, runtime, upsets>>

\* KUBERNETES_TASK_CORRELATION_CONFLICT: the name belongs to another object.
CreateConflict(p) ==
    LET c == proc[p].cmd IN
    /\ proc[p].pc = "permitted"
    /\ ~Matches(p, CreatedTask(p, c))
    /\ Return(p)
    /\ UNCHANGED <<db, kubernetes, runtime, upsets>>

\* The API server created the Task and the answer never arrived.
CreateLost(p) ==
    /\ proc[p].pc = "permitted"
    /\ Upset("lost")
    /\ ApplyCreate(p, proc[p].cmd)
    /\ Return(p)
    /\ UNCHANGED <<db, runtime>>

\* KUBERNETES_TASK_UID_MISSING: the Task comes back without a uid.
CreateWithoutUid(p) ==
    /\ proc[p].pc = "permitted"
    /\ Upset("nouid")
    /\ Matches(p, CreatedTask(p, proc[p].cmd))
    /\ ApplyCreate(p, proc[p].cmd)
    /\ proc' = [proc EXCEPT ![p].pc = "finishing", ![p].kind = "RECOVERY_REQUIRED"]
    /\ UNCHANGED <<db, runtime>>

Correlatable(p, c) ==
    /\ Current(p, c)
    /\ row[c].state = "EFFECT_STARTED"
    /\ row[c].uid \in {0, proc[p].uid}

\* Mutant: the correlation is stored without its fact.
RecordCorrelationSilently(p) ==
    LET c == proc[p].cmd IN
    /\ proc[p].pc = "created"
    /\ Correlatable(p, c)
    /\ row' = [row EXCEPT ![c].uid = proc[p].uid]
    /\ Goto(p, "correlated")
    /\ UNCHANGED <<facts, attempt, authority, outcome, kubernetes, runtime, upsets>>

\* record_kubernetes_correlation
RecordCorrelation(p) ==
    LET c == proc[p].cmd IN
    /\ proc[p].pc = "created"
    /\ Correlatable(p, c)
    /\ row' = [row EXCEPT ![c].uid = proc[p].uid]
    /\ IF row[c].uid = 0 THEN Fact(c, "CORRELATED") ELSE UNCHANGED facts
    /\ Goto(p, "correlated")
    /\ UNCHANGED <<attempt, authority, outcome, kubernetes, runtime, upsets>>

CorrelationRefused(p) ==
    /\ proc[p].pc = "created"
    /\ ~Correlatable(p, proc[p].cmd)
    /\ Return(p)
    /\ UNCHANGED <<db, kubernetes, runtime, upsets>>

\* patch_status names the Task only: it lands on whatever object has the name
\* and fails (404) when there is none.
PatchRunning(p) ==
    LET c == proc[p].cmd IN
    /\ proc[p].pc = "correlated"
    /\ task[c] # NoTask
    /\ task' = [task EXCEPT ![c].phase = "Running"]
    /\ Goto(p, "running")
    /\ UNCHANGED <<db, objects, runtime, upsets>>

\* transport.invoke: one request to the Runtime.  A lost answer leaves it open
\* whether the Runtime acted; the worker goes straight to record_uncertain.
Invoke(p) ==
    LET c == proc[p].cmd IN
    /\ proc[p].pc = "running"
    /\ invoked' = [invoked EXCEPT ![c] = @ + 1]
    /\ \E a \in Answers :
        /\ answer' = [answer EXCEPT ![c] = a]
        /\ proc' = [proc EXCEPT ![p].pc = IF a = "lost" THEN "finishing" ELSE "answered",
                                ![p].kind = IF a = "lost" THEN "UNKNOWN" ELSE a]
    /\ UNCHANGED <<db, kubernetes, upsets>>

\* Mutant: a failed request is written as TimedOut.
PhaseTimedOut(a) == IF a = "ok" THEN "Succeeded" ELSE "TimedOut"

PhaseOf(a) == CASE a = "ok" -> "Succeeded"
                [] a = "unusable" -> "Unusable"
                [] OTHER -> "Failed"

PatchTerminal(p) ==
    LET c == proc[p].cmd IN
    /\ proc[p].pc = "answered"
    /\ task[c] # NoTask
    /\ task' = [task EXCEPT ![c].phase = PhaseOf(proc[p].kind)]
    /\ Goto(p, "observing")
    /\ UNCHANGED <<db, objects, runtime, upsets>>

PatchNotFound(p) ==
    /\ proc[p].pc \in {"correlated", "answered"}
    /\ task[proc[p].cmd] = NoTask
    /\ Return(p)
    /\ UNCHANGED <<db, kubernetes, runtime, upsets>>

\* Mutant: a Task without a terminal phase counts as failed.
ObservedFailure(body) ==
    CASE body = NoTask -> "RECOVERY_REQUIRED"
      [] body.phase = "Succeeded" -> "SUCCEEDED"
      [] OTHER -> "FAILED"

\* _terminal_observation: the kind the Task's status stands for.
ObservedKind(body) ==
    CASE body = NoTask -> "RECOVERY_REQUIRED"
      [] body.phase = "Succeeded" -> "SUCCEEDED"
      [] body.phase = "Failed" -> "FAILED"
      [] OTHER -> "UNKNOWN"

\* A read that yields an observation: the Task is gone, or it carries this
\* claim and its status fits the terminal contract.
Observable(p, body) == body = NoTask \/ (Matches(p, body) /\ body.phase # "Unusable")

Observe(p) ==
    LET body == task[proc[p].cmd] IN
    /\ proc[p].pc = "observing"
    /\ Observable(p, body)
    /\ proc' = [proc EXCEPT ![p].pc = "finishing", ![p].uid = body.uid,
                            ![p].kind = ObservedKind(body)]
    /\ UNCHANGED <<db, kubernetes, runtime, upsets>>

\* KUBERNETES_TASK_CORRELATION_CONFLICT, or INVALID_TERMINAL_OBSERVATION from
\* the constructor of the observation.
ObserveRefused(p) ==
    /\ proc[p].pc = "observing"
    /\ ~Observable(p, task[proc[p].cmd])
    /\ Return(p)
    /\ UNCHANGED <<db, kubernetes, runtime, upsets>>

\* Mutant: the state of the row is not looked at.
RecordableAnyState(p, c) ==
    /\ Current(p, c)
    /\ \/ proc[p].kind \in Uncertain /\ row[c].uid = 0
       \/ proc[p].uid = row[c].uid

\* record_uncertain accepts an observation without uid only for a row that was
\* never correlated; append_native_completion wants the row's own uid.
Recordable(p, c) ==
    /\ Current(p, c)
    /\ row[c].state = "EFFECT_STARTED"
    /\ \/ proc[p].kind \in Uncertain /\ row[c].uid = 0
       \/ proc[p].uid = row[c].uid

\* record_uncertain: the row, the Attempt and the journal, no outcome.
RecordUncertain(p) ==
    LET c == proc[p].cmd IN
    /\ proc[p].pc = "finishing"
    /\ proc[p].kind \in Uncertain
    /\ Recordable(p, c)
    /\ row' = [row EXCEPT ![c].state = proc[p].kind]
    /\ attempt' = [attempt EXCEPT ![c] = proc[p].kind]
    /\ Fact(c, proc[p].kind)
    /\ Return(p)
    /\ UNCHANGED <<authority, outcome, kubernetes, runtime, upsets>>

\* append_native_completion: the row, the Attempt, evidence, outcome and the
\* journal in one transaction.
RecordCompletion(p) ==
    LET c == proc[p].cmd IN
    /\ proc[p].pc = "finishing"
    /\ proc[p].kind \in Known
    /\ Recordable(p, c)
    /\ row' = [row EXCEPT ![c].state = proc[p].kind]
    /\ attempt' = [attempt EXCEPT ![c] = proc[p].kind]
    /\ outcome' = [outcome EXCEPT ![c] = proc[p].kind]
    /\ Fact(c, proc[p].kind)
    /\ Return(p)
    /\ UNCHANGED <<authority, kubernetes, runtime, upsets>>

RecordRefused(p) ==
    /\ proc[p].pc = "finishing"
    /\ ~Recordable(p, proc[p].cmd)
    /\ Return(p)
    /\ UNCHANGED <<db, kubernetes, runtime, upsets>>

-----------------------------------------------------------------------------
(* What befalls the system                                                 *)

\* Any call of run_claim may raise: the transaction rolls back, the API is
\* unreachable, the evidence writer is not active.
Abort(p) ==
    /\ proc[p].pc \in Working
    /\ Upset("abort")
    /\ Return(p)
    /\ UNCHANGED <<db, kubernetes, runtime>>

\* The operator process dies; its polling thread starts afresh with the same
\* configured worker id.
Crash(p) ==
    /\ proc[p].pc # "down"
    /\ Upset("crash")
    /\ proc' = [proc EXCEPT ![p] = [Idle EXCEPT !.pc = "down"]]
    /\ UNCHANGED <<db, kubernetes, runtime>>

Restart(p) ==
    /\ proc[p].pc = "down"
    /\ Return(p)
    /\ UNCHANGED <<db, kubernetes, runtime, upsets>>

\* Thirty seconds pass.  While a process still holds the claim this is one of
\* the bounded events; once nobody does, it is only a matter of time.
Held(c) ==
    \E p \in Procs : /\ proc[p].pc \in {"claimed", "permitting"}
                     /\ proc[p].cmd = c /\ Current(p, c)

LeaseExpires(c) ==
    /\ row[c].state = "CLAIMED"
    /\ ~row[c].expired
    /\ IF Held(c) THEN Upset("expire") ELSE UNCHANGED upsets
    /\ row' = [row EXCEPT ![c].expired = TRUE]
    /\ UNCHANGED <<facts, attempt, authority, outcome, kubernetes, runtime, proc>>

\* Somebody deletes the Task, or creates an unrelated one under its name.
DeleteTask(c) ==
    /\ task[c] # NoTask
    /\ Upset("delete")
    /\ task' = [task EXCEPT ![c] = NoTask]
    /\ UNCHANGED <<db, objects, runtime, proc>>

ForeignTask(c) ==
    /\ task[c] = NoTask
    /\ Upset("foreign")
    /\ task' = [task EXCEPT ![c] = [uid |-> objects[c] + 1, gen |-> 0, phase |-> "none"]]
    /\ objects' = [objects EXCEPT ![c] = @ + 1]
    /\ UNCHANGED <<db, runtime, proc>>

\* The grant is revoked, or the binding goes out of date (the Plan is
\* superseded, the Runtime instance moves to another generation).
Withdraw(c) ==
    /\ Upset("withdraw")
    /\ \E a \in authority[c] : authority' = [authority EXCEPT ![c] = @ \ {a}]
    /\ UNCHANGED <<row, facts, attempt, outcome, kubernetes, runtime, proc>>

\* A grant issued after the latest revocation is in force again.  A superseded
\* Plan or a Runtime generation that is past does not come back.
Regrant(c) ==
    /\ "grant" \notin authority[c]
    /\ authority' = [authority EXCEPT ![c] = @ \union {"grant"}]
    /\ UNCHANGED <<row, facts, attempt, outcome, kubernetes, runtime, proc, upsets>>

\* Where workflow control may take an Attempt: _TARGET_TRANSITIONS.
AttemptTransitions(s) ==
    CASE s = "PENDING" -> {"PLACED", "CANCELLATION_PENDING", "FAILED"} \union Uncertain
      [] s = "PLACED" -> {"RUNNING", "CANCELLATION_PENDING", "FAILED"} \union Uncertain
      [] s = "RUNNING" -> {"CANCELLATION_PENDING"} \union Terminal
      [] s = "CANCELLATION_PENDING" -> {"CANCELLED"} \union Uncertain
      [] s = "UNKNOWN" -> {"RECOVERY_REQUIRED"}
      [] OTHER -> {}

ImmutableAttempt == {"SUCCEEDED", "FAILED", "CANCELLED", "RECOVERY_REQUIRED"}

\* The other writer of the Attempt: an intervention decision is applied, the
\* execution is cancelled, or it is completed with an outcome.
Intervene(c) ==
    /\ Upset("intervene")
    /\ \E s \in AttemptTransitions(attempt[c]) \union
                (IF attempt[c] \in ImmutableAttempt THEN {}
                 ELSE {"CANCELLATION_PENDING", "SUCCEEDED", "FAILED", "CANCELLED"}) :
        attempt' = [attempt EXCEPT ![c] = s]
    /\ UNCHANGED <<row, facts, authority, outcome, kubernetes, runtime, proc>>

-----------------------------------------------------------------------------
\* What a worker process does by itself when nothing goes wrong around it.
Step(p) ==
    \/ ResumeEffectStarted(p) \/ NothingToResume(p)
    \/ ClaimNext(p) \/ NothingToClaim(p)
    \/ ReadClock(p) \/ PermitReplayed(p) \/ PermitEffect(p) \/ PermitRefused(p)
    \/ CreateTask(p) \/ CreateConflict(p)
    \/ RecordCorrelation(p) \/ CorrelationRefused(p)
    \/ PatchRunning(p) \/ Invoke(p) \/ PatchTerminal(p) \/ PatchNotFound(p)
    \/ Observe(p) \/ ObserveRefused(p)
    \/ RecordUncertain(p) \/ RecordCompletion(p) \/ RecordRefused(p)

Fault(p) == CreateLost(p) \/ CreateWithoutUid(p) \/ Abort(p) \/ Crash(p)

Environment(c) ==
    \/ Enqueue(c) \/ LeaseExpires(c) \/ DeleteTask(c) \/ ForeignTask(c)
    \/ Withdraw(c) \/ Regrant(c) \/ Intervene(c)

Next ==
    \/ \E p \in Procs : Step(p) \/ Fault(p) \/ Restart(p)
    \/ \E c \in Commands : Environment(c)

Spec == Init /\ [][Next]_vars

\* The polling loop runs as long as its process lives, the Deployment restarts
\* the process, and time passes for a lease nobody is using.
Fairness ==
    /\ \A p \in Procs : WF_vars(Step(p)) /\ WF_vars(Restart(p))
    /\ \A c \in Commands : WF_vars(LeaseExpires(c) /\ ~Held(c))

FairSpec == Spec /\ Fairness

-----------------------------------------------------------------------------
(* Properties                                                              *)

\* The Runtime is asked at most once per command, whatever happens to leases,
\* processes and Tasks: run_claim's "never dispatches again" after
\* EFFECT_STARTED.
AtMostOneInvocation == \A c \in Commands : invoked[c] <= 1

\* A command is recorded as succeeded or failed only when the one request to
\* the Runtime was answered that way, and the outcome row says the same: an
\* observation taken over by another run of the worker is never misread.
OutcomeIsTheAnswer ==
    \A c \in Commands :
        /\ row[c].state = "SUCCEEDED" => answer[c] = "ok"
        /\ row[c].state = "FAILED" => answer[c] = "error"
        /\ outcome[c] = IF row[c].state \in Known THEN row[c].state ELSE "none"

\* Which fact may follow which in the journal of one command.
Follows(k) ==
    CASE k = "QUEUED" -> {"CLAIMED"}
      [] k = "CLAIMED" -> {"CLAIMED", "EFFECT_STARTED"}
      [] k = "EFFECT_STARTED" -> {"CORRELATED"} \union Uncertain
      [] k = "CORRELATED" -> Terminal
      [] OTHER -> {}

\* The append-only journal of a command is one run through its lifecycle and
\* ends where the row stands: no claim after the start, one start, a known
\* result only after the Task was correlated, nothing after the end.
JournalIsALifecycle ==
    \A c \in Commands :
        LET f == facts[c] IN
        /\ \A i \in 1 .. Len(f) - 1 : f[i + 1] \in Follows(f[i])
        /\ IF f = << >> THEN row[c].state = "ABSENT"
           ELSE /\ f[1] = "QUEUED"
                /\ row[c].state = IF f[Len(f)] = "CORRELATED" THEN "EFFECT_STARTED"
                                  ELSE f[Len(f)]
        /\ Cardinality({i \in 1 .. Len(f) : f[i] = "CLAIMED"}) = row[c].gen

\* While workflow control leaves the Attempt alone, its control state tells
\* exactly how far the command got (permit_effect, record_uncertain and
\* append_native_completion write both tables).
AttemptFollowsCommand ==
    \A c \in Commands :
        attempt[c] = CASE row[c].state \in {"ABSENT", "QUEUED", "CLAIMED"} -> "PENDING"
                       [] row[c].state = "EFFECT_STARTED" -> "RUNNING"
                       [] OTHER -> row[c].state

EO == INSTANCE EffectOnce WITH
    phase <- [c \in Commands |-> IF NotStarted(c) THEN "pending"
                                 ELSE IF row[c].state = "EFFECT_STARTED" THEN "permitted"
                                 ELSE "closed"],
    effects <- invoked

\* With one process per worker id, dispatching is an EffectOnce: the Runtime is
\* asked at most once, only for a command that is EFFECT_STARTED at that very
\* moment, never before the permission and never after the row was closed.
ImplementsEffectOnce == EO!Spec

\* A closed row never changes again, so UNKNOWN and RECOVERY_REQUIRED are not
\* turned into a result by a late worker.
ClosedRowIsFinal ==
    [][\A c \in Commands : row[c].state \in Terminal => row'[c] = row[c]]_vars

\* permit_effect would refuse the command, for now or for good.
Barred(c) == "binding" \notin authority[c] \/ attempt[c] # "PENDING"
Withdrawn(c) == Barred(c) \/ "grant" \notin authority[c]

\* While the grant is revoked, the binding out of date or the Attempt not
\* PENDING, an effect that has not started does not start and the Runtime is not
\* asked, whoever holds a claim from before: permit_effect reads them again in
\* the transaction that starts the effect.  A newer grant lifts a revocation; a
\* stale binding or an Attempt taken elsewhere prevents the effect for good, a
\* new grant and any number of new claims notwithstanding.
NoEffectWhileWithdrawn ==
    /\ [][\A c \in Commands :
            NotStarted(c) /\ Withdrawn(c) => NotStarted(c)' /\ invoked'[c] = 0]_vars
    /\ \A c \in Commands : [](NotStarted(c) /\ Barred(c) => [](invoked[c] = 0))

\* Every effect that was started is eventually closed, if the Task survives
\* and the Runtime's answer fits the terminal contract: the worker resumes its
\* own EFFECT_STARTED rows first.
StartedEffectIsClosed ==
    \A c \in Commands : row[c].state = "EFFECT_STARTED" ~> row[c].state \in Terminal

\* A queued command is eventually started, over crashes, exceptions and lost
\* leases, if from some time on neither it nor a command before it in the queue is
\* refused, and also if they were refused, and claimed anew, many times before
\* a grant came.  Nothing better holds: claim_next takes a refused command up
\* again whenever its lease has run out, ahead of all that were queued later.
QueuedCommandStarts ==
    \A c \in Commands :
        <>[](\A d \in Commands : d <= c => ~(NotStarted(d) /\ Withdrawn(d)))
            => (row[c].state = "QUEUED" ~> ~NotStarted(c))

\* What the design note promises of a started effect whose Task is gone, or holds
\* a result the terminal contract refuses: the observation becomes UNKNOWN or
\* RECOVERY_REQUIRED.
UnusableObservationIsClosed ==
    \A c \in Commands :
        (row[c].state = "EFFECT_STARTED" /\ (task[c] = NoTask \/ task[c].phase = "Unusable"))
            ~> row[c].state \in Terminal

\* What workflow control asserts of a terminal Attempt (TERMINAL_TARGET_IMMUTABLE).
TerminalAttemptIsImmutable ==
    [][\A c \in Commands : attempt[c] \in ImmutableAttempt => attempt'[c] = attempt[c]]_vars

=============================================================================
