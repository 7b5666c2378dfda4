# A formal model of the agent platform

TLA+ specifications, TLC models and TLAPS proofs for the parts of the platform
in which concurrency, crashes and retries decide whether it is correct. Paths
below are relative to the repository.

## The system and its parts

| Part | Code | State of the model |
| --- | --- | --- |
| Agent controller | `operator/src/agent_operator/main.py` | modelled: `Agent` |
| Workflow controller | `operator/.../workflow_controller.py`, `workflow_graph.py` | modelled: `WorkflowGraph`, `Workflow`, `DagRun` |
| Task controller | `operator/.../task_controller.py`, `retry.py` | partly: in `Workflow` |
| Native dispatch worker | `operator/.../native_dispatch_reconciler.py`, `console/backend/.../execution_postgres.py`, `execution_application.py` | modelled: `NativeDispatch`, `EffectOnce` |
| Runtime Manager | `operator/.../runtime_manager.py`, `core/.../runtime_control.py`, `operator/.../native_runtime_adapter.py` | modelled: `RuntimeManager` |
| Native runtime provider | `runtime/.../providers/native/provider.py` | partly: its life-cycle calls, in `RuntimeManager` |
| Execution authority | `console/backend/.../execution_*.py` | partly: the rows native dispatch uses |
| Workflow control | `console/backend/.../workflow_control_*.py`, `intervention_feedback.py` | partly: its interventions on an Attempt, in `NativeDispatch` |
| Task execution coordinator, execution evidence, capability gateway | `operator/.../execution_coordinator.py`, `core/.../execution_evidence`, `gateway` | planned |
| OpenClaw runtime adapter | `operator/.../openclaw_runtime_*.py` | planned |
| Provider budget, skill invocation, resource use, governed execution, browser sessions | `console/backend/...` | planned |
| Definitions, planning, knowledge, workbench, frontend, manifests, scripts | `console`, `manifests`, `scripts` | not modelled |

`PROJECT.json` lists every part with its files and the reason for its status.

How they interact. Users create Agents and Workflows as Kubernetes objects. The
operator turns an Agent into a Deployment and a Service, and a Workflow into
Tasks as their dependencies succeed; the Task controller executes a Task once
and writes its phase, whose change makes the Workflow controller go on. Beside
this path, the console queues commands as PostgreSQL rows; the native dispatch
worker in the operator claims a row, creates a Task marked as its own (which
the Task controller ignores), calls the Agent Runtime and records the result in
the execution authority. The Runtime Manager starts, stops and replaces
Runtimes for the console's placement decisions.

## Modules

### Native dispatch: `NativeDispatch`, `EffectOnce`, `MCNativeDispatch`

Every SQL transaction of the repository, every Kubernetes call and the call to
the Runtime is one action of a worker process, so a process can be overtaken,
raise or die between any two. State: the command row, the journal of facts, the
control state of the Attempt, what is left of the command's authority, the
outcome row, the Task under the command's name, the requests the Runtime got
and how it took the last one. `claim_generation` and `fencing_token` are one
number, a uid is the ordinal of the object under its name, a lease is live or
expired, and clocks may disagree (`ClockSkew`). The environment may abort a
transaction, kill a process, lose an answer, delete or replace a Task, expire a
lease, withdraw the grant or the binding, and intervene through workflow
control; `MaxUpsets` bounds how often. A revoked grant may be issued anew, as
often as it is revoked; a binding that is out of date stays so.

Claims are not bounded: a refused command is claimed again whenever its lease
has run out, as in the code. Only the generation and the journal stop counting,
at `MaxGen`, and such a claim waits until no other process holds one on the row,
so that no fencing token is ever mistaken for another.

`EffectOnce` is what the worker promises: an effect happens at most once, while
it is permitted. The refinement maps a row before EFFECT_STARTED to "pending",
EFFECT_STARTED to "permitted", a terminal row to "closed".

### Workflows: `WorkflowGraph`, `MCWorkflowGraph`, `Workflow`, `MCWorkflow`, `DagRun`

`WorkflowGraph` has the pure functions (validation, Kahn's algorithm, ready and
skipped tasks, aggregation of phases). `MCWorkflowGraph` builds task lists one
declaration at a time and compares the functions with reference definitions:
acyclic means that ranks can be assigned, blocked means being in every set that
is closed under "depends on something unsuccessful".

`Workflow` has the handlers: `create_workflow`, `workflow_task_phase_changed`
for every Task and `create_task`, one API call per action. `DagRun` is the
promise: a node's Task is created after its dependencies succeeded, runs at
most once and ends once.

What is assumed of kopf: handlers of different objects run concurrently, those
of one object one after the other; a handler that raises, or whose process
dies, is run again from its start; a handler's patch is applied before it
counts as done. The operator has one replica
(`manifests/operator/deployment.yaml:11`).

### Runtime Manager: `RuntimeManager`, `MCRuntimeManager`

One Runtime instance, its desired command, the append-only facts, the state its
driver reports, and callers that apply a command (`request`, then `reconcile`)
or only reconcile; some may never call. Reads and writes of the repository and calls to the provider
are separate actions, among them the second look `start_runtime` takes before
it starts; the driver may take a call without any effect that shows. The
repository is the in-memory one of the operator. A provider
without a lifecycle driver is left out.

### Agents: `Agent`

`create_agent` with its two creations, `update_agent`, the status timer, and
Kubernetes rolling the Deployment out. Of a spec only the replicas matter.

## Runs

| Run | Bounds | Shows |
| --- | --- | --- |
| `dispatch_faults` | 1 command, 2 workers with their own ids, skewed clocks, all answers, 3 upsets of any kind, new grants, generations up to 3 | dispatching implements `EffectOnce`; results are the Runtime's answers; the journal is a life cycle; no effect starts while authority is withdrawn, nor ever after a stale binding or an intervention |
| `dispatch_liveness` | 2 commands, 2 processes with one worker id, 1 upset, new grants, generations up to 2 | commands start once nothing before them in the queue is refused for good, started effects are closed; one request per command; closed rows are final; the Attempt follows the row |
| `dispatch_unclosed`, `dispatch_intervention` | 1 command | two disagreements, see Findings |
| `graph` | all lists of up to 3 tasks, repeated, unknown and own names included, with up to 2 `input.from` entries on one task or on two, and all phases of those accepted | a graph is built for exactly the well-formed acyclic lists; order, skips, and that a Running Workflow is never stuck |
| `workflow_faults` | three shapes of 3 nodes, 1 upset | `DagRun`; the status never runs ahead of the Tasks; prompts hold the results they name |
| `workflow_liveness` | 4 lists of up to 2 nodes, one cyclic, 2 upsets | every node ends or is blocked |
| `workflow_completion` | the same without upsets | disagreement, see Findings |
| `runtime` | 5 operations in 2 generations, 1 or 2 callers, 1 upset, no new call after 4 facts | intent before effect, one command per generation, replacements; a caller on its own issues what is desired and repeats no ambiguous effect |
| `runtime_reapply` | 1 caller, 1 exception | disagreement, see Findings |
| `agent` | up to 2 replicas, 2 edits, 2 failures | an Agent that counts as created is complete; without failures Deployment, Service and status converge |
| `agent_retry` | 1 replica, 2 edits, 1 failure | disagreement, see Findings |

Why these bounds. Commands of native dispatch share nothing but the polling
order, so one command suffices for safety and two for starvation; two workers
are enough for one to overtake the other, three generations for a worker to meet a
successor's successor. The worker id comes from the environment of the
Deployment, so processes share it during a rolling update; `dispatch_liveness`
has this case, and it also passes with `OwnIds` for `SharedId`. The proofs
assume nothing of the ids but for the refinement. Three
nodes give chains, joins, independent siblings and a skip that has to travel.
Two generations with three commands in the second give a newer command and a
rival; four facts suffice for a request, an ambiguous result, a reconciliation
and a repeated request.

Deadlock is not checked where the system may stop: a finished Workflow, a task
list fully explored, callers of the manager with nothing to ask.

Fairness. Native dispatch: the polling loop of every process goes on, the
Deployment restarts a dead process, an unused lease expires. Workflows: kopf
runs every handler that is due, and calls return or raise. Agents: kopf runs
its handlers and its timer, Kubernetes rolls out. All of it is weak fairness of
a process as a whole; no particular outcome is assumed. That a revoked grant is
ever issued again is not assumed either.

What holds of the queue. `claim_next` takes the oldest claimable row, and a
command that `permit_effect` refuses stays CLAIMED until its lease runs out and
is then claimable again, ahead of everything queued later. A worker whose polls
are further apart than the lease (`main.py:55` allows 60 seconds, the lease has
30) meets only that row. So `QueuedCommandStarts` promises a start to a command
if from some time on neither it nor an earlier one is refused; TLC refutes the
claim that asks this only of the command itself. No document promises more, so
this is not listed as a finding. A started row that cannot be closed holds up
the queue as well: `dispatch_liveness` has no such rows, and `dispatch_unclosed`
shows them.

What holds of concurrent reconciliations. `reconcile` does not read the desired
command again before its effect, so with two callers the effect of a replaced
command may follow that of its successor. `LoneCallerIsCurrent` states what
remains: without a second caller only the desired command is issued.

## Findings

Each is the property of a run that TLC finds violated; `PROJECT.json` quotes
the sentence the code disagrees with.

- `dispatch_unclosed`: a command whose correlated Task was deleted is never
  closed, because the observation without a uid is refused on every poll. The
  same happens to a result that is blank or too long.
- `dispatch_intervention`: recording a native result overwrites an Attempt that
  workflow control had brought to a terminal state.
- `workflow_completion`: a handler that is slow to patch writes an older status
  over the final one, and no event repairs it.
- `runtime_reapply`: applying a command again hides its ambiguous fact behind a
  new REQUESTED one, and the effect is issued a second time.
- `agent_retry`: after a failure between the two creations `create_agent`
  conflicts with its own Deployment for ever. Likewise, an update that fails
  after its effect and is then undone by the user leaves no difference to
  handle, and the Deployment keeps the wrong replicas.

## Proofs

All theorems hold for every value of the constants under the named assumptions
of the modules: finite positive command numbers and worker ids and a positive
`MaxGen` for native dispatch, natural generations for the manager, natural
bounds.

`NativeDispatchTypes` proves `TypeCorrect`. `NativeDispatchProofs` rests on
`DispatchInv`: at most one process is between its permission and its request
for a command, such a command is started and not yet requested, and nothing is
requested before the start. `AtMostOneInvocation` alone is not inductive: it
says nothing of the processes about to send. From it follow `AtMostOnce` for
any assignment of worker ids, `ClosedStaysClosed`, and, with one process per
worker id (`OwnWorkerIds`), `Refinement`: the detailed specification implements
`EffectOnce`. `WithdrawalHolds` needs two more facts of every step: a command
that is not started and whose authority is withdrawn is not started after it
(`NextKeepsUnstarted`), and if its binding is stale or its Attempt taken, that
stays so (`NextKeepsBarred`). `NativeDispatchResults` proves `ResultsAreAnswers` with
`ResultInv`, which follows the Runtime's answer through the process, the Task
and the row, whichever run of the worker observes it.

`RuntimeManagerProofs` rests on `ManagerInv`: callers hold real commands; a
command that is desired, held, on record or issued (`Known`) is not ahead of
the desired one and shares its generation with no other such command; a
replacement was issued before any caller is about to record it. Only
`append_desired` makes a command known, and then above all others;
`IntentPrecedesEffect`, `GenerationsAreUnique` and `ReplacementsAreIssued`
follow. `AmbiguousEffectsAreRecovered` adds `LoneInv` about a caller that is the
only one to call: what it holds is desired, the last fact is about the desired
command if any fact is, and once it has decided to act the command is not
ambiguous. `LoneCallersAreCurrent` follows from the first of these. With a
second caller both claims are false: that caller may have decided
to act before the first recorded the ambiguous result or replaced the command.

Only model-checked: all liveness properties (fairness and ENABLED are beyond
the prover), `JournalIsALifecycle`, `AttemptFollowsCommand`, the graph functions (induction over data), and
everything about Workflows and Agents.

## Not modelled, and why

Formatting, logging and wording; authentication and scope checks that reject a
call before it changes anything; schema validation. Deletion of Tasks, and
edits of a Workflow after creation. PostgreSQL transactions are taken as
atomic, its row locks as exclusive. Knowledge, planning and the workbench are
data transformations and read models.

## Plan

1. `TaskExecution`: coordinator, capability gateway, evidence repository,
   composed with `create_task`; then the OpenClaw adapter behind the manager.
2. The provider budget ledger, with its caps as an inductive invariant to prove.
3. Skill invocation and resource use: prepare, call, terminal commit.
4. Execution aggregates and workflow control: versions, idempotency keys,
   interventions, composed with native dispatch.
5. Ownership hand-over of governed execution; sessions; definition life cycle.
6. Proofs: `Workflow` implements `DagRun`; `HandledIsComplete`;
   `JournalIsALifecycle`; the ledger's caps.

## Running

    tlc -workers 2 -config NativeDispatchFaults.cfg MCNativeDispatch
    tlapm NativeDispatchProofs.tla
