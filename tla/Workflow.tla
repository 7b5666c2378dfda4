------------------------------- MODULE Workflow -------------------------------
(***************************************************************************)
(* The Workflow and Task controllers of the operator.                      *)
(*                                                                         *)
(* One Workflow object owns one Task object per node, created as its       *)
(* dependencies succeed.  kopf runs the handlers of different objects      *)
(* concurrently and those of one object one after the other; a handler     *)
(* that raises, or whose process dies, is run again from its start.  The   *)
(* handlers that reconcile the Workflow are create_workflow and, for every *)
(* Task, workflow_task_phase_changed; each reads the Workflow, lists the   *)
(* Tasks, creates the ready ones and patches the Workflow's status, one    *)
(* API call per action.                                                    *)
(*                                                                         *)
(* Data abstractions.                                                      *)
(*  - of taskRef, reason and message of the node statuses two sets are     *)
(*    left, the nodes "linked" to a Task and those "noted" with a reason:  *)
(*    a merge patch never removes them, and they count when a status is    *)
(*    compared.  A Skipped node never had a Task.                          *)
(*  - the status a handler would write is computed when the Tasks are      *)
(*    listed; nothing it depends on is read again.                         *)
(*  - a prompt is the set of node results that were copied into it.        *)
(***************************************************************************)
EXTENDS WorkflowGraph

CONSTANTS
    Nodes,        \* task names
    Workflow,     \* the handler create_workflow; the others are named by their Task
    TaskLists,    \* the task lists a Workflow may be created with
    Outcomes,     \* how an execution may end: subset of {"Succeeded", "Failed"}
    Upsets,       \* what may go wrong: subset of {"raise", "crash", "evidence"}
    MaxUpsets     \* how often

ASSUME WorkflowAssumption == Workflow \notin Nodes
ASSUME TaskListsAssumption ==
    \A tasks \in TaskLists :
        /\ tasks \in Seq([name : Nodes, dependsOn : Seq(Nodes), from : Seq(Nodes)])
ASSUME OutcomesAssumption == Outcomes \subseteq {"Succeeded", "Failed"}
ASSUME MaxUpsetsAssumption == MaxUpsets \in Nat

VARIABLES
    tasks,      \* spec.tasks of the Workflow
    status,     \* its status
    object,     \* the Task objects
    handler,    \* the reconciling handlers
    runner,     \* the create_task handler of each Task
    invoked,    \* executions handed to the coordinator, per Task
    upsets      \* what went wrong so far

vars == <<tasks, status, object, handler, runner, invoked, upsets>>

-----------------------------------------------------------------------------
Handlers == Nodes \union {Workflow}

TaskTerminal == {"Succeeded", "Failed", "TimedOut"}

\* "none": the object has no status yet.
TaskPhases == {"none", "Running"} \union TaskTerminal
NodePhases == {"Pending", "Running", "Skipped"} \union TaskTerminal

Objects == [exists : BOOLEAN, phase : TaskPhases, result : {"none", "text"},
            prompt : SUBSET Nodes]

NoObject == [exists |-> FALSE, phase |-> "none", result |-> "none", prompt |-> {}]

\* The status of a Workflow: an empty one has no phase and no nodes.
NoStatus == [phase |-> "none", nodes |-> << >>, linked |-> {}, noted |-> {}]

\* The locals of a reconciling handler.  Once the Tasks are listed, all that
\* matters of the body is whether it differs from the desired status; if it
\* does not, there is no desired status.
Off == [pc |-> "off", body |-> NoStatus, todo |-> << >>, desired |-> NoStatus]
Due == [Off EXCEPT !.pc = "due"]

Init ==
    /\ tasks \in TaskLists
    /\ status = NoStatus
    /\ object = [n \in Nodes |-> NoObject]
    /\ handler = [h \in Handlers |-> IF h = Workflow THEN Due ELSE Off]
    /\ runner = [n \in Nodes |-> [pc |-> "off", phase |-> "none"]]
    /\ invoked = [n \in Nodes |-> 0]
    /\ upsets = 0

Upset(u) ==
    /\ u \in Upsets
    /\ upsets < MaxUpsets
    /\ upsets' = upsets + 1

-----------------------------------------------------------------------------
(* reconcile_workflow, called by create_workflow and by                    *)
(* workflow_task_phase_changed                                             *)

\* The body: the event's for create_workflow, get_workflow's for the others.
GetWorkflow(h) ==
    /\ handler[h].pc = "due"
    /\ handler' = [handler EXCEPT ![h] = [Off EXCEPT !.pc = "got", !.body = status]]
    /\ UNCHANGED <<tasks, status, object, runner, invoked, upsets>>

\* WorkflowValidationError: create_workflow fails for good.
RejectWorkflow ==
    /\ handler[Workflow].pc = "got"
    /\ ~build_workflow_graph(tasks)
    /\ status' = [status EXCEPT !.phase = "Failed"]
    /\ handler' = [handler EXCEPT ![Workflow] = Off]
    /\ UNCHANGED <<tasks, object, runner, invoked, upsets>>

Existing == {n \in Nodes : object[n].exists}

\* Mutant: a Task without a status has no phase to report.
task_phases_raw(body) ==
    [n \in Existing \union {m \in DOMAIN body.nodes : body.nodes[m] = "Skipped"} |->
        IF n \notin Existing THEN "Skipped" ELSE object[n].phase]

\* task_states and the Skipped nodes of the body, whose Tasks do not exist.
task_phases(body) ==
    [n \in Existing \union {m \in DOMAIN body.nodes : body.nodes[m] = "Skipped"} |->
        IF n \notin Existing THEN "Skipped"
        ELSE IF object[n].phase = "none" THEN "Pending"
        ELSE object[n].phase]

Sources(n) == LET i == CHOOSE j \in DOMAIN tasks : tasks[j].name = n IN Range(tasks[i].from)

\* Mutant: a task is created without waiting for others.
CreatableUnordered(phases) ==
    SelectSeq(task_names(tasks), LAMBDA n : n \notin DOMAIN phases)

\* The ready tasks that are created: those whose sources all have a result.
Creatable(phases) ==
    SelectSeq(find_ready_tasks(Graph(tasks), phases),
              LAMBDA n : \A s \in Sources(n) : object[s].exists /\ object[s].result # "none")

\* Mutant: only the tasks that exist or are skipped are aggregated.
DesiredHasty(phases) ==
    LET nodes == [n \in Range(task_names(tasks)) |->
                    IF n \in DOMAIN phases THEN phases[n] ELSE "Pending"]
    IN  [phase |-> aggregate_workflow_phase(
                        SelectSeq(task_names(tasks), LAMBDA n : n \in DOMAIN phases), nodes),
         nodes |-> nodes,
         linked |-> Existing,
         noted |-> {n \in DOMAIN nodes : nodes[n] = "Skipped"}]

\* build_workflow_task_statuses, with the newly skipped nodes, and the phase
\* aggregated from it.  phases already holds both kinds of Skipped nodes.
Desired(phases) ==
    LET nodes == [n \in Range(task_names(tasks)) |->
                    IF n \in DOMAIN phases THEN phases[n] ELSE "Pending"]
    IN  [phase |-> aggregate_workflow_phase(task_names(tasks), nodes),
         nodes |-> nodes,
         linked |-> Existing,
         noted |-> {n \in DOMAIN nodes : nodes[n] = "Skipped"}]

ListTasks(h) ==
    /\ handler[h].pc = "got"
    /\ build_workflow_graph(tasks)
    /\ \E phases \in {find_skipped_tasks(Graph(tasks), task_phases(handler[h].body))} :
        \E desired \in {Desired(phases)} :
            handler' = [handler EXCEPT ![h] =
                [pc |-> "listed", body |-> NoStatus, todo |-> Creatable(phases),
                 desired |-> IF desired = handler[h].body THEN NoStatus ELSE desired]]
    /\ UNCHANGED <<tasks, status, object, runner, invoked, upsets>>

\* ensure_workflow_task: an object that is already there (409) is left alone.
EnsureTask(h) ==
    LET n == Head(handler[h].todo) IN
    /\ handler[h].pc = "listed"
    /\ handler[h].todo # << >>
    /\ handler' = [handler EXCEPT ![h].todo = Tail(@)]
    /\ IF object[n].exists THEN UNCHANGED <<object, runner>>
       ELSE /\ object' = [object EXCEPT ![n] = [NoObject EXCEPT !.exists = TRUE,
                                                                !.prompt = Sources(n)]]
            /\ runner' = [runner EXCEPT ![n].pc = "due"]
    /\ UNCHANGED <<tasks, status, invoked, upsets>>

\* patch_workflow_status: compared with the body read at the start, written as
\* a merge patch without a resource version.
PatchStatus(h) ==
    LET desired == handler[h].desired IN
    /\ handler[h].pc = "listed"
    /\ handler[h].todo = << >>
    /\ status' = IF desired = NoStatus THEN status
                 ELSE [desired EXCEPT !.linked = @ \union status.linked,
                                      !.noted = @ \union status.noted]
    /\ handler' = [handler EXCEPT ![h] = Off]
    /\ UNCHANGED <<tasks, object, runner, invoked, upsets>>

\* Mutant: the handler is not run again.
HandlerGivesUp(h) ==
    /\ handler[h].pc \in {"got", "listed"}
    /\ Upset("raise")
    /\ handler' = [handler EXCEPT ![h] = Off]
    /\ UNCHANGED <<tasks, status, object, runner, invoked>>

\* A call of the handler fails; kopf runs the handler again.
HandlerRaises(h) ==
    /\ handler[h].pc \in {"got", "listed"}
    /\ Upset("raise")
    /\ handler' = [handler EXCEPT ![h] = Due]
    /\ UNCHANGED <<tasks, status, object, runner, invoked>>

-----------------------------------------------------------------------------
(* create_task                                                             *)

\* The Task was never started: its Agent is read and interpreted.
PrepareTask(n) ==
    /\ runner[n].pc = "due"
    /\ object[n].phase = "none"
    /\ runner' = [runner EXCEPT ![n].pc = "prepared"]
    /\ UNCHANGED <<tasks, status, object, handler, invoked, upsets>>

\* The Agent, or the identity of the Task, is not what it has to be.
InvalidEvidence(n) ==
    /\ runner[n].pc = "due"
    /\ object[n].phase = "none"
    /\ Upset("evidence")
    /\ runner' = [runner EXCEPT ![n] = [pc |-> "ending", phase |-> "Failed"]]
    /\ UNCHANGED <<tasks, status, object, handler, invoked>>

\* Mutant: a Task found Running is executed again.
ReplayRunningAgain(n) ==
    /\ runner[n].pc = "due"
    /\ object[n].phase = "Running"
    /\ runner' = [runner EXCEPT ![n].pc = "prepared"]
    /\ UNCHANGED <<tasks, status, object, handler, invoked, upsets>>

\* A replay after the execution started: ExecutionStateUnknown.
ReplayRunning(n) ==
    /\ runner[n].pc = "due"
    /\ object[n].phase = "Running"
    /\ runner' = [runner EXCEPT ![n] = [pc |-> "ending", phase |-> "Failed"]]
    /\ UNCHANGED <<tasks, status, object, handler, invoked, upsets>>

\* A replay after the end.
ReplayTerminal(n) ==
    /\ runner[n].pc = "due"
    /\ object[n].phase \in TaskTerminal
    /\ runner' = [runner EXCEPT ![n] = [pc |-> "ended", phase |-> "none"]]
    /\ UNCHANGED <<tasks, status, object, handler, invoked, upsets>>

StartTask(n) ==
    /\ runner[n].pc = "prepared"
    /\ object' = [object EXCEPT ![n].phase = "Running", ![n].result = "none"]
    /\ runner' = [runner EXCEPT ![n].pc = "running"]
    /\ UNCHANGED <<tasks, status, handler, invoked, upsets>>

\* execute_with_retry around coordinator.execute: every error it classifies is
\* final, so there is one execution, and its deadline is not consulted again.
ExecuteTask(n) ==
    /\ runner[n].pc = "running"
    /\ invoked' = [invoked EXCEPT ![n] = @ + 1]
    /\ \E phase \in Outcomes : runner' = [runner EXCEPT ![n] = [pc |-> "ending", phase |-> phase]]
    /\ UNCHANGED <<tasks, status, object, handler, upsets>>

\* kopf writes the patch of the handler ...
EndTask(n) ==
    /\ runner[n].pc = "ending"
    /\ object' = [object EXCEPT ![n].phase = runner[n].phase,
                                ![n].result = IF runner[n].phase = "Succeeded" THEN "text" ELSE "none"]
    /\ runner' = [runner EXCEPT ![n] = [pc |-> "ended", phase |-> "none"]]
    /\ UNCHANGED <<tasks, status, handler, invoked, upsets>>

\* ... records that the handler is done, and only then looks at the changed
\* phase of the same object.
PhaseChanged(n) ==
    /\ runner[n].pc = "ended"
    /\ runner' = [runner EXCEPT ![n].pc = "off"]
    /\ handler' = [handler EXCEPT ![n] = Due]
    /\ UNCHANGED <<tasks, status, object, invoked, upsets>>

\* An exception that create_task does not classify leaves the handler, during
\* the execution or before; kopf runs it again.
TaskRaises(n) ==
    /\ runner[n].pc \in {"prepared", "running", "ending"}
    /\ Upset("raise")
    /\ runner' = [runner EXCEPT ![n] = [pc |-> "due", phase |-> "none"]]
    /\ UNCHANGED <<tasks, status, object, handler, invoked>>

\* The operator dies.  After its restart kopf runs every unfinished handler
\* from its start.
Crash ==
    /\ Upset("crash")
    /\ handler' = [h \in Handlers |-> IF handler[h].pc = "off" THEN Off ELSE Due]
    /\ runner' = [n \in Nodes |-> [pc |-> IF runner[n].pc = "off" THEN "off" ELSE "due",
                                   phase |-> "none"]]
    /\ UNCHANGED <<tasks, status, object, invoked>>

-----------------------------------------------------------------------------
Reconcile(h) == GetWorkflow(h) \/ ListTasks(h) \/ EnsureTask(h) \/ PatchStatus(h)

Execute(n) ==
    \/ PrepareTask(n) \/ ReplayRunning(n) \/ ReplayTerminal(n)
    \/ StartTask(n) \/ ExecuteTask(n) \/ EndTask(n) \/ PhaseChanged(n)

Next ==
    \/ \E h \in Handlers : Reconcile(h) \/ HandlerRaises(h)
    \/ RejectWorkflow
    \/ \E n \in Nodes : Execute(n) \/ InvalidEvidence(n) \/ TaskRaises(n)
    \/ Crash

Spec == Init /\ [][Next]_vars

\* kopf runs every handler that is due and every call returns or raises.
Fairness ==
    /\ \A h \in Handlers : WF_vars(Reconcile(h))
    /\ WF_vars(RejectWorkflow)
    /\ \A n \in Nodes : WF_vars(Execute(n))

FairSpec == Spec /\ Fairness

-----------------------------------------------------------------------------
(* Properties                                                              *)

Statuses == [phase : {"none", "Running", "Succeeded", "Failed"},
             nodes : UNION {[D -> NodePhases] : D \in SUBSET Nodes},
             linked : SUBSET Nodes,
             noted : SUBSET Nodes]

\* Every variable has its type.
TypeOK ==
    /\ tasks \in TaskLists
    /\ status \in Statuses
    /\ object \in [Nodes -> Objects]
    /\ handler \in [Handlers -> [pc : {"off", "due", "got", "listed"}, body : Statuses,
                                  todo : Seq(Nodes), desired : Statuses]]
    /\ runner \in [Nodes -> [pc : {"off", "due", "prepared", "running", "ending", "ended"},
                              phase : {"none"} \union TaskTerminal]]
    /\ invoked \in [Nodes -> Nat]
    /\ upsets \in 0 .. MaxUpsets

\* The nodes n depends on.
Needs(n) ==
    UNION {Range(tasks[i].dependsOn) : i \in {j \in DOMAIN tasks : tasks[j].name = n}}

DR == INSTANCE DagRun WITH
    needs <- [n \in Nodes |-> Needs(n)],
    node <- [n \in Nodes |->
                IF ~object[n].exists THEN "waiting"
                ELSE IF object[n].phase = "Succeeded" THEN "succeeded"
                ELSE IF object[n].phase \in TaskTerminal THEN "failed"
                ELSE "created"],
    runs <- invoked

\* Over concurrent and repeated handlers and crashes of the operator, a Task is
\* created once and only after its dependencies succeeded, executed at most
\* once, succeeds only if it was executed, and its end is final.
ImplementsDagRun == DR!Spec

\* A node that cannot run any more: a node it depends on failed, or cannot run.
Blocked ==
    LET Closed(B) == \A n \in Nodes : \A d \in Needs(n) :
            d \in B \/ object[d].phase \in {"Failed", "TimedOut"} => n \in B
    IN  {n \in Nodes : \A B \in SUBSET Nodes : Closed(B) => n \in B}

\* The status of the Workflow may lag behind its Tasks and never runs ahead:
\* a terminal node phase is the Task's own, a Skipped node is blocked, and a
\* terminal phase of the Workflow is what the Tasks have come to.
StatusNeverRunsAhead ==
    /\ \A n \in DOMAIN status.nodes :
        /\ status.nodes[n] \in TaskTerminal => object[n].phase = status.nodes[n]
        /\ status.nodes[n] = "Skipped" => n \in Blocked
    /\ status.phase = "Succeeded" =>
        \A n \in Range(task_names(tasks)) : object[n].phase = "Succeeded"
    /\ status.phase = "Failed" /\ build_workflow_graph(tasks) =>
        /\ \A n \in Range(task_names(tasks)) :
            object[n].phase \in TaskTerminal \/ n \in Blocked
        /\ \E n \in Nodes : object[n].phase = "Failed"

\* The prompt of a Task holds the results of its sources, and these Tasks keep
\* the results they had (resolve_task_prompt).
PromptsHoldResults ==
    \A n \in Existing : \A s \in object[n].prompt :
        object[s].phase = "Succeeded" /\ object[s].result = "text"

\* Every node of an accepted Workflow ends or is blocked: no Task event is
\* missed, whatever handlers are repeated.
EveryNodeSettles ==
    \A n \in Nodes :
        <>(\/ ~build_workflow_graph(tasks)
           \/ n \in Range(task_names(tasks)) => object[n].phase \in TaskTerminal \/ n \in Blocked)

\* "aggregate Workflow completion": once every node has settled, the Workflow's
\* own phase becomes terminal and stays so.
WorkflowCompletes == <>[](status.phase \in {"Succeeded", "Failed"})

=============================================================================
