---------------------------- MODULE MCWorkflowGraph ----------------------------
(***************************************************************************)
(* The operators of WorkflowGraph against reference definitions, over      *)
(* every task list and every observation of phases within the bounds.  A   *)
(* behaviour declares tasks one by one, closes the list and, if the graph  *)
(* is built, observes phases one by one.                                   *)
(***************************************************************************)
EXTENDS WorkflowGraph

CONSTANTS
    Names,         \* task names that may be declared or referred to
    MaxTasks,      \* longest task list
    MaxDepends,    \* longest dependsOn
    MaxFrom,       \* input.from entries of a task list, on one task or on several
    Observed       \* phases a task may be observed in

VARIABLES
    tasks,
    verdict,   \* "open" until build_workflow_graph has accepted or rejected the list
    phases

vars == <<tasks, verdict, phases>>

Init == tasks = << >> /\ verdict = "open" /\ phases = << >>

FromLeft == MaxFrom - FoldLeft(LAMBDA sum, t : sum + Len(t.from), 0, tasks)

Declare ==
    /\ verdict = "open" /\ Len(tasks) < MaxTasks
    /\ \E n \in Names, d \in SeqOf(Names, MaxDepends), f \in SeqOf(Names, FromLeft) :
        tasks' = Append(tasks, [name |-> n, dependsOn |-> d, from |-> f])
    /\ UNCHANGED <<verdict, phases>>

Close ==
    /\ verdict = "open"
    /\ verdict' = IF build_workflow_graph(tasks) THEN "accepted" ELSE "rejected"
    /\ UNCHANGED <<tasks, phases>>

\* Any phases at all: the operators do not rely on a consistent history.
Observe ==
    /\ verdict = "accepted"
    /\ \E n \in Range(task_names(tasks)) \ DOMAIN phases, p \in Observed :
        phases' = [m \in DOMAIN phases \union {n} |-> IF m = n THEN p ELSE phases[m]]
    /\ UNCHANGED <<tasks, verdict>>

Next == Declare \/ Close \/ Observe

Spec == Init /\ [][Next]_vars

-----------------------------------------------------------------------------
Declared == Range(task_names(tasks))

Needs(a, b) == \E i \in DOMAIN tasks : tasks[i].name = a /\ b \in Range(tasks[i].dependsOn)

\* The tasks can be ranked so that every task is above those it depends on.
Acyclic ==
    \E rank \in [Declared -> 1 .. MaxTasks] :
        \A a, b \in Declared : Needs(a, b) => rank[b] < rank[a]

WellFormed ==
    /\ Len(tasks) > 0
    /\ Cardinality(Declared) = Len(tasks)
    /\ \A i \in DOMAIN tasks :
        LET t == tasks[i] IN
        /\ Range(t.dependsOn) \subseteq Declared \ {t.name}
        /\ Cardinality(Range(t.dependsOn)) = Len(t.dependsOn)
        /\ Range(t.from) \subseteq Range(t.dependsOn)
        /\ Cardinality(Range(t.from)) = Len(t.from)

\* build_workflow_graph accepts exactly the task lists that are well formed and
\* without a dependency cycle, whatever the order of declaration.
AcceptsExactlyDags ==
    verdict # "open" => (verdict = "accepted" <=> WellFormed /\ Acyclic)

\* topological_order of an accepted graph is a permutation of the tasks in
\* which every task comes after the tasks it depends on.
OrderRespectsDependencies ==
    verdict = "accepted" =>
        LET order == topological_order(Graph(tasks)) IN
        /\ IsInjective(order) /\ Range(order) = Declared
        /\ \A i, j \in DOMAIN order : Needs(order[i], order[j]) => j < i

\* The unscheduled tasks that wait for a failed, timed out or skipped task,
\* directly or through unscheduled tasks: the least set closed under that rule.
Blocked ==
    LET open == Declared \ DOMAIN phases
        Closed(B) == \A a \in open : \A b \in Declared :
            /\ Needs(a, b)
            /\ b \in B \/ PhaseOf(phases, b) \in {"Failed", "TimedOut", "Skipped"}
            => a \in B
    IN  {n \in open : \A B \in SUBSET open : Closed(B) => n \in B}

\* find_skipped_tasks adds exactly the blocked tasks: "the full blocked
\* subgraph converges in one reconciliation pass".
SkipsTheBlockedSubgraph ==
    verdict = "accepted" =>
        find_skipped_tasks(Graph(tasks), phases) =
            [n \in DOMAIN phases \union Blocked |->
                IF n \in Blocked THEN "Skipped" ELSE phases[n]]

\* After one pass of skipping, the Workflow is Running exactly while a task is
\* still at work or a task is ready, so a Workflow never stops in between: what
\* reconcile_workflow relies on when it waits for the next Task event.  Asked
\* of phases a Workflow can have, where a scheduled task's dependencies all
\* succeeded.
NeverStuck ==
    LET g == Graph(tasks)
        all == find_skipped_tasks(g, phases)
        possible == \A n \in DOMAIN phases : \A d \in Declared :
                        Needs(n, d) => PhaseOf(phases, d) = "Succeeded"
    IN  verdict = "accepted" /\ possible =>
            (aggregate_workflow_phase(g.names, all) = "Running" <=>
                \/ find_ready_tasks(g, all) # << >>
                \/ \E n \in DOMAIN phases : phases[n] \notin WORKFLOW_TERMINAL_TASK_PHASES)

=============================================================================
