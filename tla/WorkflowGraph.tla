----------------------------- MODULE WorkflowGraph -----------------------------
(***************************************************************************)
(* The pure part of the Workflow controller: validation of the task list   *)
(* of a Workflow, Kahn's algorithm over it, and the choice of the tasks to *)
(* create and to skip.                                                     *)
(*                                                                         *)
(* A task list is a sequence of records [name, dependsOn, from], the last  *)
(* two being sequences of names (input.from is reduced to the tasks it     *)
(* names).  task_phases is a function whose domain is the set of tasks the *)
(* dictionary has a key for.                                               *)
(***************************************************************************)
EXTENDS Integers, Sequences, FiniteSets, SequencesExt

\* Op(x), with x evaluated once however often Op uses it.
LOCAL Once(x, Op(_)) == CHOOSE y \in {Op(z) : z \in {x}} : TRUE

-----------------------------------------------------------------------------
(* build_workflow_graph                                                    *)

task_names(tasks) == [i \in DOMAIN tasks |-> tasks[i].name]

\* Pass 1: some tasks, no name twice.
NamesValid(tasks) == tasks # << >> /\ IsInjective(task_names(tasks))

\* Pass 2: dependsOn names other, declared tasks, each once.
DependenciesValid(tasks) ==
    \A i \in DOMAIN tasks :
        LET deps == tasks[i].dependsOn IN
        /\ IsInjective(deps)
        /\ \A j \in DOMAIN deps :
            deps[j] # tasks[i].name /\ deps[j] \in Range(task_names(tasks))

\* Mutant: a result may come from any task.
SourcesAnywhere(tasks) == \A i \in DOMAIN tasks : IsInjective(tasks[i].from)

\* Pass 3: input.from names dependencies of the task, each once.  That they
\* are other, declared tasks was checked in pass 2.
SourcesValid(tasks) ==
    \A i \in DOMAIN tasks :
        /\ IsInjective(tasks[i].from)
        /\ Range(tasks[i].from) \subseteq Range(tasks[i].dependsOn)

Graph(tasks) ==
    [names |-> task_names(tasks),
     dependencies |-> [n \in Range(task_names(tasks)) |->
        tasks[CHOOSE i \in DOMAIN tasks : tasks[i].name = n].dependsOn]]

-----------------------------------------------------------------------------
(* topological_order                                                       *)

dependents(g, n) == SelectSeq(g.names, LAMBDA t : n \in Range(g.dependencies[t]))

Start(g) ==
    LET indegree == [n \in DOMAIN g.dependencies |-> Len(g.dependencies[n])] IN
    [indegree |-> indegree, ordered |-> << >>,
     ready |-> SelectSeq(g.names, LAMBDA t : indegree[t] = 0)]

\* Mutant: a task is ready as soon as one of its dependencies is placed.
PopEagerly(g, s) ==
    LET freed == dependents(g, Head(s.ready))
        indegree == [n \in DOMAIN s.indegree |->
                        IF n \in Range(freed) THEN s.indegree[n] - 1 ELSE s.indegree[n]]
    IN  [indegree |-> indegree, ordered |-> Append(s.ordered, Head(s.ready)),
         ready |-> Tail(s.ready) \o
                   SelectSeq(freed, LAMBDA t : t \notin Range(s.ordered \o s.ready))]

\* One round of the loop: the first ready task is placed and its dependents
\* lose one incoming edge.
Pop(g, s) ==
    LET freed == dependents(g, Head(s.ready))
        indegree == [n \in DOMAIN s.indegree |->
                        IF n \in Range(freed) THEN s.indegree[n] - 1 ELSE s.indegree[n]]
    IN  [indegree |-> indegree, ordered |-> Append(s.ordered, Head(s.ready)),
         ready |-> Tail(s.ready) \o SelectSeq(freed, LAMBDA t : indegree[t] = 0)]

\* A task becomes ready at most once, so the loop ends after at most as many
\* rounds as there are tasks.
topological_order(g) ==
    LET Round(s, n) == Once(s, LAMBDA t : IF t.ready = << >> THEN t ELSE Pop(g, t))
    IN  FoldLeft(Round, Start(g), g.names).ordered

\* The graph is built only if the order holds every task.
build_workflow_graph(tasks) ==
    /\ NamesValid(tasks)
    /\ DependenciesValid(tasks)
    /\ SourcesValid(tasks)
    /\ Len(topological_order(Graph(tasks))) = Len(tasks)

-----------------------------------------------------------------------------
(* What to create, what to skip, where the Workflow stands                 *)

PhaseOf(task_phases, n) == IF n \in DOMAIN task_phases THEN task_phases[n] ELSE "absent"

find_ready_tasks(g, task_phases) ==
    SelectSeq(g.names, LAMBDA t :
        /\ t \notin DOMAIN task_phases
        /\ \A d \in Range(g.dependencies[t]) : PhaseOf(task_phases, d) = "Succeeded")

TERMINAL_UNSUCCESSFUL_PHASES == {"Failed", "TimedOut", "Skipped"}

\* Mutant: only failures met in the task list itself block a task.
SkipDirect(g, effective, t) ==
    IF /\ t \notin DOMAIN effective
       /\ \E d \in Range(g.dependencies[t]) :
            PhaseOf(effective, d) \in TERMINAL_UNSUCCESSFUL_PHASES \ {"Skipped"}
    THEN [n \in DOMAIN effective \union {t} |-> IF n = t THEN "Skipped" ELSE effective[n]]
    ELSE effective

\* One task of find_skipped_tasks: the phases known after looking at t.
Skip(g, effective, t) ==
    IF /\ t \notin DOMAIN effective
       /\ \E d \in Range(g.dependencies[t]) :
            PhaseOf(effective, d) \in TERMINAL_UNSUCCESSFUL_PHASES
    THEN [n \in DOMAIN effective \union {t} |-> IF n = t THEN "Skipped" ELSE effective[n]]
    ELSE effective

\* task_phases with the skipped tasks added to it.
find_skipped_tasks(g, task_phases) ==
    FoldLeft(LAMBDA effective, t : Once(effective, LAMBDA e : Skip(g, e, t)),
             task_phases, topological_order(g))

WORKFLOW_TERMINAL_TASK_PHASES == {"Succeeded"} \union TERMINAL_UNSUCCESSFUL_PHASES

\* Mutant: a Skipped task is not terminal.
aggregate_without_skips(names, task_phases) ==
    LET phases == {PhaseOf(task_phases, n) : n \in Range(names)} IN
    IF phases = {"Succeeded"} THEN "Succeeded"
    ELSE IF phases # {} /\ phases \subseteq {"Succeeded", "Failed", "TimedOut"} THEN "Failed"
    ELSE "Running"

aggregate_workflow_phase(names, task_phases) ==
    LET phases == {PhaseOf(task_phases, n) : n \in Range(names)} IN
    IF phases = {"Succeeded"} THEN "Succeeded"
    ELSE IF phases # {} /\ phases \subseteq WORKFLOW_TERMINAL_TASK_PHASES THEN "Failed"
    ELSE "Running"

=============================================================================
