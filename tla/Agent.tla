-------------------------------- MODULE Agent --------------------------------
(***************************************************************************)
(* The Agent controller: the kopf handlers that create and update the      *)
(* Deployment and the Service of one Agent, and the timer that reports its *)
(* readiness.                                                              *)
(*                                                                         *)
(* Of a spec only the number of replicas matters here.  kopf runs the      *)
(* create handler until it returns, then the update handler whenever the   *)
(* spec differs from the one handled last; the timer runs beside them.     *)
(* Every API call is one action.                                           *)
(***************************************************************************)
EXTENDS Integers

CONSTANTS
    MaxReplicas,   \* replicas a spec may ask for
    MaxEdits,      \* edits of the spec
    MaxFailures    \* API calls that raise

ASSUME BoundsAssumption == MaxReplicas \in Nat /\ MaxEdits \in Nat /\ MaxFailures \in Nat

Replicas == 0 .. MaxReplicas
None == -1

VARIABLES
    spec,         \* spec.replicas
    handled,      \* kopf's last handled spec, None before creation is done
    handler,      \* the create or update handler: step, and the spec it was given
    timer,        \* the timer: step, its spec, what it read
    deployment,   \* replicas of the Deployment, None if there is none
    ready,        \* its ready replicas
    service,      \* is there a Service?
    status,       \* the Agent's status
    edits,
    failures

vars == <<spec, handled, handler, timer, deployment, ready, service, status, edits, failures>>

Off == [pc |-> "off", spec |-> None]
Waiting == [pc |-> "off", spec |-> None, ready |-> None]

Init ==
    /\ spec \in Replicas
    /\ handled = None
    /\ handler = Off
    /\ timer = Waiting
    /\ deployment = None
    /\ ready = 0
    /\ service = FALSE
    /\ status = [phase |-> "none", readyReplicas |-> 0]
    /\ edits = 0
    /\ failures = 0

\* The user changes the spec.
Edit ==
    /\ edits < MaxEdits
    /\ edits' = edits + 1
    /\ spec' \in Replicas \ {spec}
    /\ UNCHANGED <<handled, handler, timer, deployment, ready, service, status, failures>>

-----------------------------------------------------------------------------
(* create_agent                                                            *)

StartCreate ==
    /\ handler.pc = "off"
    /\ handled = None
    /\ handler' = [pc |-> "deployment", spec |-> spec]
    /\ UNCHANGED <<spec, handled, timer, deployment, ready, service, status, edits, failures>>

create_deployment ==
    /\ handler.pc = "deployment"
    /\ deployment = None
    /\ deployment' = handler.spec
    /\ handler' = [handler EXCEPT !.pc = "service"]
    /\ UNCHANGED <<spec, handled, timer, ready, service, status, edits, failures>>

create_service ==
    /\ handler.pc = "service"
    /\ ~service
    /\ service' = TRUE
    /\ handler' = [handler EXCEPT !.pc = "created"]
    /\ UNCHANGED <<spec, handled, timer, deployment, ready, status, edits, failures>>

\* Mutant: what exists already counts as created, and the handler is done.
AlreadyExistsIsDone ==
    /\ \/ handler.pc = "deployment" /\ deployment # None
       \/ handler.pc = "service" /\ service
    /\ handler' = [handler EXCEPT !.pc = "created"]
    /\ UNCHANGED <<spec, handled, timer, deployment, ready, service, status, edits, failures>>

\* 409: what is to be created exists.  The handler raises and is run again.
AlreadyExists ==
    /\ \/ handler.pc = "deployment" /\ deployment # None
       \/ handler.pc = "service" /\ service
    /\ handler' = Off
    /\ UNCHANGED <<spec, handled, timer, deployment, ready, service, status, edits, failures>>

\* The handler's patch, and kopf's record that this spec is handled.
FinishCreate ==
    /\ handler.pc = "created"
    /\ status' = [phase |-> "Pending", readyReplicas |-> 0]
    /\ handled' = handler.spec
    /\ handler' = Off
    /\ UNCHANGED <<spec, timer, deployment, ready, service, edits, failures>>

-----------------------------------------------------------------------------
(* update_agent                                                            *)

StartUpdate ==
    /\ handler.pc = "off"
    /\ handled # None
    /\ handled # spec
    /\ handler' = [pc |-> "patch", spec |-> spec]
    /\ UNCHANGED <<spec, handled, timer, deployment, ready, service, status, edits, failures>>

\* Mutant: the Deployment keeps its replicas.
reconcile_template_only ==
    /\ handler.pc = "patch"
    /\ handler' = [handler EXCEPT !.pc = "updated"]
    /\ UNCHANGED <<spec, handled, timer, deployment, ready, service, status, edits, failures>>

reconcile_agent_deployment ==
    /\ handler.pc = "patch"
    /\ deployment' = handler.spec
    /\ handler' = [handler EXCEPT !.pc = "updated"]
    /\ UNCHANGED <<spec, handled, timer, ready, service, status, edits, failures>>

FinishUpdate ==
    /\ handler.pc = "updated"
    /\ handled' = handler.spec
    /\ handler' = Off
    /\ UNCHANGED <<spec, timer, deployment, ready, service, status, edits, failures>>

\* A call raises after or before its effect, or the operator dies before kopf
\* has recorded the handler as done.
HandlerFails ==
    /\ failures < MaxFailures
    /\ failures' = failures + 1
    /\ handler.pc # "off"
    /\ handler' = Off
    /\ \/ UNCHANGED <<deployment, service>>
       \/ /\ handler.pc \in {"deployment", "patch"}
          /\ handler.pc = "deployment" => deployment = None
          /\ deployment' = handler.spec
          /\ UNCHANGED service
       \/ handler.pc = "service" /\ service' = TRUE /\ UNCHANGED deployment
    /\ UNCHANGED <<spec, handled, timer, ready, status, edits>>

-----------------------------------------------------------------------------
(* reconcile_agent_status                                                  *)

StartTimer ==
    /\ timer.pc = "off"
    /\ timer' = [Waiting EXCEPT !.pc = "read", !.spec = spec]
    /\ UNCHANGED <<spec, handled, handler, deployment, ready, service, status, edits, failures>>

\* None: 404.
get_deployment_ready_replicas ==
    /\ timer.pc = "read"
    /\ timer' = [timer EXCEPT !.pc = "patch", !.ready = IF deployment = None THEN None ELSE ready]
    /\ UNCHANGED <<spec, handled, handler, deployment, ready, service, status, edits, failures>>

\* Mutant: more Pods than asked for.
PhaseOfStrict(desired, found) ==
    IF found # None /\ found > desired THEN "Running"
    ELSE IF found > 0 THEN "Provisioning" ELSE "Pending"

PhaseOf(desired, found) ==
    IF found # None /\ found >= desired THEN "Running"
    ELSE IF found > 0 THEN "Provisioning" ELSE "Pending"

\* Mutant: a missing Deployment is reported as it was read.
PatchStatusRaw ==
    /\ timer.pc = "patch"
    /\ status' = [phase |-> PhaseOf(timer.spec, timer.ready), readyReplicas |-> timer.ready]
    /\ timer' = Waiting
    /\ UNCHANGED <<spec, handled, handler, deployment, ready, service, edits, failures>>

PatchStatus ==
    /\ timer.pc = "patch"
    /\ status' = [phase |-> PhaseOf(timer.spec, timer.ready),
                  readyReplicas |-> IF timer.ready = None THEN 0 ELSE timer.ready]
    /\ timer' = Waiting
    /\ UNCHANGED <<spec, handled, handler, deployment, ready, service, edits, failures>>

\* The read raises something else than 404; the timer fires again.
TimerFails ==
    /\ timer.pc = "read"
    /\ failures < MaxFailures
    /\ failures' = failures + 1
    /\ timer' = Waiting
    /\ UNCHANGED <<spec, handled, handler, deployment, ready, service, status, edits>>

-----------------------------------------------------------------------------
\* Kubernetes brings the Pods of the Deployment up and down, one at a time.
Rollout ==
    /\ deployment # None
    /\ ready # deployment
    /\ ready' = IF ready < deployment THEN ready + 1 ELSE ready - 1
    /\ UNCHANGED <<spec, handled, handler, timer, deployment, service, status, edits, failures>>

Create == StartCreate \/ create_deployment \/ create_service \/ AlreadyExists \/ FinishCreate
Update == StartUpdate \/ reconcile_agent_deployment \/ FinishUpdate
Timer == StartTimer \/ get_deployment_ready_replicas \/ PatchStatus

Next == Edit \/ Create \/ Update \/ HandlerFails \/ Timer \/ TimerFails \/ Rollout

Spec == Init /\ [][Next]_vars

\* kopf goes on with its handlers and its timer, Kubernetes with its rollout.
FairSpec ==
    Spec /\ WF_vars(Create \/ Update) /\ WF_vars(Timer) /\ WF_vars(Rollout)

-----------------------------------------------------------------------------
(* Properties                                                              *)

\* Every variable has its type, and a Deployment asks for replicas of a spec.
TypeOK ==
    /\ spec \in Replicas
    /\ handled \in Replicas \union {None}
    /\ handler \in [pc : {"off", "deployment", "service", "created", "patch", "updated"},
                    spec : Replicas \union {None}]
    /\ timer \in [pc : {"off", "read", "patch"}, spec : Replicas \union {None},
                  ready : Replicas \union {None}]
    /\ deployment \in Replicas \union {None}
    /\ ready \in Replicas
    /\ service \in BOOLEAN
    /\ status \in [phase : {"none", "Pending", "Provisioning", "Running"}, readyReplicas : Replicas]
    /\ edits \in 0 .. MaxEdits
    /\ failures \in 0 .. MaxFailures

\* An Agent whose creation kopf considers handled has its Deployment and its
\* Service, whatever calls failed and were repeated.
HandledIsComplete ==
    handled # None => deployment # None /\ service

\* "The Operator continually converges the actual state toward desired state":
\* in the end the Service exists and the Deployment has the replicas asked for.
Converges == <>[](service /\ deployment = spec)

\* It does as long as no call fails, however the handlers interleave with edits.
ConvergesUndisturbed == [](failures = 0) => Converges

\* Under the same condition the status says in the end that the Agent runs with
\* its replicas, although create_agent and the timer patch it side by side.
StatusConverges ==
    [](failures = 0) => <>[](status = [phase |-> "Running", readyReplicas |-> spec])

=============================================================================
