--------------------------- MODULE OnboardTenant ---------------------------
(***************************************************************************)
(* OnboardTenantWorkflow (workers/onboarding/workflow.go) for one tenant,  *)
(* with its activities (activities_xr.go, activities_argo.go,              *)
(* activities_emit.go, activities_cleanup.go) and the services they drive. *)
(*                                                                         *)
(* A Run is one execution of the workflow; several runs for one tenant     *)
(* share its custom resources, Argo workflows and NATS subjects.  A step   *)
(* of the workflow is an activity that Temporal attempts over and over:    *)
(* an attempt begins, applies its effect, waits, and then succeeds or      *)
(* fails, and only a success, a cancellation or, where the retry policy is *)
(* bounded, the last failure reaches the workflow code.                    *)
(***************************************************************************)
EXTENDS Naturals, FiniteSets

CONSTANTS
    Run,            \* executions of the workflow for the tenant
    Cancels,        \* TRUE: an operator may cancel a run
    Policies,       \* the retry policies considered; "unlimited" is Temporal's default
    TimesOut,       \* TRUE: the run has a WorkflowExecutionTimeout
    MaxArgo         \* bound: Argo workflows of one template running at once

ASSUME OnboardAssumption ==
    /\ {Cancels, TimesOut} \subseteq BOOLEAN
    /\ Policies # {} /\ Policies \subseteq {"unlimited", "bounded"}
    /\ MaxArgo \in Nat \ {0}

\* The five steps in order.  The first four are also the names kept in
\* `completed` and what the step leaves behind in the cluster.
StepName == [i \in 1..5 |->
    CASE i = 1 -> "namespace" [] i = 2 -> "database" [] i = 3 -> "vault-key"
      [] i = 4 -> "migrations" [] i = 5 -> "emit"]
XR       == {"namespace", "database"}
ArgoStep == {"vault-key", "migrations"}
Resource == XR \cup ArgoStep

VARIABLES
    exists,     \* what the steps have left behind: XRs, Vault key, migrated schema
    ready,      \* the XRs whose status.ready is true
    deleting,   \* the XRs whose deletion is accepted and not finished
    argo,       \* argo[s]: running Argo workflows of step s
    natsUp,     \* NATS can be reached
    policy,     \* the retry policy of the activities: fixed
    events,     \* tenant events published: <<run, event>>
    pc,         \* pc[r]: where the workflow code of run r is
    step,       \* step[r]: its current (or next) step
    completed,  \* completed[r]: how many steps it has completed
    undo,       \* undo[r]: the loop index of its cleanup closure
    att,        \* att[r]: how far the attempt of its current activity has got
    inbox,      \* inbox[r]: first message on the attempt's subscription
    ghost,      \* ghost[r]: step of an attempt the run no longer waits for, or 0
    kept        \* kept[r]: what a cleanup activity of r failed to delete

cluster  == <<exists, ready, deleting, argo>>
workflow == <<pc, step, completed, undo, kept>>
attempt  == <<att, inbox, ghost>>
env      == <<natsUp, policy>>
vars     == <<cluster, env, events, workflow, attempt>>

GivesUp == policy = "bounded"

\* What is there to stay.
Standing == exists \ deleting

Phase == {"none", "status", "step", "cleanup", "notify", "succeeded", "failed", "timedout"}

TypeOK ==
    /\ exists \subseteq Resource
    /\ ready \subseteq XR
    /\ deleting \subseteq XR
    /\ argo \in [ArgoStep -> 0..MaxArgo]
    /\ natsUp \in BOOLEAN
    /\ policy \in Policies
    /\ events \subseteq Run \X {"tenant.created", "tenant.creation-failed"}
    /\ pc \in [Run -> Phase]
    /\ step \in [Run -> 1..6]
    /\ completed \in [Run -> 0..5]
    /\ undo \in [Run -> 0..4]
    /\ att \in [Run -> {"scheduled", "begun", "applied"}]
    /\ inbox \in [Run -> {"none", "Succeeded", "Failed"}]
    /\ ghost \in [Run -> 0..5]
    /\ kept \in [Run -> SUBSET Resource]

Init ==
    /\ exists = {} /\ ready = {} /\ deleting = {}
    /\ argo = [s \in ArgoStep |-> 0]
    /\ natsUp = TRUE
    /\ policy \in Policies
    /\ events = {}
    /\ pc = [r \in Run |-> "none"]
    /\ step = [r \in Run |-> 1]
    /\ completed = [r \in Run |-> 0]
    /\ undo = [r \in Run |-> 0]
    /\ att = [r \in Run |-> "scheduled"]
    /\ inbox = [r \in Run |-> "none"]
    /\ ghost = [r \in Run |-> 0]
    /\ kept = [r \in Run |-> {}]

-----------------------------------------------------------------------------
(* The workflow code between activities.                                   *)

Goto(r, p) == pc' = [pc EXCEPT ![r] = p]

\* temporal.start: the run begins with its "started" status events.
Start(r) ==
    /\ pc[r] = "none"
    /\ Goto(r, "status")
    /\ UNCHANGED <<cluster, env, events, step, completed, undo, kept, attempt>>

\* emitStep / emitWorkflowLifecycle between two steps (folded): the activity
\* publishes or, under a bounded policy, its error is ignored.  After the last
\* step the workflow returns nil.
EmitStatus(r) ==
    /\ pc[r] = "status"
    /\ natsUp \/ GivesUp
    /\ Goto(r, IF step[r] = 6 THEN "succeeded" ELSE "step")
    /\ UNCHANGED <<cluster, env, events, step, completed, undo, kept, attempt>>

\* Mutant: the cleanup loop starts at the step that failed.
FailStep_FromStep(r) ==
    /\ Goto(r, IF step[r] = 1 THEN "failed" ELSE "cleanup")
    /\ undo' = [undo EXCEPT ![r] = step[r]]
    /\ att' = [att EXCEPT ![r] = "scheduled"]
    /\ inbox' = [inbox EXCEPT ![r] = "none"]
    /\ UNCHANGED <<step, completed, kept>>

\* Mutant: the failure event is sent without the cleanup loop.
FailStep_NoCleanup(r) ==
    /\ Goto(r, IF step[r] = 1 THEN "failed" ELSE "notify")
    /\ att' = [att EXCEPT ![r] = "scheduled"]
    /\ inbox' = [inbox EXCEPT ![r] = "none"]
    /\ UNCHANGED <<step, completed, undo, kept>>

\* The error branch of a step, up to the first cleanup activity.  The first
\* step returns at once; the others call cleanup(), whose loop starts at the
\* last completed step.
FailStep(r) ==
    /\ Goto(r, IF step[r] = 1 THEN "failed" ELSE "cleanup")
    /\ undo' = [undo EXCEPT ![r] = completed[r]]
    /\ att' = [att EXCEPT ![r] = "scheduled"]
    /\ inbox' = [inbox EXCEPT ![r] = "none"]
    /\ UNCHANGED <<step, completed, kept>>

\* The attempt in progress goes on without the workflow: it hears of the end
\* of its run with its next heartbeat, after its effect.
Abandon(r) ==
    ghost' = [ghost EXCEPT ![r] = IF pc[r] = "step" /\ att[r] = "begun" THEN step[r] ELSE @]

\* The run is cancelled: the pending activity, or the next one scheduled,
\* returns a CanceledError at once.  The status events after the last step
\* fail unnoticed and the workflow still returns nil; cleanup runs on a
\* disconnected context and is not affected.
Cancel(r) ==
    /\ Cancels
    /\ pc[r] \in {"status", "step"}
    /\ IF step[r] = 6
       THEN Goto(r, "succeeded") /\ UNCHANGED <<step, completed, undo, kept, attempt>>
       ELSE /\ FailStep(r)
            /\ Abandon(r)
    /\ UNCHANGED <<cluster, env, events>>

\* WorkflowExecutionTimeout: the server closes the run, no code runs.
TimeOut(r) ==
    /\ TimesOut
    /\ pc[r] \in {"status", "step", "cleanup", "notify"}
    /\ Goto(r, "timedout")
    /\ Abandon(r)
    /\ UNCHANGED <<cluster, env, events, step, completed, undo, kept, att, inbox>>

-----------------------------------------------------------------------------
(* The forward activities.                                                 *)

\* Steps 3 to 5 dial NATS first; 3 and 4 subscribe before they submit.
Begin(r) ==
    /\ pc[r] = "step" /\ att[r] = "scheduled"
    /\ step[r] >= 3 => natsUp
    /\ att' = [att EXCEPT ![r] = "begun"]
    /\ UNCHANGED <<cluster, env, events, workflow, inbox, ghost>>

\* What an attempt of step i of run r does to the world: create or update the
\* XR, create an Argo Workflow under a generated name, or publish.  An update
\* does not look at deletionTimestamp, and does not stop a deletion.
Effect(r, i) ==
    \/ /\ StepName[i] \in XR
       /\ exists' = exists \cup {StepName[i]}
       /\ UNCHANGED <<ready, deleting, argo, events>>
    \/ /\ StepName[i] \in ArgoStep
       /\ argo[StepName[i]] < MaxArgo
       /\ argo' = [argo EXCEPT ![StepName[i]] = @ + 1]
       /\ UNCHANGED <<exists, ready, deleting, events>>
    \/ /\ i = 5
       /\ natsUp
       /\ events' = events \cup {<<r, "tenant.created">>}
       /\ UNCHANGED cluster

Apply(r) ==
    /\ pc[r] = "step" /\ att[r] = "begun"
    /\ Effect(r, step[r])
    /\ att' = [att EXCEPT ![r] = "applied"]
    /\ UNCHANGED <<env, workflow, inbox, ghost>>

\* Mutant: any callback ends the wait, whatever its phase.
Awaited_AnyPhase(r) ==
    \/ StepName[step[r]] \in ready
    \/ StepName[step[r]] \in ArgoStep /\ inbox[r] # "none"
    \/ step[r] = 5

\* The condition an attempt waits for: status.ready of the XR, an Argo
\* callback with phase "Succeeded", nothing after a publish.
Awaited(r) ==
    \/ StepName[step[r]] \in ready
    \/ StepName[step[r]] \in ArgoStep /\ inbox[r] = "Succeeded"
    \/ step[r] = 5

\* Mutant: a step is skipped.
Succeed_TwoSteps(r) ==
    /\ pc[r] = "step" /\ att[r] = "applied"
    /\ Awaited(r)
    /\ Goto(r, "status")
    /\ step' = [step EXCEPT ![r] = @ + 2]
    /\ completed' = [completed EXCEPT ![r] = step[r]]
    /\ att' = [att EXCEPT ![r] = "scheduled"]
    /\ inbox' = [inbox EXCEPT ![r] = "none"]
    /\ UNCHANGED <<cluster, env, events, undo, kept, ghost>>

\* The awaited condition holds: the activity returns nil, and the workflow
\* adds the step to `completed` and goes on to the next.
Succeed(r) ==
    /\ pc[r] = "step" /\ att[r] = "applied"
    /\ Awaited(r)
    /\ Goto(r, "status")
    /\ step' = [step EXCEPT ![r] = @ + 1]
    /\ completed' = [completed EXCEPT ![r] = step[r]]
    /\ att' = [att EXCEPT ![r] = "scheduled"]
    /\ inbox' = [inbox EXCEPT ![r] = "none"]
    /\ UNCHANGED <<cluster, env, events, undo, kept, ghost>>

\* Mutant: no StartToCloseTimeout, only a callback ends the wait.
AttemptFails_NoTimeout(r) ==
    /\ pc[r] = "step" /\ inbox[r] # "none"
    /\ att' = [att EXCEPT ![r] = "scheduled"]
    /\ inbox' = [inbox EXCEPT ![r] = "none"]
    /\ UNCHANGED <<cluster, env, events, workflow, ghost>>

\* An attempt returns an error (a "Failed" callback is one), exceeds
\* StartToCloseTimeout or loses its worker: Temporal schedules the next.
AttemptFails(r) ==
    /\ pc[r] = "step" /\ att[r] # "scheduled"
    /\ att' = [att EXCEPT ![r] = "scheduled"]
    /\ inbox' = [inbox EXCEPT ![r] = "none"]
    /\ UNCHANGED <<cluster, env, events, workflow, ghost>>

\* The retry policy is exhausted and the error reaches the workflow.
StepFails(r) ==
    /\ GivesUp
    /\ pc[r] = "step" /\ att[r] # "scheduled"
    /\ FailStep(r)
    /\ UNCHANGED <<cluster, env, events, ghost>>

\* An abandoned attempt acts, or hears of the end of its run before it does.
GhostActs(r) ==
    /\ ghost[r] # 0
    /\ Effect(r, ghost[r])
    /\ ghost' = [ghost EXCEPT ![r] = 0]
    /\ UNCHANGED <<env, workflow, att, inbox>>

GhostStops(r) ==
    /\ ghost[r] # 0
    /\ ghost' = [ghost EXCEPT ![r] = 0]
    /\ UNCHANGED <<cluster, env, events, workflow, att, inbox>>

-----------------------------------------------------------------------------
(* The cleanup closure.                                                    *)

\* The loop moves on to the step completed before, or past its end.
NextUndo(r) ==
    /\ undo' = [undo EXCEPT ![r] = @ - 1]
    /\ Goto(r, IF undo[r] = 1 THEN "notify" ELSE "cleanup")

\* Mutant: cleanup in order of completion.
DeleteXR_InOrder(r) ==
    LET x == StepName[completed[r] + 1 - undo[r]]
    IN  /\ pc[r] = "cleanup" /\ x \in XR
        /\ deleting' = deleting \cup ({x} \cap exists)
        /\ NextUndo(r)
        /\ UNCHANGED <<exists, ready, argo, env, events, step, completed, kept, attempt>>

\* Mutant: a 404 of the apiserver is an error.
DeleteXR_NotFound(r) ==
    LET x == StepName[undo[r]]
    IN  /\ pc[r] = "cleanup" /\ x \in XR \cap exists
        /\ deleting' = deleting \cup ({x} \cap exists)
        /\ NextUndo(r) \/ UNCHANGED <<pc, undo>>
        /\ UNCHANGED <<exists, ready, argo, env, events, step, completed, kept, attempt>>

\* DeleteTenantDatabaseActivity and DeleteTenantNamespaceActivity: they return
\* once the apiserver has accepted the DELETE, and what the XR is composed of
\* goes later (TornDown).  A 404 is a success, and so is the DELETE of an XR
\* that is going already.  A lost acknowledgement repeats the delete.
DeleteXR(r) ==
    LET x == StepName[undo[r]]
    IN  /\ pc[r] = "cleanup" /\ x \in XR
        /\ deleting' = deleting \cup ({x} \cap exists)
        /\ NextUndo(r) \/ UNCHANGED <<pc, undo>>
        /\ UNCHANGED <<exists, ready, argo, env, events, step, completed, kept, attempt>>

\* A cleanup activity gives up and its error is ignored.  The one for the
\* Vault key is a stub that has no other outcome.
CleanupFails(r) ==
    /\ GivesUp
    /\ pc[r] = "cleanup" /\ StepName[undo[r]] # "migrations"
    /\ kept' = [kept EXCEPT ![r] = @ \cup {StepName[undo[r]]}]
    /\ NextUndo(r)
    /\ UNCHANGED <<cluster, env, events, step, completed, attempt>>

\* Migrations have no cleanup.
SkipMigrations(r) ==
    /\ pc[r] = "cleanup" /\ StepName[undo[r]] = "migrations"
    /\ NextUndo(r)
    /\ UNCHANGED <<cluster, env, events, step, completed, kept, attempt>>

\* EmitTenantCreationFailedEventActivity, or it gives up; the workflow
\* returns the error of the step.
Notify(r) ==
    /\ pc[r] = "notify"
    /\ \/ natsUp /\ events' = events \cup {<<r, "tenant.creation-failed">>}
       \/ GivesUp /\ UNCHANGED events
    /\ Goto(r, "failed")
    /\ UNCHANGED <<cluster, env, step, completed, undo, kept, attempt>>

-----------------------------------------------------------------------------
(* The services (external).                                                *)

\* Crossplane reconciles an XR: also one whose deletion was accepted meanwhile.
Reconcile(x) ==
    /\ x \in exists \cap XR
    /\ ready' = ready \cup {x}
    /\ UNCHANGED <<exists, deleting, argo, env, events, workflow, attempt>>

\* Crossplane has deleted what the XR is composed of, and the XR goes; the
\* schema goes with the database.
TornDown(x) ==
    /\ x \in deleting
    /\ exists' = exists \ ({x} \cup IF x = "database" THEN {"migrations"} ELSE {})
    /\ ready' = ready \ {x}
    /\ deleting' = deleting \ {x}
    /\ UNCHANGED <<argo, env, events, workflow, attempt>>

\* An attempt of step s holds a subscription; a message finds it if it has
\* not already got one.
Listening(r, s) ==
    pc[r] = "step" /\ StepName[step[r]] = s /\ att[r] # "scheduled" /\ inbox[r] = "none"

\* An Argo workflow ends and its onExit step publishes the phase on the
\* subject of the tenant.  Core NATS drops what nobody listens for.
ArgoEnds(s, phase) ==
    /\ argo[s] > 0
    /\ argo' = [argo EXCEPT ![s] = @ - 1]
    /\ \/ /\ phase = "Succeeded"
          /\ s = "migrations" => "database" \in ready
          /\ exists' = exists \cup {s}
       \/ phase = "Failed" /\ UNCHANGED exists
    /\ inbox' = [r \in Run |-> IF natsUp /\ Listening(r, s) THEN phase ELSE inbox[r]]
    /\ UNCHANGED <<ready, deleting, env, events, workflow, att, ghost>>

NatsFlips ==
    /\ natsUp' = ~natsUp
    /\ UNCHANGED <<policy, cluster, events, workflow, attempt>>

-----------------------------------------------------------------------------
RunStep(r) ==
    \/ EmitStatus(r) \/ Cancel(r) \/ TimeOut(r)
    \/ Begin(r) \/ Apply(r) \/ Succeed(r) \/ AttemptFails(r) \/ StepFails(r)
    \/ GhostActs(r) \/ GhostStops(r)
    \/ DeleteXR(r) \/ CleanupFails(r) \/ SkipMigrations(r) \/ Notify(r)

Services ==
    \/ \E x \in XR : Reconcile(x) \/ TornDown(x)
    \/ \E s \in ArgoStep, phase \in {"Succeeded", "Failed"} : ArgoEnds(s, phase)
    \/ NatsFlips

Next == Services \/ \E r \in Run : Start(r) \/ RunStep(r)

Spec == Init /\ [][Next]_vars

(***************************************************************************)
(* Fairness.  Temporal dispatches what is scheduled and retries what       *)
(* failed; an attempt that could succeed again and again eventually does,  *)
(* Argo workflows end, and one that is listened for eventually succeeds;   *)
(* an attempt that waits in vain runs into StartToCloseTimeout; Crossplane *)
(* reconciles what is there to stay.  Nothing is assumed of NATS, which    *)
(* may stay down, nor of deletions, which may hang on a finalizer.         *)
(***************************************************************************)
Fairness ==
    /\ \A r \in Run :
          /\ SF_vars(EmitStatus(r)) /\ SF_vars(Begin(r))
          /\ SF_vars(Apply(r)) /\ SF_vars(Apply(r) /\ inbox[r] = "Succeeded")
          /\ SF_vars(Succeed(r)) /\ WF_vars(AttemptFails(r))
          /\ WF_vars(DeleteXR(r) /\ undo' # undo) /\ WF_vars(SkipMigrations(r))
          /\ SF_vars(Notify(r))
    /\ \A x \in XR : WF_vars(x \notin deleting /\ Reconcile(x))
    /\ \A s \in ArgoStep :
          /\ WF_vars(\E phase \in {"Succeeded", "Failed"} : ArgoEnds(s, phase))
          /\ SF_vars(ArgoEnds(s, "Succeeded") /\ natsUp /\ \E r \in Run : Listening(r, s))

FairSpec == Spec /\ Fairness

-----------------------------------------------------------------------------
(* Properties.                                                             *)

\* tenant.created tells subscribers "the tenant is ready": whatever attempts
\* were retried, abandoned or answered by the Argo workflow of an earlier
\* attempt, when a run publishes it both XRs are ready and there to stay, the
\* key exists and the schema is migrated.  Only an attempt that was abandoned,
\* under a bounded policy that lets the cleanup overtake it, may publish it later.
CreatedMeansProvisioned ==
    [][\A r \in Run :
          <<r, "tenant.created">> \in events' \ events /\ (GivesUp => pc[r] = "step") =>
              XR \subseteq ready /\ Resource \subseteq Standing]_vars

\* A run that returned nil left the whole tenant behind and told nobody that
\* its creation failed.
SuccessIsComplete ==
    \A r \in Run : pc[r] = "succeeded" =>
        /\ Resource \subseteq Standing /\ XR \subseteq ready
        /\ <<r, "tenant.created">> \in events
        /\ <<r, "tenant.creation-failed">> \notin events

\* "cleanup activities in reverse order of completion": nobody has asked for
\* the end of the namespace while a database that the run completed stands,
\* unless its deletion failed.  It is the requests that are ordered: Crossplane
\* ends the two in whichever order it gets there, and the namespace may be gone
\* while the database is still terminating.
DatabaseGoesFirst ==
    \A r \in Run :
        completed[r] >= 2 /\ "namespace" \notin Standing =>
            "database" \notin Standing \/ "database" \in kept[r]

\* "Emit failure event last so subscribers see it after cleanup is
\* best-effort done": nothing the run completed stands when the event is out,
\* but for what a cleanup activity failed to delete.  Done means that the
\* deletes were accepted: a subscriber may still see XRs that terminate.
FailureEventIsLast ==
    \A r \in Run : <<r, "tenant.creation-failed">> \in events =>
        \A i \in 1..3 : i <= completed[r] =>
            StepName[i] \notin Standing \/ StepName[i] \in kept[r]

\* Every run is a saga of five steps: it never skips a step forward, starts
\* to undo exactly at the last step it completed, undoes in order and never
\* turns round again.
SagaPhase(r) ==
    CASE pc[r] = "none" -> "idle"
      [] pc[r] \in {"status", "step"} -> "forward"
      [] pc[r] \in {"cleanup", "notify"} -> "backward"
      [] pc[r] = "succeeded" -> "completed"
      [] pc[r] = "failed" -> "compensated"
      [] pc[r] = "timedout" -> "killed"
SagaDone(r) == IF undo[r] > 0 \/ pc[r] \in {"cleanup", "notify", "failed"} THEN undo[r] ELSE completed[r]
Saga(r) == INSTANCE Saga WITH Last <- 5, phase <- SagaPhase(r), done <- SagaDone(r)
IsSaga ==
    /\ \A r \in Run : Saga(r)!Init
    /\ [][\A r \in Run : Saga(r)!Next \/ UNCHANGED Saga(r)!vars]_vars

\* Under Temporal's default policy a run completes, through lost and stale
\* Argo callbacks and any finite outage of NATS, unless it is cancelled or
\* killed.
Onboards ==
    \A r \in Run : ~GivesUp /\ <>[]natsUp =>
        (pc[r] = "status") ~> (pc[r] \in {"succeeded", "cleanup", "failed", "timedout"})

\* A run cancelled before the Vault key was minted undoes what it completed
\* and ends.
CancelledRunEnds ==
    \A r \in Run : <>[]natsUp =>
        (pc[r] = "cleanup" /\ completed[r] < 3) ~> (pc[r] \in {"failed", "timedout"})

\* "the workflow's cleanup loop ignores errors from cleanup activities so the
\* stub is safe to register": cleanup reaches its end.
StubIsSafe ==
    \A r \in Run : <>[]natsUp => (pc[r] = "cleanup") ~> (pc[r] = "failed")
=============================================================================
