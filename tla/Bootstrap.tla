----------------------------- MODULE Bootstrap -----------------------------
(***************************************************************************)
(* The install-time bootstrap Job (workers/bootstrap/run.go, zitadel.go)   *)
(* composed with the onboarding workflow of the "system" tenant that it    *)
(* starts.  The Job runs one pod at a time; a pod that fails is restarted  *)
(* and a Job that succeeded runs again with the next ArgoCD sync.  The     *)
(* workflow goes on when the pod that waits for it dies.                   *)
(***************************************************************************)
EXTENDS OnboardTenant

CONSTANTS
    MaxRuns,        \* bound: pods the Job starts
    NoRun           \* no workflow is awaited

ASSUME BootstrapAssumption == MaxRuns \in Nat \ {0} /\ NoRun \notin Run

VARIABLES
    job,            \* where run() is
    awaited,        \* the workflow run the pod waits for
    pods,           \* pods started so far
    admins,         \* Zitadel users with the admin's email
    relation        \* system:monok8s#only_system_can_create_tenants is written

jobVars == <<job, awaited, pods, admins, relation>>
allVars == <<vars, jobVars>>

JobStep == {"secret", "check", "submit", "wait", "search", "create", "relate", "done", "failed"}

BootstrapTypeOK ==
    /\ TypeOK
    /\ job \in JobStep
    /\ awaited \in Run \cup {NoRun}
    /\ pods \in 1..MaxRuns
    /\ admins \in 0..MaxRuns
    /\ relation \in BOOLEAN

BootstrapInit ==
    /\ Init
    /\ job = "secret"
    /\ awaited = NoRun
    /\ pods = 1
    /\ admins = 0
    /\ relation = FALSE

\* Step 1: readBootstrapAdminSecret.
ReadSecret ==
    /\ job = "secret"
    /\ job' = "check"
    /\ UNCHANGED <<vars, awaited, pods, admins, relation>>

\* Step 2: systemTenantExists: the XTenant alone decides.
CheckExists ==
    /\ job = "check"
    /\ job' = IF "namespace" \in exists THEN "search" ELSE "submit"
    /\ UNCHANGED <<vars, awaited, pods, admins, relation>>

\* Step 3: executeOnboardingWorkflow, under an id made of the time.
Submit ==
    /\ job = "submit"
    /\ \E r \in Run : Start(r) /\ awaited' = r
    /\ job' = "wait"
    /\ UNCHANGED <<pods, admins, relation>>

\* wfRun.Get returns; an error ends the pod (JobFails).
WorkflowReturns ==
    /\ job = "wait" /\ pc[awaited] = "succeeded"
    /\ job' = "search"
    /\ awaited' = NoRun
    /\ UNCHANGED <<vars, pods, admins, relation>>

\* Mutant: create without searching.
SearchAdmin_Skipped ==
    /\ job = "search"
    /\ job' = "create"
    /\ UNCHANGED <<vars, awaited, pods, admins, relation>>

\* Step 4: ensureAdminUser: search by email ...
SearchAdmin ==
    /\ job = "search"
    /\ job' = IF admins = 0 THEN "create" ELSE "relate"
    /\ UNCHANGED <<vars, awaited, pods, admins, relation>>

\* ... then create; the answer may be lost.
CreateAdmin ==
    /\ job = "create"
    /\ admins' = admins + 1
    /\ job' \in {"relate", "failed"}
    /\ UNCHANGED <<vars, awaited, pods, relation>>

\* Step 5: WriteSystemAdminRelation (TOUCH).
WriteRelation ==
    /\ job = "relate"
    /\ relation' = TRUE
    /\ job' \in {"done", "failed"}
    /\ UNCHANGED <<vars, awaited, pods, admins>>

\* A step returns an error, the context of run() expires or the pod dies.
JobFails ==
    /\ job \notin {"done", "failed"}
    /\ job' = "failed"
    /\ awaited' = NoRun
    /\ UNCHANGED <<vars, pods, admins, relation>>

\* backoffLimit restarts a failed pod; the PostSync hook runs the Job anew.
Restart ==
    /\ job \in {"done", "failed"}
    /\ pods < MaxRuns
    /\ pods' = pods + 1
    /\ job' = "secret"
    /\ UNCHANGED <<vars, awaited, admins, relation>>

JobNext ==
    \/ ReadSecret \/ CheckExists \/ Submit \/ WorkflowReturns
    \/ SearchAdmin \/ CreateAdmin \/ WriteRelation \/ JobFails \/ Restart

BootstrapNext ==
    \/ JobNext
    \/ (Services \/ \E r \in Run : RunStep(r)) /\ UNCHANGED jobVars

BootstrapSpec == BootstrapInit /\ [][BootstrapNext]_allVars

-----------------------------------------------------------------------------
(* Properties.                                                             *)

\* "Idempotent end-to-end": whatever pod died where, and whichever answer was
\* lost, there is never a second admin user, a Job that succeeded, at whatever
\* attempt, has one who may create tenants, and the relation never names a
\* user that does not exist.
OneAdmin ==
    /\ admins <= 1
    /\ job = "done" => admins = 1 /\ relation
    /\ relation => admins > 0

\* "Re-running after a partial failure picks up where the previous run left
\* off": a Job that succeeded has the system tenant provisioned.
DoneMeansProvisioned ==
    job = "done" => Resource \subseteq Standing /\ XR \subseteq ready
=============================================================================
