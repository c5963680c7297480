------------------------ MODULE OnboardTenantProofs ------------------------
(***************************************************************************)
(* Proofs about OnboardTenant, CreateTenant and Bootstrap.  The type       *)
(* invariant and the implementation of the abstract saga hold for any      *)
(* number of runs of the workflow; what a run promises about the cluster   *)
(* holds for the only run of its tenant (Single), under every retry        *)
(* policy, and for any number of runs when none turns back; a slug has one *)
(* run however often its creation is requested; and the bootstrap Job      *)
(* creates one admin however many pods it takes.                           *)
(***************************************************************************)
EXTENDS CreateTenant, Bootstrap, TLAPS

-----------------------------------------------------------------------------
(* The position of a run in its steps and in its cleanup.                  *)

PositionInv ==
    \A r \in Run :
        /\ pc[r] = "none" => completed[r] = 0 /\ step[r] = 1 /\ undo[r] = 0
        /\ pc[r] \in {"status", "step"} => step[r] = completed[r] + 1 /\ undo[r] = 0
        /\ pc[r] = "step" => step[r] <= 5
        /\ pc[r] = "cleanup" => undo[r] > 0 /\ undo[r] <= completed[r] /\ completed[r] <= 4
        /\ pc[r] \in {"notify", "failed"} => undo[r] = 0 /\ completed[r] <= 4
        /\ pc[r] = "succeeded" => completed[r] = 5 /\ undo[r] = 0

\* An abandoned attempt is one of a step that its run did not complete.
GhostInv == \A r \in Run : ghost[r] # 0 => /\ ghost[r] > completed[r]
                                           /\ pc[r] \notin {"none", "status", "step", "succeeded"}

RunInv == TypeOK /\ PositionInv /\ GhostInv

\* The names of the steps.
LEMMA StepNames ==
    /\ StepName[1] = "namespace" /\ StepName[2] = "database" /\ StepName[3] = "vault-key"
    /\ StepName[4] = "migrations" /\ StepName[5] = "emit"
    /\ \A i \in 1..4 : StepName[i] \in Resource
    /\ \A i \in 1..5 : StepName[i] \in XR <=> i \in {1, 2}
    /\ \A i \in 1..5 : StepName[i] \in ArgoStep <=> i \in {3, 4}
  <1>1. /\ StepName[1] = "namespace" /\ StepName[2] = "database" /\ StepName[3] = "vault-key"
        /\ StepName[4] = "migrations" /\ StepName[5] = "emit"
    BY DEF StepName
  <1>2. \A i \in 1..5 : i = 1 \/ i = 2 \/ i = 3 \/ i = 4 \/ i = 5
    OBVIOUS
  <1>3. \A i \in 1..4 : i = 1 \/ i = 2 \/ i = 3 \/ i = 4
    OBVIOUS
  <1> QED
    BY <1>1, <1>2, <1>3 DEF Resource, XR, ArgoStep

\* No run has begun.
LEMMA RunInit == Init => RunInv
  BY OnboardAssumption DEF Init, RunInv, TypeOK, PositionInv, GhostInv, Phase, ArgoStep

\* Every step of every run and of the services keeps the invariant.
LEMMA RunStepInv == RunInv /\ [Next]_vars => RunInv'
  <1> SUFFICES ASSUME RunInv, [Next]_vars PROVE RunInv'
    OBVIOUS
  <1> USE OnboardAssumption, StepNames DEF RunInv, TypeOK, PositionInv, GhostInv, cluster, env, workflow, attempt
  <1>1. ASSUME NEW r \in Run, Start(r) PROVE RunInv'
    <2>1. TypeOK'
      BY <1>1 DEF Start, Goto, Phase
    <2>2. PositionInv'
      BY <1>1 DEF Start, Goto, Phase
    <2>3. GhostInv'
      BY <1>1 DEF Start, Goto, Phase
    <2> QED
      BY <2>1, <2>2, <2>3
  <1>2. ASSUME NEW r \in Run, EmitStatus(r) PROVE RunInv'
    <2>1. TypeOK'
      BY <1>2 DEF EmitStatus, Goto, Phase
    <2>2. PositionInv'
      BY <1>2 DEF EmitStatus, Goto, Phase
    <2>3. GhostInv'
      BY <1>2 DEF EmitStatus, Goto, Phase
    <2> QED
      BY <2>1, <2>2, <2>3
  <1>3. ASSUME NEW r \in Run, Cancel(r) PROVE RunInv'
    <2>1. TypeOK'
      BY <1>3 DEF Cancel, FailStep, Abandon, Goto, Phase
    <2>2. PositionInv'
      BY <1>3 DEF Cancel, FailStep, Abandon, Goto, Phase
    <2>3. GhostInv'
      BY <1>3 DEF Cancel, FailStep, Abandon, Goto, Phase
    <2> QED
      BY <2>1, <2>2, <2>3
  <1>4. ASSUME NEW r \in Run, TimeOut(r) PROVE RunInv'
    <2>1. TypeOK'
      BY <1>4 DEF TimeOut, Abandon, Goto, Phase
    <2>2. PositionInv'
      BY <1>4 DEF TimeOut, Abandon, Goto, Phase
    <2>3. GhostInv'
      BY <1>4 DEF TimeOut, Abandon, Goto, Phase
    <2> QED
      BY <2>1, <2>2, <2>3
  <1>5. ASSUME NEW r \in Run, Begin(r) PROVE RunInv'
    <2>1. TypeOK'
      BY <1>5 DEF Begin, Phase
    <2>2. PositionInv'
      BY <1>5 DEF Begin, Phase
    <2>3. GhostInv'
      BY <1>5 DEF Begin, Phase
    <2> QED
      BY <2>1, <2>2, <2>3
  <1>6. ASSUME NEW r \in Run, Apply(r) PROVE RunInv'
    <2>1. TypeOK'
      BY <1>6 DEF Apply, Effect, Phase
    <2>2. PositionInv'
      BY <1>6 DEF Apply, Effect, Phase
    <2>3. GhostInv'
      BY <1>6 DEF Apply, Effect, Phase
    <2> QED
      BY <2>1, <2>2, <2>3
  <1>7. ASSUME NEW r \in Run, Succeed(r) PROVE RunInv'
    <2>1. TypeOK'
      BY <1>7 DEF Succeed, Goto, Phase
    <2>2. PositionInv'
      BY <1>7 DEF Succeed, Goto, Phase
    <2>3. GhostInv'
      BY <1>7 DEF Succeed, Goto, Phase
    <2> QED
      BY <2>1, <2>2, <2>3
  <1>8. ASSUME NEW r \in Run, AttemptFails(r) PROVE RunInv'
    <2>1. TypeOK'
      BY <1>8 DEF AttemptFails, Phase
    <2>2. PositionInv'
      BY <1>8 DEF AttemptFails, Phase
    <2>3. GhostInv'
      BY <1>8 DEF AttemptFails, Phase
    <2> QED
      BY <2>1, <2>2, <2>3
  <1>9. ASSUME NEW r \in Run, StepFails(r) PROVE RunInv'
    <2>1. TypeOK'
      BY <1>9 DEF StepFails, FailStep, Goto, Phase
    <2>2. PositionInv'
      BY <1>9 DEF StepFails, FailStep, Goto, Phase
    <2>3. GhostInv'
      BY <1>9 DEF StepFails, FailStep, Goto, Phase
    <2> QED
      BY <2>1, <2>2, <2>3
  <1>10. ASSUME NEW r \in Run, GhostActs(r) PROVE RunInv'
    <2>1. TypeOK'
      BY <1>10 DEF GhostActs, Effect, Phase
    <2>2. PositionInv'
      BY <1>10 DEF GhostActs, Effect, Phase
    <2>3. GhostInv'
      BY <1>10 DEF GhostActs, Effect, Phase
    <2> QED
      BY <2>1, <2>2, <2>3
  <1>11. ASSUME NEW r \in Run, GhostStops(r) PROVE RunInv'
    <2>1. TypeOK'
      BY <1>11 DEF GhostStops, Phase
    <2>2. PositionInv'
      BY <1>11 DEF GhostStops, Phase
    <2>3. GhostInv'
      BY <1>11 DEF GhostStops, Phase
    <2> QED
      BY <2>1, <2>2, <2>3
  <1>12. ASSUME NEW r \in Run, DeleteXR(r) PROVE RunInv'
    <2>1. TypeOK'
      BY <1>12 DEF DeleteXR, NextUndo, Goto, Phase
    <2>2. PositionInv'
      BY <1>12 DEF DeleteXR, NextUndo, Goto, Phase
    <2>3. GhostInv'
      BY <1>12 DEF DeleteXR, NextUndo, Goto, Phase
    <2> QED
      BY <2>1, <2>2, <2>3
  <1>13. ASSUME NEW r \in Run, CleanupFails(r) PROVE RunInv'
    <2>1. TypeOK'
      BY <1>13 DEF CleanupFails, NextUndo, Goto, Phase
    <2>2. PositionInv'
      BY <1>13 DEF CleanupFails, NextUndo, Goto, Phase
    <2>3. GhostInv'
      BY <1>13 DEF CleanupFails, NextUndo, Goto, Phase
    <2> QED
      BY <2>1, <2>2, <2>3
  <1>14. ASSUME NEW r \in Run, SkipMigrations(r) PROVE RunInv'
    <2>1. TypeOK'
      BY <1>14 DEF SkipMigrations, NextUndo, Goto, Phase
    <2>2. PositionInv'
      BY <1>14 DEF SkipMigrations, NextUndo, Goto, Phase
    <2>3. GhostInv'
      BY <1>14 DEF SkipMigrations, NextUndo, Goto, Phase
    <2> QED
      BY <2>1, <2>2, <2>3
  <1>15. ASSUME NEW r \in Run, Notify(r) PROVE RunInv'
    <2>1. TypeOK'
      BY <1>15 DEF Notify, Goto, Phase
    <2>2. PositionInv'
      BY <1>15 DEF Notify, Goto, Phase
    <2>3. GhostInv'
      BY <1>15 DEF Notify, Goto, Phase
    <2> QED
      BY <2>1, <2>2, <2>3
  <1>16. ASSUME NEW x \in XR, Reconcile(x) PROVE RunInv'
    BY <1>16 DEF Reconcile
  <1>17. ASSUME NEW s \in ArgoStep, NEW phase \in {"Succeeded", "Failed"}, ArgoEnds(s, phase) PROVE RunInv'
    BY <1>17 DEF ArgoEnds, Resource
  <1>18. ASSUME NEW x \in XR, TornDown(x) PROVE RunInv'
    BY <1>18 DEF TornDown
  <1>19. CASE NatsFlips
    BY <1>19 DEF NatsFlips
  <1>20. CASE UNCHANGED vars
    BY <1>20 DEF vars
  <1> QED
    BY <1>1, <1>2, <1>3, <1>4, <1>5, <1>6, <1>7, <1>8, <1>9, <1>10, <1>11, <1>12, <1>13, <1>14, <1>15, <1>16, <1>17, <1>18, <1>19, <1>20 DEF Next, RunStep, Services

\* The positions of the runs in every reachable state.
THEOREM RunInvariance == Spec => []RunInv
  BY RunInit, RunStepInv, PTL DEF Spec

\* The type invariant, for any number of runs.
THEOREM TypeCorrect == Spec => []TypeOK
  <1>1. RunInv => TypeOK
    BY DEF RunInv
  <1> QED
    BY <1>1, RunInvariance, PTL

-----------------------------------------------------------------------------
(* Every run implements the saga.                                          *)

\* What a step of run r does to r's saga, and to nobody else's.
SagaStep(r) == Saga(r)!Next \/ UNCHANGED Saga(r)!vars

LEMMA SagaSteps == ASSUME RunInv, [Next]_vars, NEW q \in Run PROVE SagaStep(q)
  <1> USE DEF RunInv, TypeOK, PositionInv, Phase, workflow, cluster, env, attempt, SagaStep,
      SagaPhase, SagaDone, Saga!Next, Saga!vars
  <1>0. ASSUME UNCHANGED <<pc, completed, undo>> PROVE SagaStep(q)
    BY <1>0
  <1>1. ASSUME NEW r \in Run, Start(r) PROVE SagaStep(q)
    BY <1>1 DEF Start, Goto, Saga!Begin, Saga!Forward, Saga!Complete, Saga!TurnBack, Saga!Back, Saga!GiveUp, Saga!Kill
  <1>2. ASSUME NEW r \in Run, EmitStatus(r) PROVE SagaStep(q)
    BY <1>2 DEF EmitStatus, Goto, Saga!Begin, Saga!Forward, Saga!Complete, Saga!TurnBack, Saga!Back, Saga!GiveUp, Saga!Kill
  <1>3. ASSUME NEW r \in Run, Cancel(r) PROVE SagaStep(q)
    BY <1>3 DEF Cancel, FailStep, Goto, Saga!Begin, Saga!Forward, Saga!Complete, Saga!TurnBack, Saga!Back, Saga!GiveUp, Saga!Kill
  <1>4. ASSUME NEW r \in Run, TimeOut(r) PROVE SagaStep(q)
    BY <1>4 DEF TimeOut, Goto, Saga!Begin, Saga!Forward, Saga!Complete, Saga!TurnBack, Saga!Back, Saga!GiveUp, Saga!Kill
  <1>5. ASSUME NEW r \in Run, Begin(r) PROVE SagaStep(q)
    BY <1>5 DEF Begin, Saga!Begin, Saga!Forward, Saga!Complete, Saga!TurnBack, Saga!Back, Saga!GiveUp, Saga!Kill
  <1>6. ASSUME NEW r \in Run, Apply(r) PROVE SagaStep(q)
    BY <1>6 DEF Apply, Effect, Saga!Begin, Saga!Forward, Saga!Complete, Saga!TurnBack, Saga!Back, Saga!GiveUp, Saga!Kill
  <1>7. ASSUME NEW r \in Run, Succeed(r) PROVE SagaStep(q)
    BY <1>7 DEF Succeed, Goto, Saga!Begin, Saga!Forward, Saga!Complete, Saga!TurnBack, Saga!Back, Saga!GiveUp, Saga!Kill
  <1>8. ASSUME NEW r \in Run, AttemptFails(r) PROVE SagaStep(q)
    BY <1>8 DEF AttemptFails, Saga!Begin, Saga!Forward, Saga!Complete, Saga!TurnBack, Saga!Back, Saga!GiveUp, Saga!Kill
  <1>9. ASSUME NEW r \in Run, StepFails(r) PROVE SagaStep(q)
    BY <1>9 DEF StepFails, FailStep, Goto, Saga!Begin, Saga!Forward, Saga!Complete, Saga!TurnBack, Saga!Back, Saga!GiveUp, Saga!Kill
  <1>10. ASSUME NEW r \in Run, GhostActs(r) PROVE SagaStep(q)
    BY <1>10 DEF GhostActs, Saga!Begin, Saga!Forward, Saga!Complete, Saga!TurnBack, Saga!Back, Saga!GiveUp, Saga!Kill
  <1>11. ASSUME NEW r \in Run, GhostStops(r) PROVE SagaStep(q)
    BY <1>11 DEF GhostStops, Saga!Begin, Saga!Forward, Saga!Complete, Saga!TurnBack, Saga!Back, Saga!GiveUp, Saga!Kill
  <1>12. ASSUME NEW r \in Run, DeleteXR(r) PROVE SagaStep(q)
    BY <1>12 DEF DeleteXR, NextUndo, Goto, Saga!Begin, Saga!Forward, Saga!Complete, Saga!TurnBack, Saga!Back, Saga!GiveUp, Saga!Kill
  <1>13. ASSUME NEW r \in Run, CleanupFails(r) PROVE SagaStep(q)
    BY <1>13 DEF CleanupFails, NextUndo, Goto, Saga!Begin, Saga!Forward, Saga!Complete, Saga!TurnBack, Saga!Back, Saga!GiveUp, Saga!Kill
  <1>14. ASSUME NEW r \in Run, SkipMigrations(r) PROVE SagaStep(q)
    BY <1>14 DEF SkipMigrations, NextUndo, Goto, Saga!Begin, Saga!Forward, Saga!Complete, Saga!TurnBack, Saga!Back, Saga!GiveUp, Saga!Kill
  <1>15. ASSUME NEW r \in Run, Notify(r) PROVE SagaStep(q)
    BY <1>15 DEF Notify, Goto, Saga!Begin, Saga!Forward, Saga!Complete, Saga!TurnBack, Saga!Back, Saga!GiveUp, Saga!Kill
  <1>16. CASE Services \/ UNCHANGED vars
    BY <1>16, <1>0 DEF Services, Reconcile, TornDown, ArgoEnds, NatsFlips, vars
  <1> QED
    BY <1>1, <1>2, <1>3, <1>4, <1>5, <1>6, <1>7, <1>8, <1>9, <1>10, <1>11, <1>12, <1>13, <1>14, <1>15, <1>16 DEF Next, RunStep

\* Every run is a saga: forward step by step, turning back once, undoing in
\* order, unless it is killed.
THEOREM Refinement == Spec => IsSaga
  <1>1. Init => \A r \in Run : Saga(r)!Init
    BY DEF Init, Saga!Init, SagaPhase, SagaDone
  <1>2. RunInv /\ [Next]_vars => [\A r \in Run : Saga(r)!Next \/ UNCHANGED Saga(r)!vars]_vars
    BY SagaSteps DEF SagaStep
  <1> QED
    BY <1>1, <1>2, RunInvariance, PTL DEF Spec, IsSaga

-----------------------------------------------------------------------------
(* The only run of its tenant.                                             *)

Single == \A q, r \in Run : q = r

\* The first n steps have left behind what they are for.
Provisioned(n) ==
    \A i \in 1..4 : i <= n =>
        StepName[i] \in Standing /\ (StepName[i] \in XR => StepName[i] \in ready)

\* A run on its way forward stands on the steps it has completed, an attempt
\* is clean when it is scheduled, and a callback that says "Succeeded" is true.
ForwardInv ==
    \A r \in Run :
        /\ pc[r] \in {"status", "step", "succeeded"} => Provisioned(completed[r])
        /\ pc[r] \in {"none", "status"} => att[r] = "scheduled" /\ inbox[r] = "none"
        /\ pc[r] = "step" /\ inbox[r] = "Succeeded" => StepName[step[r]] \in exists

Created(r)  == <<r, "tenant.created">> \in events
Refused(r)  == <<r, "tenant.creation-failed">> \in events

\* tenant.created precedes the end of the last step, tenant.creation-failed
\* is sent in the last step of a run that fails.
EventInv ==
    \A r \in Run :
        /\ pc[r] = "step" /\ step[r] = 5 /\ att[r] = "applied" => Created(r)
        /\ completed[r] = 5 => Created(r)
        /\ Refused(r) => pc[r] = "failed"

\* A cleanup has undone the steps above its index, but for what it kept; the
\* Vault key it can only keep.
UndoInv ==
    \A r \in Run : pc[r] \in {"cleanup", "notify", "failed"} =>
        /\ undo[r] < 1 /\ completed[r] >= 1 =>
              "namespace" \notin Standing \/ "namespace" \in kept[r]
        /\ undo[r] < 2 /\ completed[r] >= 2 =>
              "database" \notin Standing \/ "database" \in kept[r]
        /\ undo[r] < 3 /\ completed[r] >= 3 => "vault-key" \in kept[r]

\* Under the default policy an abandoned publication finds the tenant whole:
\* cleanup does not get past the Vault key.
PublishInv ==
    \A r \in Run : ghost[r] = 5 /\ ~GivesUp =>
        /\ Provisioned(4)
        /\ pc[r] \in {"cleanup", "timedout"}
        /\ pc[r] = "cleanup" => undo[r] >= 3

\* What is ready or terminating is there, and nobody has asked for the end of
\* anything before the run turns back.
ClusterInv ==
    /\ ready \subseteq exists /\ deleting \subseteq exists
    /\ \A r \in Run : pc[r] \in {"none", "status", "step", "succeeded"} => deleting = {}

SingleInv ==
    /\ RunInv
    /\ ClusterInv
    /\ ForwardInv
    /\ EventInv
    /\ UndoInv
    /\ DatabaseGoesFirst
    /\ PublishInv

\* No run has begun, nothing exists.
LEMMA SingleInit == Init => SingleInv
  <1> SUFFICES ASSUME Init PROVE SingleInv
    OBVIOUS
  <1>1. RunInv
    BY RunInit
  <1> QED
    BY <1>1 DEF Init, SingleInv, ClusterInv, ForwardInv, EventInv, Created, Refused, UndoInv, DatabaseGoesFirst, PublishInv

\* What becomes of the events of a run.
LEMMA EventFacts ==
    ASSUME NEW r \in Run
    PROVE  /\ UNCHANGED events => (Created(r)' <=> Created(r)) /\ (Refused(r)' <=> Refused(r))
           /\ events' = events \cup {<<r, "tenant.created">>} =>
                 Created(r)' /\ (Refused(r)' <=> Refused(r))
           /\ events' = events \cup {<<r, "tenant.creation-failed">>} =>
                 Refused(r)' /\ (Created(r)' <=> Created(r))
  BY DEF Created, Refused

\* Every step keeps the invariant when there is only one run.
LEMMA SingleStep == Single /\ SingleInv /\ [Next]_vars => SingleInv'
  <1> SUFFICES ASSUME Single, SingleInv, [Next]_vars PROVE SingleInv'
    OBVIOUS
  <1>0. RunInv /\ RunInv'
    BY RunStepInv DEF SingleInv
  <1> USE StepNames DEF Single, SingleInv, RunInv, TypeOK, PositionInv, GhostInv, Provisioned,
      GivesUp, Standing, cluster, env, workflow, attempt
  <1>1. ASSUME NEW r \in Run, Start(r) PROVE SingleInv'
    <2>1. ClusterInv'
      BY <1>0, <1>1 DEF Start, Goto, ClusterInv
    <2>2. ForwardInv'
      BY <1>0, <1>1 DEF Start, Goto, ForwardInv
    <2>3. EventInv'
      BY <1>0, <1>1, EventFacts DEF Start, Goto, EventInv
    <2>4. UndoInv'
      BY <1>0, <1>1 DEF Start, Goto, UndoInv
    <2>5. DatabaseGoesFirst'
      BY <1>0, <1>1 DEF Start, Goto, DatabaseGoesFirst, ForwardInv, UndoInv
    <2>6. PublishInv'
      BY <1>0, <1>1 DEF Start, Goto, PublishInv, ForwardInv
    <2> QED
      BY <1>0, <2>1, <2>2, <2>3, <2>4, <2>5, <2>6
  <1>2. ASSUME NEW r \in Run, EmitStatus(r) PROVE SingleInv'
    <2>1. ClusterInv'
      BY <1>0, <1>2 DEF EmitStatus, Goto, ClusterInv
    <2>2. ForwardInv'
      BY <1>0, <1>2 DEF EmitStatus, Goto, ForwardInv
    <2>3. EventInv'
      <3>1. UNCHANGED <<events, completed, step, att>> /\ pc[r] = "status"
        BY <1>2 DEF EmitStatus
      <3>2. pc'[r] # "failed" /\ att[r] = "scheduled"
        BY <1>0, <1>2 DEF EmitStatus, Goto, ForwardInv
      <3>3. \A q \in Run : q = r
        OBVIOUS
      <3> QED
        BY <3>1, <3>2, <3>3, EventFacts DEF EventInv
    <2>4. UndoInv'
      BY <1>0, <1>2 DEF EmitStatus, Goto, UndoInv
    <2>5. DatabaseGoesFirst'
      BY <1>0, <1>2 DEF EmitStatus, Goto, DatabaseGoesFirst, ForwardInv, UndoInv
    <2>6. PublishInv'
      BY <1>0, <1>2 DEF EmitStatus, Goto, PublishInv, ForwardInv
    <2> QED
      BY <1>0, <2>1, <2>2, <2>3, <2>4, <2>5, <2>6
  <1>3. ASSUME NEW r \in Run, Cancel(r) PROVE SingleInv'
    <2>1. ClusterInv'
      BY <1>0, <1>3 DEF Cancel, FailStep, Abandon, Goto, ClusterInv
    <2>2. ForwardInv'
      BY <1>0, <1>3 DEF Cancel, FailStep, Abandon, Goto, ForwardInv
    <2>3. EventInv'
      BY <1>0, <1>3, EventFacts DEF Cancel, FailStep, Abandon, Goto, EventInv
    <2>4. UndoInv'
      BY <1>0, <1>3 DEF Cancel, FailStep, Abandon, Goto, UndoInv
    <2>5. DatabaseGoesFirst'
      BY <1>0, <1>3 DEF Cancel, FailStep, Abandon, Goto, DatabaseGoesFirst, ForwardInv, UndoInv
    <2>6. PublishInv'
      BY <1>0, <1>3 DEF Cancel, FailStep, Abandon, Goto, PublishInv, ForwardInv
    <2> QED
      BY <1>0, <2>1, <2>2, <2>3, <2>4, <2>5, <2>6
  <1>4. ASSUME NEW r \in Run, TimeOut(r) PROVE SingleInv'
    <2>1. ClusterInv'
      BY <1>0, <1>4 DEF TimeOut, Abandon, Goto, ClusterInv
    <2>2. ForwardInv'
      BY <1>0, <1>4 DEF TimeOut, Abandon, Goto, ForwardInv
    <2>3. EventInv'
      BY <1>0, <1>4, EventFacts DEF TimeOut, Abandon, Goto, EventInv
    <2>4. UndoInv'
      BY <1>0, <1>4 DEF TimeOut, Abandon, Goto, UndoInv
    <2>5. DatabaseGoesFirst'
      BY <1>0, <1>4 DEF TimeOut, Abandon, Goto, DatabaseGoesFirst, ForwardInv, UndoInv
    <2>6. PublishInv'
      BY <1>0, <1>4 DEF TimeOut, Abandon, Goto, PublishInv, ForwardInv
    <2> QED
      BY <1>0, <2>1, <2>2, <2>3, <2>4, <2>5, <2>6
  <1>5. ASSUME NEW r \in Run, Begin(r) PROVE SingleInv'
    <2>1. ClusterInv'
      BY <1>0, <1>5 DEF Begin, ClusterInv
    <2>2. ForwardInv'
      BY <1>0, <1>5 DEF Begin, ForwardInv
    <2>3. EventInv'
      BY <1>0, <1>5, EventFacts DEF Begin, EventInv
    <2>4. UndoInv'
      BY <1>0, <1>5 DEF Begin, UndoInv
    <2>5. DatabaseGoesFirst'
      BY <1>0, <1>5 DEF Begin, DatabaseGoesFirst, ForwardInv, UndoInv
    <2>6. PublishInv'
      BY <1>0, <1>5 DEF Begin, PublishInv, ForwardInv
    <2> QED
      BY <1>0, <2>1, <2>2, <2>3, <2>4, <2>5, <2>6
  <1>6. ASSUME NEW r \in Run, Apply(r) PROVE SingleInv'
    <2>1. ClusterInv'
      BY <1>0, <1>6 DEF Apply, Effect, ClusterInv
    <2>2. ForwardInv'
      BY <1>0, <1>6 DEF Apply, Effect, ForwardInv
    <2>3. EventInv'
      BY <1>0, <1>6, EventFacts DEF Apply, Effect, EventInv
    <2>4. UndoInv'
      BY <1>0, <1>6 DEF Apply, Effect, UndoInv
    <2>5. DatabaseGoesFirst'
      BY <1>0, <1>6 DEF Apply, Effect, DatabaseGoesFirst, ForwardInv, UndoInv
    <2>6. PublishInv'
      BY <1>0, <1>6 DEF Apply, Effect, PublishInv, ForwardInv
    <2> QED
      BY <1>0, <2>1, <2>2, <2>3, <2>4, <2>5, <2>6
  <1>7. ASSUME NEW r \in Run, Succeed(r) PROVE SingleInv'
    <2>1. ClusterInv'
      BY <1>0, <1>7 DEF Succeed, Awaited, Goto, ClusterInv
    <2>2. ForwardInv'
      BY <1>0, <1>7 DEF Succeed, Awaited, Goto, ClusterInv, ForwardInv
    <2>3. EventInv'
      BY <1>0, <1>7, EventFacts DEF Succeed, Awaited, Goto, EventInv
    <2>4. UndoInv'
      BY <1>0, <1>7 DEF Succeed, Awaited, Goto, UndoInv
    <2>5. DatabaseGoesFirst'
      BY <1>0, <1>7 DEF Succeed, Awaited, Goto, DatabaseGoesFirst, ForwardInv, UndoInv
    <2>6. PublishInv'
      BY <1>0, <1>7 DEF Succeed, Awaited, Goto, PublishInv, ForwardInv
    <2> QED
      BY <1>0, <2>1, <2>2, <2>3, <2>4, <2>5, <2>6
  <1>8. ASSUME NEW r \in Run, AttemptFails(r) PROVE SingleInv'
    <2>1. ClusterInv'
      BY <1>0, <1>8 DEF AttemptFails, ClusterInv
    <2>2. ForwardInv'
      BY <1>0, <1>8 DEF AttemptFails, ForwardInv
    <2>3. EventInv'
      BY <1>0, <1>8, EventFacts DEF AttemptFails, EventInv
    <2>4. UndoInv'
      BY <1>0, <1>8 DEF AttemptFails, UndoInv
    <2>5. DatabaseGoesFirst'
      BY <1>0, <1>8 DEF AttemptFails, DatabaseGoesFirst, ForwardInv, UndoInv
    <2>6. PublishInv'
      BY <1>0, <1>8 DEF AttemptFails, PublishInv, ForwardInv
    <2> QED
      BY <1>0, <2>1, <2>2, <2>3, <2>4, <2>5, <2>6
  <1>9. ASSUME NEW r \in Run, StepFails(r) PROVE SingleInv'
    <2>1. ClusterInv'
      BY <1>0, <1>9 DEF StepFails, FailStep, Goto, ClusterInv
    <2>2. ForwardInv'
      BY <1>0, <1>9 DEF StepFails, FailStep, Goto, ForwardInv
    <2>3. EventInv'
      BY <1>0, <1>9, EventFacts DEF StepFails, FailStep, Goto, EventInv
    <2>4. UndoInv'
      BY <1>0, <1>9 DEF StepFails, FailStep, Goto, UndoInv
    <2>5. DatabaseGoesFirst'
      BY <1>0, <1>9 DEF StepFails, FailStep, Goto, DatabaseGoesFirst, ForwardInv, UndoInv
    <2>6. PublishInv'
      BY <1>0, <1>9 DEF StepFails, FailStep, Goto, PublishInv, ForwardInv
    <2> QED
      BY <1>0, <2>1, <2>2, <2>3, <2>4, <2>5, <2>6
  <1>10. ASSUME NEW r \in Run, GhostActs(r) PROVE SingleInv'
    <2>1. ClusterInv'
      BY <1>0, <1>10 DEF GhostActs, Effect, ClusterInv
    <2>2. ForwardInv'
      BY <1>0, <1>10 DEF GhostActs, Effect, ForwardInv
    <2>3. EventInv'
      BY <1>0, <1>10, EventFacts DEF GhostActs, Effect, EventInv
    <2>4. UndoInv'
      BY <1>0, <1>10 DEF GhostActs, Effect, UndoInv
    <2>5. DatabaseGoesFirst'
      BY <1>0, <1>10 DEF GhostActs, Effect, DatabaseGoesFirst, ForwardInv, UndoInv
    <2>6. PublishInv'
      BY <1>0, <1>10 DEF GhostActs, Effect, PublishInv, ForwardInv
    <2> QED
      BY <1>0, <2>1, <2>2, <2>3, <2>4, <2>5, <2>6
  <1>11. ASSUME NEW r \in Run, GhostStops(r) PROVE SingleInv'
    <2>1. ClusterInv'
      BY <1>0, <1>11 DEF GhostStops, ClusterInv
    <2>2. ForwardInv'
      BY <1>0, <1>11 DEF GhostStops, ForwardInv
    <2>3. EventInv'
      BY <1>0, <1>11, EventFacts DEF GhostStops, EventInv
    <2>4. UndoInv'
      BY <1>0, <1>11 DEF GhostStops, UndoInv
    <2>5. DatabaseGoesFirst'
      BY <1>0, <1>11 DEF GhostStops, DatabaseGoesFirst, ForwardInv, UndoInv
    <2>6. PublishInv'
      BY <1>0, <1>11 DEF GhostStops, PublishInv, ForwardInv
    <2> QED
      BY <1>0, <2>1, <2>2, <2>3, <2>4, <2>5, <2>6
  <1>12. ASSUME NEW r \in Run, DeleteXR(r) PROVE SingleInv'
    <2>1. ClusterInv'
      BY <1>0, <1>12 DEF DeleteXR, NextUndo, Goto, ClusterInv
    <2>2. ForwardInv'
      BY <1>0, <1>12 DEF DeleteXR, NextUndo, Goto, ForwardInv
    <2>3. EventInv'
      BY <1>0, <1>12, EventFacts DEF DeleteXR, NextUndo, Goto, EventInv
    <2>4. UndoInv'
      BY <1>0, <1>12 DEF DeleteXR, NextUndo, Goto, UndoInv
    <2>5. DatabaseGoesFirst'
      BY <1>0, <1>12 DEF DeleteXR, NextUndo, Goto, DatabaseGoesFirst, ForwardInv, UndoInv
    <2>6. PublishInv'
      BY <1>0, <1>12 DEF DeleteXR, NextUndo, Goto, PublishInv, ForwardInv
    <2> QED
      BY <1>0, <2>1, <2>2, <2>3, <2>4, <2>5, <2>6
  <1>13. ASSUME NEW r \in Run, CleanupFails(r) PROVE SingleInv'
    <2>1. ClusterInv'
      BY <1>0, <1>13 DEF CleanupFails, NextUndo, Goto, ClusterInv
    <2>2. ForwardInv'
      BY <1>0, <1>13 DEF CleanupFails, NextUndo, Goto, ForwardInv
    <2>3. EventInv'
      BY <1>0, <1>13, EventFacts DEF CleanupFails, NextUndo, Goto, EventInv
    <2>4. UndoInv'
      BY <1>0, <1>13 DEF CleanupFails, NextUndo, Goto, UndoInv
    <2>5. DatabaseGoesFirst'
      BY <1>0, <1>13 DEF CleanupFails, NextUndo, Goto, DatabaseGoesFirst, ForwardInv, UndoInv
    <2>6. PublishInv'
      BY <1>0, <1>13 DEF CleanupFails, NextUndo, Goto, PublishInv, ForwardInv
    <2> QED
      BY <1>0, <2>1, <2>2, <2>3, <2>4, <2>5, <2>6
  <1>14. ASSUME NEW r \in Run, SkipMigrations(r) PROVE SingleInv'
    <2>1. ClusterInv'
      BY <1>0, <1>14 DEF SkipMigrations, NextUndo, Goto, ClusterInv
    <2>2. ForwardInv'
      BY <1>0, <1>14 DEF SkipMigrations, NextUndo, Goto, ForwardInv
    <2>3. EventInv'
      BY <1>0, <1>14, EventFacts DEF SkipMigrations, NextUndo, Goto, EventInv
    <2>4. UndoInv'
      BY <1>0, <1>14 DEF SkipMigrations, NextUndo, Goto, UndoInv
    <2>5. DatabaseGoesFirst'
      BY <1>0, <1>14 DEF SkipMigrations, NextUndo, Goto, DatabaseGoesFirst, ForwardInv, UndoInv
    <2>6. PublishInv'
      BY <1>0, <1>14 DEF SkipMigrations, NextUndo, Goto, PublishInv, ForwardInv
    <2> QED
      BY <1>0, <2>1, <2>2, <2>3, <2>4, <2>5, <2>6
  <1>15. ASSUME NEW r \in Run, Notify(r) PROVE SingleInv'
    <2>1. ClusterInv'
      BY <1>0, <1>15 DEF Notify, Goto, ClusterInv
    <2>2. ForwardInv'
      BY <1>0, <1>15 DEF Notify, Goto, ForwardInv
    <2>3. EventInv'
      BY <1>0, <1>15, EventFacts DEF Notify, Goto, EventInv
    <2>4. UndoInv'
      BY <1>0, <1>15 DEF Notify, Goto, UndoInv
    <2>5. DatabaseGoesFirst'
      BY <1>0, <1>15 DEF Notify, Goto, DatabaseGoesFirst, ForwardInv, UndoInv
    <2>6. PublishInv'
      BY <1>0, <1>15 DEF Notify, Goto, PublishInv, ForwardInv
    <2> QED
      BY <1>0, <2>1, <2>2, <2>3, <2>4, <2>5, <2>6
  <1>16. ASSUME NEW x \in XR, Reconcile(x) PROVE SingleInv'
    <2>1. ClusterInv'
      BY <1>0, <1>16 DEF Reconcile, ClusterInv
    <2>2. ForwardInv'
      BY <1>0, <1>16 DEF Reconcile, ForwardInv
    <2>3. EventInv'
      BY <1>0, <1>16, EventFacts DEF Reconcile, EventInv
    <2>4. UndoInv'
      BY <1>0, <1>16 DEF Reconcile, UndoInv
    <2>5. DatabaseGoesFirst'
      BY <1>0, <1>16 DEF Reconcile, DatabaseGoesFirst, ForwardInv, UndoInv
    <2>6. PublishInv'
      BY <1>0, <1>16 DEF Reconcile, PublishInv, ForwardInv
    <2> QED
      BY <1>0, <2>1, <2>2, <2>3, <2>4, <2>5, <2>6
  <1>17. ASSUME NEW s \in ArgoStep, NEW phase \in {"Succeeded", "Failed"}, ArgoEnds(s, phase)
        PROVE SingleInv'
    <2>1. ClusterInv'
      BY <1>0, <1>17 DEF ArgoEnds, Listening, ClusterInv
    <2>2. ForwardInv'
      BY <1>0, <1>17 DEF ArgoEnds, Listening, ForwardInv
    <2>3. EventInv'
      BY <1>0, <1>17, EventFacts DEF ArgoEnds, Listening, EventInv
    <2>4. UndoInv'
      BY <1>0, <1>17 DEF ArgoEnds, Listening, UndoInv
    <2>5. DatabaseGoesFirst'
      BY <1>0, <1>17 DEF ArgoEnds, Listening, DatabaseGoesFirst, ForwardInv, UndoInv
    <2>6. PublishInv'
      BY <1>0, <1>17 DEF ArgoEnds, Listening, PublishInv, ForwardInv
    <2> QED
      BY <1>0, <2>1, <2>2, <2>3, <2>4, <2>5, <2>6
  <1>18. ASSUME NEW x \in XR, TornDown(x) PROVE SingleInv'
    <2>1. ClusterInv'
      BY <1>0, <1>18 DEF TornDown, ClusterInv
    <2>2. ForwardInv'
      BY <1>0, <1>18 DEF TornDown, ClusterInv, ForwardInv
    <2>3. EventInv'
      BY <1>0, <1>18, EventFacts DEF TornDown, EventInv
    <2>4. UndoInv'
      BY <1>0, <1>18 DEF TornDown, UndoInv
    <2>5. DatabaseGoesFirst'
      BY <1>0, <1>18 DEF TornDown, DatabaseGoesFirst, ForwardInv, UndoInv
    <2>6. PublishInv'
      BY <1>0, <1>18 DEF TornDown, PublishInv, ForwardInv
    <2> QED
      BY <1>0, <2>1, <2>2, <2>3, <2>4, <2>5, <2>6
  <1>19. CASE NatsFlips
    <2>1. ClusterInv'
      BY <1>0, <1>19 DEF NatsFlips, ClusterInv
    <2>2. ForwardInv'
      BY <1>0, <1>19 DEF NatsFlips, ForwardInv
    <2>3. EventInv'
      BY <1>0, <1>19, EventFacts DEF NatsFlips, EventInv
    <2>4. UndoInv'
      BY <1>0, <1>19 DEF NatsFlips, UndoInv
    <2>5. DatabaseGoesFirst'
      BY <1>0, <1>19 DEF NatsFlips, DatabaseGoesFirst, ForwardInv, UndoInv
    <2>6. PublishInv'
      BY <1>0, <1>19 DEF NatsFlips, PublishInv, ForwardInv
    <2> QED
      BY <1>0, <2>1, <2>2, <2>3, <2>4, <2>5, <2>6
  <1>20. CASE UNCHANGED vars
    <2>1. ClusterInv'
      BY <1>0, <1>20 DEF vars, ClusterInv
    <2>2. ForwardInv'
      BY <1>0, <1>20 DEF vars, ForwardInv
    <2>3. EventInv'
      BY <1>0, <1>20, EventFacts DEF vars, EventInv
    <2>4. UndoInv'
      BY <1>0, <1>20 DEF vars, UndoInv
    <2>5. DatabaseGoesFirst'
      BY <1>0, <1>20 DEF vars, DatabaseGoesFirst, ForwardInv, UndoInv
    <2>6. PublishInv'
      BY <1>0, <1>20 DEF vars, PublishInv, ForwardInv
    <2> QED
      BY <1>0, <2>1, <2>2, <2>3, <2>4, <2>5, <2>6
  <1> QED
    BY <1>1, <1>2, <1>3, <1>4, <1>5, <1>6, <1>7, <1>8, <1>9, <1>10, <1>11, <1>12, <1>13, <1>14, <1>15, <1>16, <1>17, <1>18, <1>19, <1>20 DEF Next, RunStep, Services

\* The first four steps are all there is of a tenant.
LEMMA Whole == Provisioned(4) => XR \subseteq ready /\ Resource \subseteq Standing
  <1> SUFFICES ASSUME Provisioned(4) PROVE XR \subseteq ready /\ Resource \subseteq Standing
    OBVIOUS
  <1>1. \A i \in 1..4 : StepName[i] \in Standing /\ (StepName[i] \in XR => StepName[i] \in ready)
    BY DEF Provisioned
  <1>2. 1 \in 1..4 /\ 2 \in 1..4 /\ 3 \in 1..4 /\ 4 \in 1..4
    OBVIOUS
  <1>3. /\ "namespace" \in Standing /\ "namespace" \in ready
        /\ "database" \in Standing /\ "database" \in ready
        /\ "vault-key" \in Standing /\ "migrations" \in Standing
    BY <1>1, <1>2, StepNames DEF XR
  <1> QED
    BY <1>3 DEF XR, ArgoStep, Resource

\* A tenant onboarded by one run at a time: the invariant holds throughout.
THEOREM SingleInvariance == Single => (Spec => []SingleInv)
  <1> SUFFICES ASSUME Single PROVE Spec => []SingleInv
    OBVIOUS
  <1>1. SingleInv /\ [Next]_vars => SingleInv'
    BY SingleStep
  <1> QED
    BY <1>1, SingleInit, PTL DEF Spec

\* A run that returned nil has left the whole tenant behind, and standing.
THEOREM SuccessWhole == Single => (Spec => []SuccessIsComplete)
  <1> SUFFICES ASSUME Single PROVE Spec => []SuccessIsComplete
    OBVIOUS
  <1>1. ASSUME SingleInv, NEW r \in Run, pc[r] = "succeeded"
        PROVE  /\ Resource \subseteq Standing /\ XR \subseteq ready
               /\ <<r, "tenant.created">> \in events
               /\ <<r, "tenant.creation-failed">> \notin events
    <2>1. completed[r] = 5 /\ Provisioned(completed[r])
      BY <1>1 DEF SingleInv, RunInv, PositionInv, ForwardInv
    <2>2. Provisioned(4)
      BY <2>1 DEF Provisioned
    <2>3. Created(r) /\ ~Refused(r)
      BY <1>1, <2>1 DEF SingleInv, EventInv
    <2> QED
      BY <2>2, <2>3, Whole DEF Created, Refused
  <1>2. SingleInv => SuccessIsComplete
    BY <1>1 DEF SuccessIsComplete
  <1> QED
    BY <1>2, SingleInvariance, PTL

\* The end of the database is asked for before that of the namespace it lives
\* in, whichever of the two Crossplane ends first.
THEOREM ReverseOrder == Single => (Spec => []DatabaseGoesFirst)
  <1> SUFFICES ASSUME Single PROVE Spec => []DatabaseGoesFirst
    OBVIOUS
  <1>1. SingleInv => DatabaseGoesFirst
    BY DEF SingleInv
  <1> QED
    BY <1>1, SingleInvariance, PTL

\* tenant.creation-failed follows every delete of the cleanup.
THEOREM FailureLast == Single => (Spec => []FailureEventIsLast)
  <1> SUFFICES ASSUME Single PROVE Spec => []FailureEventIsLast
    OBVIOUS
  <1>1. SingleInv => FailureEventIsLast
    BY StepNames DEF SingleInv, RunInv, TypeOK, PositionInv, EventInv, UndoInv, Refused,
       FailureEventIsLast
  <1> QED
    BY <1>1, SingleInvariance, PTL

\* tenant.created is only published of a tenant that is whole.
THEOREM CreatedIsTrue == Single => (Spec => CreatedMeansProvisioned)
  <1> SUFFICES ASSUME Single PROVE Spec => CreatedMeansProvisioned
    OBVIOUS
  <1> DEFINE Step == \A r \in Run :
        <<r, "tenant.created">> \in events' \ events /\ (GivesUp => pc[r] = "step") =>
            XR \subseteq ready /\ Resource \subseteq Standing
  <1>1. SingleInv /\ [Next]_vars => [Step]_vars
    <2> SUFFICES ASSUME SingleInv, Next,
                        NEW q \in Run, <<q, "tenant.created">> \in events' \ events,
                        GivesUp => pc[q] = "step"
                 PROVE  XR \subseteq ready /\ Resource \subseteq Standing
      OBVIOUS
    <2>1. CASE \E r \in Run : Apply(r)
      BY Whole, <2>1 DEF Apply, Effect, SingleInv, RunInv, TypeOK, PositionInv, ForwardInv,
         Provisioned, Single
    <2>2. CASE \E r \in Run : GhostActs(r)
      BY Whole, <2>2 DEF GhostActs, Effect, SingleInv, RunInv, TypeOK, GhostInv, PublishInv,
         ForwardInv, PositionInv, Provisioned, Single
    <2>3. CASE Services
      BY <2>3 DEF Services, Reconcile, TornDown, ArgoEnds, NatsFlips
    <2>4. CASE \E r \in Run : \/ Start(r) \/ EmitStatus(r) \/ Cancel(r) \/ TimeOut(r)
                              \/ Begin(r) \/ Succeed(r) \/ AttemptFails(r) \/ StepFails(r)
                              \/ GhostStops(r) \/ DeleteXR(r) \/ CleanupFails(r)
                              \/ SkipMigrations(r) \/ Notify(r)
      BY <2>4 DEF Start, EmitStatus, Cancel, TimeOut, Begin, Succeed, AttemptFails, StepFails,
         GhostStops, DeleteXR, CleanupFails, SkipMigrations, Notify
    <2> QED
      BY <2>1, <2>2, <2>3, <2>4 DEF Next, RunStep
  <1> QED
    BY <1>1, SingleInvariance, PTL DEF Spec, CreatedMeansProvisioned
-----------------------------------------------------------------------------
(* tenants.create in front of the workflow.                                *)

\* Every step is one of OnboardTenant or leaves it alone: what is proved of
\* Spec holds of the composition.
THEOREM CreateImplementsOnboarding == CreateSpec => Spec
  <1>1. CreateInit => Init
    BY DEF CreateInit
  <1>2. [CreateNext]_createVars => [Next]_vars
    <2> SUFFICES ASSUME [CreateNext]_createVars PROVE [Next]_vars
      OBVIOUS
    <2>1. ASSUME NEW q \in Request, Create(q) PROVE [Next]_vars
      BY <2>1 DEF Create, create, startOnboarding, CallFails, Next
    <2>2. CASE Services \/ \E r \in Run : RunStep(r)
      BY <2>2 DEF Next
    <2>3. CASE UNCHANGED createVars
      BY <2>3 DEF createVars
    <2> QED
      BY <2>1, <2>2, <2>3 DEF CreateNext
  <1> QED
    BY <1>1, <1>2, PTL DEF CreateSpec, Spec

\* A run begins by Start only.
LEMMA OnlyStartStarts ==
    ASSUME TypeOK, Services \/ \E r \in Run : RunStep(r), NEW s \in Run, pc[s] = "none"
    PROVE  pc'[s] = "none"
  <1>1. CASE Services
    BY <1>1 DEF Services, Reconcile, TornDown, ArgoEnds, NatsFlips, workflow
  <1>2. ASSUME NEW r \in Run, RunStep(r) PROVE pc'[s] = "none"
    <2>1. CASE UNCHANGED pc
      BY <2>1
    <2>2. CASE pc[r] # "none" /\ \E p \in Phase : pc' = [pc EXCEPT ![r] = p]
      BY <2>2 DEF TypeOK
    <2>3. CASE GhostActs(r) \/ GhostStops(r)
      BY <2>3 DEF GhostActs, GhostStops, workflow
    <2>4. CASE Begin(r) \/ Apply(r) \/ AttemptFails(r)
      BY <2>4 DEF Begin, Apply, AttemptFails, workflow
    <2>5. CASE EmitStatus(r) \/ TimeOut(r) \/ Succeed(r) \/ Notify(r)
      BY <2>2, <2>5 DEF EmitStatus, TimeOut, Succeed, Notify, Goto, Phase
    <2>6. CASE Cancel(r) \/ StepFails(r)
      BY <2>2, <2>6 DEF Cancel, StepFails, FailStep, Goto, Phase
    <2>7. CASE DeleteXR(r) \/ CleanupFails(r) \/ SkipMigrations(r)
      BY <2>1, <2>2, <2>7 DEF DeleteXR, CleanupFails, SkipMigrations, NextUndo, Goto, Phase
    <2> QED
      BY <1>2, <2>3, <2>4, <2>5, <2>6, <2>7 DEF RunStep
  <1> QED
    BY <1>1, <1>2

CreateInv == TypeOK /\ CreateTypeOK /\ OnboardedOnce

LEMMA CreateStart == CreateInit => CreateTypeOK /\ OnboardedOnce
  <1> SUFFICES ASSUME CreateInit PROVE CreateTypeOK /\ OnboardedOnce
    OBVIOUS
  <1>1. CreateTypeOK
    BY DEF CreateInit, CreateTypeOK
  <1>2. OnboardedOnce
    BY DEF CreateInit, OnboardedOnce, Init
  <1> QED
    BY <1>1, <1>2

LEMMA CreateStep ==
    ASSUME CreateInv, [CreateNext]_createVars PROVE (CreateTypeOK /\ OnboardedOnce)'
  <1> USE DEF CreateInv, CreateTypeOK, OnboardedOnce, Becomes
  <1>2. ASSUME NEW q \in Request, create(q) PROVE (CreateTypeOK /\ OnboardedOnce)'
    BY <1>2 DEF create, vars, workflow
  <1>3. ASSUME NEW q \in Request, startOnboarding(q) PROVE (CreateTypeOK /\ OnboardedOnce)'
    <2>1. PICK r \in Run : Start(r)
      BY <1>3 DEF startOnboarding
    <2>2. CreateTypeOK'
      BY <1>3 DEF startOnboarding
    <2>3. OnboardedOnce'
      BY <1>3, <2>1 DEF startOnboarding, Start, Goto
    <2> QED
      BY <2>2, <2>3
  <1>4. ASSUME NEW q \in Request, CallFails(q) PROVE (CreateTypeOK /\ OnboardedOnce)'
    BY <1>4 DEF CallFails, vars, workflow
  <1>5. CASE (Services \/ \E r \in Run : RunStep(r)) /\ UNCHANGED <<row, request>>
    BY <1>5, OnlyStartStarts
  <1>6. CASE UNCHANGED createVars
    BY <1>6 DEF createVars, vars, workflow
  <1> QED
    BY <1>2, <1>3, <1>4, <1>5, <1>6 DEF CreateNext, Create

\* createTenant, tenants.create: however many requests name a slug, one of
\* them at most starts its onboarding, the one whose row it is.
THEOREM SlugIsOnboardedOnce == CreateSpec => []OnboardedOnce
  <1>1. TypeOK /\ CreateTypeOK /\ OnboardedOnce /\ [CreateNext]_createVars
            => (CreateTypeOK /\ OnboardedOnce)'
    BY CreateStep DEF CreateInv
  <1> QED
    BY <1>1, CreateStart, CreateImplementsOnboarding, TypeCorrect, PTL DEF CreateSpec
-----------------------------------------------------------------------------
(* Any number of runs, none of which turns back.                           *)

\* The runs of the bootstrap Job: nobody cancels them and no activity gives up.
Unstopped == ~Cancels /\ Policies = {"unlimited"}

ForwardOnly == \A r \in Run : pc[r] \notin {"cleanup", "notify", "failed"} /\ ~Refused(r)

PublishedInv ==
    \A r \in Run :
        /\ pc[r] = "step" /\ step[r] = 5 /\ att[r] = "applied" => Created(r)
        /\ completed[r] = 5 => Created(r)

ManyInv == RunInv /\ ready \subseteq exists /\ deleting = {} /\ ForwardInv /\ PublishedInv /\ ForwardOnly

LEMMA ManyInit == Init => ManyInv
  <1> SUFFICES ASSUME Init PROVE ManyInv
    OBVIOUS
  <1>1. RunInv
    BY RunInit
  <1> QED
    BY <1>1 DEF Init, ManyInv, ForwardInv, PublishedInv, ForwardOnly, Created, Refused

\* What is there stays there, and what was published was published.
Grows == Standing \subseteq Standing' /\ ready \subseteq ready' /\ events \subseteq events'

\* The steps that remain to a run that does not turn back.
LEMMA StepsForward ==
    ASSUME Unstopped, ManyInv, Next
    PROVE  \/ Services
           \/ \E r \in Run : \/ Start(r) \/ EmitStatus(r) \/ TimeOut(r)
                             \/ Begin(r) \/ Apply(r) \/ Succeed(r) \/ AttemptFails(r)
                             \/ GhostActs(r) \/ GhostStops(r)
  <1>1. ~Cancels /\ ~GivesUp
    BY DEF Unstopped, ManyInv, RunInv, TypeOK, GivesUp
  <1>2. \A r \in Run : ~Cancel(r) /\ ~StepFails(r)
    BY <1>1 DEF Cancel, StepFails
  <1>3. \A r \in Run : ~DeleteXR(r) /\ ~CleanupFails(r) /\ ~SkipMigrations(r) /\ ~Notify(r)
    BY DEF ManyInv, ForwardOnly, DeleteXR, CleanupFails, SkipMigrations, Notify
  <1> QED
    BY <1>2, <1>3 DEF Next, RunStep

LEMMA ProvisionedGrows ==
    ASSUME Grows, NEW n \in 0..5, Provisioned(n) PROVE Provisioned(n)'
  BY DEF Grows, Provisioned

\* Whatever the other runs do meanwhile, a run's steps stay done.
LEMMA ManyStep == Unstopped /\ ManyInv /\ [Next]_vars => ManyInv'
  <1> SUFFICES ASSUME Unstopped, ManyInv, [Next]_vars PROVE ManyInv'
    OBVIOUS
  <1>0. RunInv'
    BY RunStepInv DEF ManyInv
  <1> USE StepNames DEF ManyInv, RunInv, TypeOK, PositionInv, Standing, cluster, env, workflow, attempt
  <1> DEFINE Kept == (ready \subseteq exists)' /\ deleting' = {} /\ ForwardInv' /\ PublishedInv' /\ ForwardOnly'
  <1>1. ASSUME NEW r \in Run,
               Start(r) \/ EmitStatus(r) \/ TimeOut(r) \/ Begin(r) \/ AttemptFails(r) \/ GhostStops(r)
        PROVE  Kept
    <2>1. UNCHANGED <<exists, ready, deleting, events, completed, step>>
      BY <1>1 DEF Start, EmitStatus, TimeOut, Begin, AttemptFails, GhostStops
    <2>2. \A n \in 0..5 : Provisioned(n) => Provisioned(n)'
      BY <2>1, ProvisionedGrows DEF Grows
    <2> USE <2>1, <2>2 DEF ForwardInv, PublishedInv, ForwardOnly, Created, Refused
    <2>3. CASE Start(r)
      <3>1. Provisioned(0)'
        BY DEF Provisioned
      <3> QED
        BY <2>3, <3>1 DEF Start, Goto
    <2>4. CASE EmitStatus(r)
      BY <2>4 DEF EmitStatus, Goto
    <2>5. CASE TimeOut(r)
      BY <2>5 DEF TimeOut, Goto
    <2>6. CASE Begin(r)
      BY <2>6 DEF Begin
    <2>7. CASE AttemptFails(r)
      BY <2>7 DEF AttemptFails
    <2>8. CASE GhostStops(r)
      BY <2>8 DEF GhostStops
    <2> QED
      BY <1>1, <2>3, <2>4, <2>5, <2>6, <2>7, <2>8
  <1>2. ASSUME NEW r \in Run, Apply(r) PROVE Kept
    <2>1. Grows /\ (ready \subseteq exists)' /\ deleting' = {}
      BY <1>2 DEF Apply, Effect, Grows
    <2>2. \A n \in 0..5 : Provisioned(n) => Provisioned(n)'
      BY <2>1, ProvisionedGrows
    <2>3. ForwardInv'
      BY <1>2, <2>1, <2>2 DEF Apply, ForwardInv, Grows
    <2>4. PublishedInv' /\ ForwardOnly'
      BY <1>2 DEF Apply, Effect, PublishedInv, ForwardOnly, Created, Refused
    <2> QED
      BY <2>1, <2>3, <2>4
  <1>3. ASSUME NEW r \in Run, Succeed(r) PROVE Kept
    <2>1. UNCHANGED <<exists, ready, deleting, events>>
      BY <1>3 DEF Succeed
    <2>2. Provisioned(step[r])
      BY <1>3 DEF Succeed, Awaited, ForwardInv, Provisioned
    <2>3. \A n \in 0..5 : Provisioned(n) => Provisioned(n)'
      BY <2>1, ProvisionedGrows DEF Grows
    <2>4. ForwardInv'
      BY <1>3, <2>1, <2>2, <2>3 DEF Succeed, Goto, ForwardInv
    <2>5. PublishedInv' /\ ForwardOnly'
      BY <1>3 DEF Succeed, Goto, PublishedInv, ForwardOnly, Created, Refused
    <2> QED
      BY <2>1, <2>4, <2>5
  <1>4. ASSUME NEW r \in Run, GhostActs(r) PROVE Kept
    <2>1. Grows /\ (ready \subseteq exists)' /\ deleting' = {}
      BY <1>4 DEF GhostActs, Effect, Grows
    <2>2. \A n \in 0..5 : Provisioned(n) => Provisioned(n)'
      BY <2>1, ProvisionedGrows
    <2>3. ForwardInv'
      BY <1>4, <2>1, <2>2 DEF GhostActs, ForwardInv, Grows
    <2>4. PublishedInv' /\ ForwardOnly'
      BY <1>4 DEF GhostActs, Effect, PublishedInv, ForwardOnly, Created, Refused
    <2> QED
      BY <2>1, <2>3, <2>4
  <1>5. CASE Services
    <2>1. Grows /\ (ready \subseteq exists)' /\ deleting' = {}
      BY <1>5 DEF Services, Reconcile, TornDown, ArgoEnds, NatsFlips, Grows
    <2>2. \A n \in 0..5 : Provisioned(n) => Provisioned(n)'
      BY <2>1, ProvisionedGrows
    <2>3. UNCHANGED <<events, pc, step, completed, att>>
      BY <1>5 DEF Services, Reconcile, TornDown, ArgoEnds, NatsFlips
    <2>4. ForwardInv'
      <3>1. CASE UNCHANGED inbox
        BY <3>1, <2>1, <2>2, <2>3 DEF ForwardInv, Grows
      <3>2. ASSUME NEW s \in ArgoStep, NEW phase \in {"Succeeded", "Failed"}, ArgoEnds(s, phase)
            PROVE  ForwardInv'
        BY <3>2, <2>1, <2>2, <2>3 DEF ArgoEnds, Listening, ForwardInv, Grows
      <3> QED
        BY <1>5, <3>1, <3>2 DEF Services, Reconcile, TornDown, NatsFlips
    <2>5. PublishedInv' /\ ForwardOnly'
      BY <2>3 DEF PublishedInv, ForwardOnly, Created, Refused
    <2> QED
      BY <1>0, <2>1, <2>4, <2>5
  <1>6. CASE UNCHANGED vars
    BY <1>0, <1>6 DEF vars, ForwardInv, Provisioned, PublishedInv, ForwardOnly, Created, Refused
  <1> QED
    BY <1>0, <1>1, <1>2, <1>3, <1>4, <1>5, <1>6, StepsForward

\* A run that returned nil has left the whole tenant behind, however many runs
\* were started for the tenant before and beside it: nothing takes a resource
\* away as long as no run turns back.
THEOREM SuccessOfMany == Unstopped => (Spec => []SuccessIsComplete)
  <1> SUFFICES ASSUME Unstopped PROVE Spec => []SuccessIsComplete
    OBVIOUS
  <1>1. ManyInv /\ [Next]_vars => ManyInv'
    BY ManyStep
  <1>2. ASSUME ManyInv, NEW r \in Run, pc[r] = "succeeded"
        PROVE  /\ Resource \subseteq Standing /\ XR \subseteq ready
               /\ <<r, "tenant.created">> \in events
               /\ <<r, "tenant.creation-failed">> \notin events
    <2>1. completed[r] = 5 /\ Provisioned(completed[r])
      BY <1>2 DEF ManyInv, RunInv, PositionInv, ForwardInv
    <2>2. Provisioned(4)
      BY <2>1 DEF Provisioned
    <2>3. Created(r) /\ ~Refused(r)
      BY <1>2, <2>1 DEF ManyInv, PublishedInv, ForwardOnly
    <2> QED
      BY <2>2, <2>3, Whole DEF Created, Refused
  <1>3. ManyInv => SuccessIsComplete
    BY <1>2 DEF SuccessIsComplete
  <1> QED
    BY <1>1, <1>3, ManyInit, PTL DEF Spec

-----------------------------------------------------------------------------
(* The bootstrap Job.                                                      *)

\* Every step is one of OnboardTenant or leaves it alone.
THEOREM BootstrapImplementsOnboarding == BootstrapSpec => Spec
  <1>1. BootstrapInit => Init
    BY DEF BootstrapInit
  <1>2. [BootstrapNext]_allVars => [Next]_vars
    <2> SUFFICES ASSUME [BootstrapNext]_allVars PROVE [Next]_vars
      OBVIOUS
    <2>1. CASE Submit
      BY <2>1 DEF Submit, Next
    <2>2. CASE UNCHANGED vars
      BY <2>2
    <2>3. CASE Services \/ \E r \in Run : RunStep(r)
      BY <2>3 DEF Next
    <2>4. CASE JobNext
      BY <2>1, <2>2, <2>4 DEF JobNext, ReadSecret, CheckExists, WorkflowReturns, SearchAdmin,
         CreateAdmin, WriteRelation, JobFails, Restart
    <2>5. CASE UNCHANGED allVars
      BY <2>2, <2>5 DEF allVars
    <2> QED
      BY <2>3, <2>4, <2>5 DEF BootstrapNext
  <1> QED
    BY <1>1, <1>2, PTL DEF BootstrapSpec, Spec

\* A pod that waits, waits for a run it started.  Between the search for the
\* admin and the end of the pod nobody else creates one: a pod about to create
\* has found none, one about to write the relation has found or created it.
SearchInv ==
    /\ job = "wait" => awaited \in Run
    /\ job = "create" => admins = 0
    /\ job \in {"relate", "done"} => admins = 1

JobTypeOK ==
    /\ job \in JobStep
    /\ awaited \in Run \cup {NoRun}
    /\ pods \in 1..MaxRuns
    /\ admins \in 0..1
    /\ relation \in BOOLEAN

JobInv == JobTypeOK /\ SearchInv /\ OneAdmin

LEMMA JobInit == BootstrapInit => JobInv
  <1> SUFFICES ASSUME BootstrapInit PROVE JobInv
    OBVIOUS
  <1>1. pods \in 1..MaxRuns
    BY BootstrapAssumption DEF BootstrapInit
  <1>2. JobTypeOK
    <2>1. job \in JobStep
      BY DEF BootstrapInit, JobStep
    <2>2. awaited \in Run \cup {NoRun}
      BY Zenon DEF BootstrapInit
    <2>3. admins \in 0..1
      BY DEF BootstrapInit
    <2>4. relation \in BOOLEAN
      BY Zenon DEF BootstrapInit
    <2> QED
      BY <1>1, <2>1, <2>2, <2>3, <2>4 DEF JobTypeOK
  <1>3. SearchInv /\ OneAdmin
    BY DEF BootstrapInit, SearchInv, OneAdmin
  <1> QED
    BY <1>2, <1>3 DEF JobInv

LEMMA JobStepKeeps == JobInv /\ [BootstrapNext]_allVars => JobInv'
  <1> SUFFICES ASSUME JobInv, [BootstrapNext]_allVars PROVE JobInv'
    OBVIOUS
  <1> USE BootstrapAssumption DEF JobInv, JobTypeOK, SearchInv, OneAdmin, JobStep
  <1>1. CASE ReadSecret \/ CheckExists \/ WorkflowReturns
    BY <1>1 DEF ReadSecret, CheckExists, WorkflowReturns
  <1>2. CASE Submit
    BY <1>2 DEF Submit
  <1>3. CASE SearchAdmin
    BY <1>3 DEF SearchAdmin
  <1>4. CASE CreateAdmin
    BY <1>4 DEF CreateAdmin
  <1>5. CASE WriteRelation
    BY <1>5 DEF WriteRelation
  <1>6. CASE JobFails
    BY <1>6 DEF JobFails
  <1>7. CASE Restart
    BY <1>7 DEF Restart
  <1>8. CASE UNCHANGED jobVars
    BY <1>8 DEF jobVars
  <1> QED
    BY <1>1, <1>2, <1>3, <1>4, <1>5, <1>6, <1>7, <1>8 DEF BootstrapNext, JobNext, allVars

LEMMA JobInvariance == BootstrapSpec => []JobInv
  BY JobInit, JobStepKeeps, PTL DEF BootstrapSpec

\* The type invariant of the composition.
THEOREM BootstrapTypes == BootstrapSpec => []BootstrapTypeOK
  <1>1. TypeOK /\ JobInv => BootstrapTypeOK
    BY BootstrapAssumption DEF JobInv, JobTypeOK, BootstrapTypeOK
  <1> QED
    BY <1>1, JobInvariance, BootstrapImplementsOnboarding, TypeCorrect, PTL

\* "Idempotent end-to-end": one admin user and a relation that names it,
\* however many pods the Job takes and wherever each of them ended.
THEOREM AdminIsUnique == BootstrapSpec => []OneAdmin
  <1>1. JobInv => OneAdmin
    BY DEF JobInv
  <1> QED
    BY <1>1, JobInvariance, PTL

\* The runs that the pods start are sagas, and one that is reported complete
\* is: the next pod finds what the run of an earlier one is still building.
THEOREM BootstrapRuns ==
    /\ BootstrapSpec => IsSaga
    /\ Unstopped => (BootstrapSpec => []SuccessIsComplete)
  BY BootstrapImplementsOnboarding, Refinement, SuccessOfMany, PTL

-----------------------------------------------------------------------------
(* The pod that starts the workflow itself.                                *)

\* Nothing of the tenant is there before the first run begins.
Untouched ==
    /\ \A r \in Run : pc[r] = "none"
    /\ exists = {} /\ argo = [s \in ArgoStep |-> 0]

FirstPodInv ==
    pods = 1 =>
        /\ job \in {"secret", "check", "submit"} => Untouched
        /\ job \in {"search", "create", "relate", "done"} =>
              Resource \subseteq Standing /\ XR \subseteq ready

\* Nothing is lost as long as no run turns back.
LEMMA NothingIsLost == ASSUME Unstopped, ManyInv, [Next]_vars PROVE Grows
  <1> USE DEF Grows, ManyInv, Standing, cluster
  <1>1. ASSUME NEW r \in Run, Start(r) \/ EmitStatus(r) \/ TimeOut(r) \/ Begin(r) \/ Succeed(r)
                              \/ AttemptFails(r) \/ GhostStops(r)
        PROVE  Grows
    BY <1>1 DEF Start, EmitStatus, TimeOut, Begin, Succeed, AttemptFails, GhostStops
  <1>2. ASSUME NEW r \in Run, Apply(r) \/ GhostActs(r) PROVE Grows
    BY <1>2 DEF Apply, GhostActs, Effect
  <1>3. CASE Services
    BY <1>3 DEF Services, Reconcile, TornDown, ArgoEnds, NatsFlips
  <1>4. CASE UNCHANGED vars
    BY <1>4 DEF vars
  <1> QED
    BY <1>1, <1>2, <1>3, <1>4, StepsForward

\* Before the first run begins only NATS comes and goes.
LEMMA UntouchedStays ==
    ASSUME RunInv, Untouched, Services \/ \E r \in Run : RunStep(r)
    PROVE  Untouched'
  <1> USE DEF Untouched, cluster, workflow
  <1>1. ASSUME NEW r \in Run, RunStep(r) PROVE FALSE
    BY <1>1 DEF RunInv, GhostInv, TypeOK, RunStep, EmitStatus, Cancel, TimeOut, Begin, Apply,
       Succeed, AttemptFails, StepFails, GhostActs, GhostStops, DeleteXR, CleanupFails,
       SkipMigrations, Notify
  <1>2. CASE NatsFlips
    BY <1>2 DEF NatsFlips
  <1>3. CASE Services /\ ~NatsFlips
    BY <1>3 DEF Services, Reconcile, TornDown, ArgoEnds
  <1> QED
    BY <1>1, <1>2, <1>3

LEMMA FirstPodStep ==
    ASSUME Unstopped, ManyInv, SuccessIsComplete, JobInv, FirstPodInv, [BootstrapNext]_allVars
    PROVE  FirstPodInv'
  <1> USE DEF FirstPodInv, JobInv, JobTypeOK, Standing
  <1>1. CASE ReadSecret
    BY <1>1 DEF ReadSecret, vars, cluster, workflow, Untouched
  <1>2. CASE CheckExists
    BY <1>2 DEF CheckExists, vars, cluster, workflow, Untouched
  <1>3. CASE Submit
    BY <1>3 DEF Submit
  <1>4. CASE WorkflowReturns
    <2>1. awaited \in Run
      BY <1>4 DEF WorkflowReturns, SearchInv
    <2> QED
      BY <1>4, <2>1 DEF WorkflowReturns, vars, cluster, workflow, SuccessIsComplete
  <1>5. CASE SearchAdmin \/ CreateAdmin \/ WriteRelation
    BY <1>5 DEF SearchAdmin, CreateAdmin, WriteRelation, vars, cluster, workflow
  <1>6. CASE JobFails
    BY <1>6 DEF JobFails
  <1>7. CASE Restart
    BY <1>7 DEF Restart
  <1>8. CASE (Services \/ \E r \in Run : RunStep(r)) /\ UNCHANGED jobVars
    <2>1. Grows
      BY <1>8, NothingIsLost DEF Next
    <2>2. Untouched => Untouched'
      BY <1>8, UntouchedStays DEF ManyInv
    <2> QED
      BY <1>8, <2>1, <2>2 DEF Grows, jobVars
  <1>9. CASE UNCHANGED allVars
    BY <1>9 DEF allVars, jobVars, vars, cluster, workflow, Untouched
  <1> QED
    BY <1>1, <1>2, <1>3, <1>4, <1>5, <1>6, <1>7, <1>8, <1>9 DEF BootstrapNext, JobNext

\* "Re-running after a partial failure picks up where the previous run left
\* off" fails for a later pod (DoneMeansProvisioned); the pod that starts the
\* workflow itself, and waits for it, only succeeds with the tenant provisioned.
THEOREM FirstPodProvisions == Unstopped => (BootstrapSpec => [](pods = 1 => DoneMeansProvisioned))
  <1> SUFFICES ASSUME Unstopped PROVE BootstrapSpec => [](pods = 1 => DoneMeansProvisioned)
    OBVIOUS
  <1>1. BootstrapInit => FirstPodInv
    BY DEF BootstrapInit, Init, FirstPodInv, Untouched
  <1>2. ManyInv /\ SuccessIsComplete /\ JobInv /\ FirstPodInv /\ [BootstrapNext]_allVars
            => FirstPodInv'
    BY FirstPodStep
  <1>3. FirstPodInv => (pods = 1 => DoneMeansProvisioned)
    BY DEF FirstPodInv, DoneMeansProvisioned
  <1>4. Spec => []ManyInv
    BY ManyInit, ManyStep, PTL DEF Spec
  <1>5. Spec => []SuccessIsComplete
    BY SuccessOfMany
  <1> QED
    BY <1>1, <1>2, <1>3, <1>4, <1>5, JobInvariance, BootstrapImplementsOnboarding, PTL
       DEF BootstrapSpec
=============================================================================
