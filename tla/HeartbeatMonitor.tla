-------------------------- MODULE HeartbeatMonitor --------------------------
(***************************************************************************)
(* InstallationHeartbeatMonitorWorkflow (workers/onboarding/               *)
(* workflow_installation.go) for one installation, with the two senders of *)
(* its signals: the heartbeat mutation (api/src/routers/installations.ts)  *)
(* and InstallationRevocationWorkflow.                                     *)
(*                                                                         *)
(* Every iteration of the workflow's loop spawns a coroutine that blocks   *)
(* in Receive on each signal channel, and none of an earlier iteration is  *)
(* ever stopped.  A channel serves its blocked receivers first come, first *)
(* served, so a signal goes to the oldest; it sets the variable of its own *)
(* iteration, which only the current one still reads.  The events of a     *)
(* workflow task are applied before the main coroutine runs again, so      *)
(* deliveries and the steps of the main coroutine are separate actions.    *)
(*                                                                         *)
(* Time passes in ticks of five minutes, the period of the heartbeats.     *)
(***************************************************************************)
EXTENDS Naturals

CONSTANTS
    MaxRevokes,     \* bound: revoke signals sent
    MaxBuffer       \* bound: heartbeats buffered at once

ASSUME MonitorAssumption == MaxRevokes \in Nat /\ MaxBuffer \in Nat

Threshold == [healthy |-> 2, warning |-> 4]     \* the timer of an iteration
MaxSilence == 6                                 \* bound: ticks told apart

VARIABLES
    pc,         \* where the main coroutine is
    status,     \* the local variable status
    timer,      \* ticks until the timer of the current iteration fires
    hbStale,    \* receivers of "heartbeat" left blocked by earlier iterations
    hbBuffer,   \* heartbeats buffered: nobody was blocked
    heartbeatReceived,
    revStale,   \* receivers of "revoke" left blocked by earlier iterations
    revBuffer,  \* revoke signals buffered
    revoked,
    revokes,    \* revoke signals sent so far
    silence,    \* ticks since a heartbeat reached the workflow
    missed      \* heartbeats that reached it since it last escalated

channels == <<hbStale, hbBuffer, heartbeatReceived, revStale, revBuffer, revoked>>
senders  == <<revokes, silence, missed>>
vars     == <<pc, status, timer, channels, senders>>

Place == {"await", "recover", "escalate", "alert", "critical", "done"}

TypeOK ==
    /\ pc \in Place
    /\ status \in {"healthy", "warning", "critical"}
    /\ timer \in 0..4
    /\ hbStale \in 0..1
    /\ hbBuffer \in 0..MaxBuffer
    /\ heartbeatReceived \in BOOLEAN /\ revoked \in BOOLEAN
    /\ revStale \in 0..MaxRevokes /\ revBuffer \in 0..MaxRevokes
    /\ revokes \in 0..MaxRevokes
    /\ silence \in 0..MaxSilence
    /\ missed \in 0..3

Init ==
    /\ pc = "await" /\ status = "healthy"
    /\ timer = Threshold["healthy"]
    /\ hbStale = 0 /\ revStale = 0
    /\ hbBuffer = 0 /\ revBuffer = 0
    /\ heartbeatReceived = FALSE /\ revoked = FALSE
    /\ revokes = 0 /\ silence = 0 /\ missed = 0

AtMost(n, bound) == IF n > bound THEN bound ELSE n
Less(n) == IF n > 0 THEN n - 1 ELSE 0

\* Mutant: a signal that was buffered is dropped.
Iterate_DropsBuffer(st) ==
    /\ pc' = "await"
    /\ timer' = Threshold[st]
    /\ heartbeatReceived' = FALSE
    /\ hbBuffer' = 0
    /\ hbStale' = IF heartbeatReceived THEN 0 ELSE hbStale + 1
    /\ revoked' = FALSE
    /\ revBuffer' = 0
    /\ revStale' = IF revoked THEN 0 ELSE AtMost(revStale + 1, MaxRevokes)

\* The top of the loop: fresh variables, a timer and new receivers, which
\* take what is buffered at once and otherwise queue up behind those of the
\* last iteration that are still blocked.  (More than MaxRevokes receivers
\* ahead of the current one are as good as MaxRevokes.)
Iterate(st) ==
    /\ pc' = "await"
    /\ timer' = Threshold[st]
    /\ heartbeatReceived' = (hbBuffer > 0)
    /\ hbBuffer' = Less(hbBuffer)
    /\ hbStale' = IF heartbeatReceived THEN 0 ELSE hbStale + 1
    /\ revoked' = (revBuffer > 0)
    /\ revBuffer' = Less(revBuffer)
    /\ revStale' = IF revoked THEN 0 ELSE AtMost(revStale + 1, MaxRevokes)

-----------------------------------------------------------------------------
(* The main coroutine.                                                     *)

\* The first Await returns; revocation goes before a heartbeat.
Revoked ==
    /\ pc = "await" /\ revoked
    /\ pc' = "done"
    /\ UNCHANGED <<status, timer, channels, senders>>

Beat ==
    /\ pc = "await" /\ ~revoked /\ heartbeatReceived
    /\ pc' = "recover"
    /\ UNCHANGED <<status, timer, channels, senders>>

\* UpdateInstallationHeartbeatActivity("healthy") returns; its result is
\* ignored.
Recovered ==
    /\ pc = "recover"
    /\ status' = "healthy"
    /\ Iterate("healthy")
    /\ UNCHANGED senders

\* Mutant: the timer is looked at before the heartbeat.
Escalate_TimerFirst ==
    /\ pc = "await" /\ ~revoked /\ timer = 0
    /\ pc' = "escalate"
    /\ status' = IF status = "warning" THEN "critical" ELSE "warning"
    /\ missed' = 0
    /\ UNCHANGED <<timer, channels, revokes, silence>>

\* Mutant: the new status is not kept.
Escalate_NoStatus ==
    /\ pc = "await" /\ ~revoked /\ ~heartbeatReceived /\ timer = 0
    /\ pc' = "escalate"
    /\ missed' = 0
    /\ UNCHANGED <<status, timer, channels, revokes, silence>>

\* Neither: the timer fired.
Escalate ==
    /\ pc = "await" /\ ~revoked /\ ~heartbeatReceived /\ timer = 0
    /\ pc' = "escalate"
    /\ status' = IF status = "warning" THEN "critical" ELSE "warning"
    /\ missed' = 0
    /\ UNCHANGED <<timer, channels, revokes, silence>>

\* UpdateInstallationHeartbeatActivity(newStatus) returns.
Reported ==
    /\ pc = "escalate"
    /\ pc' = "alert"
    /\ UNCHANGED <<status, timer, channels, senders>>

\* Mutant: no second Await.
Alerted_NoWait ==
    /\ pc = "alert"
    /\ Iterate("warning")
    /\ UNCHANGED <<status, senders>>

\* FireInstallationAlertActivity returns.
Alerted ==
    /\ pc = "alert"
    /\ IF status = "critical"
       THEN pc' = "critical" /\ UNCHANGED <<timer, channels>>
       ELSE Iterate(status)
    /\ UNCHANGED <<status, senders>>

\* The condition of the second Await takes a buffered signal of each channel,
\* that is one that no receiver was left for.  It decodes the payload into a
\* bool; a heartbeat has none, which leaves it false.
Drain ==
    /\ pc = "critical" /\ hbBuffer + revBuffer > 0
    /\ hbBuffer' = Less(hbBuffer)
    /\ revBuffer' = Less(revBuffer)
    /\ UNCHANGED <<pc, status, timer, hbStale, heartbeatReceived, revStale, revoked, senders>>

\* What a revoke signal carries is left open by its sender: if it decodes to
\* true the Await returns.  Every receiver has been served by then, so the
\* current iteration has `revoked` set and the workflow ends.
LeaveCritical ==
    /\ pc = "critical" /\ revBuffer > 0
    /\ revoked
    /\ pc' = "done"
    /\ revBuffer' = Less(revBuffer)
    /\ hbBuffer' = Less(hbBuffer)
    /\ UNCHANGED <<status, timer, hbStale, heartbeatReceived, revStale, revoked, senders>>

-----------------------------------------------------------------------------
(* What happens to the workflow.                                           *)

\* The heartbeat mutation signals the workflow; a call that fails is ignored
\* and is a heartbeat that does not happen here.
Heartbeat ==
    /\ pc # "done" /\ hbBuffer < MaxBuffer
    /\ silence' = 0
    /\ missed' = AtMost(missed + 1, 3)
    /\ \/ /\ hbStale > 0
          /\ hbStale' = hbStale - 1
          /\ UNCHANGED <<hbBuffer, heartbeatReceived>>
       \/ /\ hbStale = 0
          /\ heartbeatReceived' = TRUE
          /\ hbBuffer' = hbBuffer + IF heartbeatReceived THEN 1 ELSE 0
          /\ UNCHANGED hbStale
    /\ UNCHANGED <<pc, status, timer, revStale, revBuffer, revoked, revokes>>

\* SignalHeartbeatMonitorActivity of a revocation workflow.
Revoke ==
    /\ pc # "done"
    /\ revokes < MaxRevokes
    /\ revokes' = revokes + 1
    /\ \/ /\ revStale > 0
          /\ revStale' = revStale - 1
          /\ UNCHANGED <<revBuffer, revoked>>
       \/ /\ revStale = 0
          /\ revoked' = TRUE
          /\ revBuffer' = revBuffer + IF revoked THEN 1 ELSE 0
          /\ UNCHANGED revStale
    /\ UNCHANGED <<pc, status, timer, hbStale, hbBuffer, heartbeatReceived, silence, missed>>

\* Five minutes pass.  A received signal cancels the timer, which then counts
\* as fired as well; that is never looked at.
Tick ==
    /\ pc # "done"
    /\ silence' = AtMost(silence + 1, MaxSilence)
    /\ timer' = Less(timer)
    /\ UNCHANGED <<pc, status, channels, revokes, missed>>

-----------------------------------------------------------------------------
Main ==
    \/ Revoked \/ Beat \/ Recovered \/ Escalate \/ Reported \/ Alerted
    \/ Drain \/ LeaveCritical

Next == Main \/ Heartbeat \/ Revoke \/ Tick

Spec == Init /\ [][Next]_vars

\* The worker runs the main coroutine when it can go on and its activities
\* return; time passes.
FairSpec == Spec /\ WF_vars(Main) /\ WF_vars(Tick)

-----------------------------------------------------------------------------
(* Properties.                                                             *)

\* A healthy monitor hears every heartbeat: no receiver of an earlier
\* iteration is left to swallow it.
HealthyHearsAll == status = "healthy" => hbStale = 0

\* warningAfter: the monitor leaves "healthy" only after two periods without
\* a heartbeat, however long its activities and workflow tasks took.
WarningIsEarned ==
    [][status = "healthy" /\ status' = "warning" => silence >= 2]_vars

\* "critical" follows a warning after which at most one heartbeat arrived:
\* the receiver that the warning left behind can swallow one, not two.
CriticalIsEarned ==
    [][status' = "critical" /\ status # "critical" => status = "warning" /\ missed <= 1]_vars

\* "revoke - sent by InstallationRevocationWorkflow to stop the monitor".
RevokeStops == (revokes > 0) ~> (pc = "done")
=============================================================================
