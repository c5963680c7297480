----------------------- MODULE HeartbeatMonitorProofs -----------------------
(***************************************************************************)
(* Proofs about HeartbeatMonitor for any number of revoke signals and any  *)
(* number of buffered heartbeats.                                          *)
(***************************************************************************)
EXTENDS HeartbeatMonitor, TLAPS

-----------------------------------------------------------------------------
(* The inductive invariant.                                                *)

\* Where the main coroutine is says which status it can have.
PlaceInv ==
    /\ pc \in {"escalate", "alert"} => status \in {"warning", "critical"}
    /\ pc \in {"await", "recover"} => status \in {"healthy", "warning"}
    /\ pc = "critical" => status = "critical"
    /\ pc = "recover" => heartbeatReceived

\* A signal is buffered only when no receiver is left, and the receiver of
\* the current iteration is served last.
ChannelInv ==
    /\ hbBuffer > 0 => heartbeatReceived
    /\ heartbeatReceived => hbStale = 0
    /\ pc \in {"escalate", "alert"} /\ status = "warning" => hbStale = 0
    /\ revBuffer <= revokes

\* A healthy iteration that heard nothing lasts no longer than the silence.
SilenceInv ==
    pc = "await" /\ status = "healthy" /\ ~heartbeatReceived => silence + timer >= 2

\* After a warning a heartbeat that did not end it was the one the receiver
\* left behind has swallowed.
MissedInv ==
    status = "warning" =>
        /\ pc \in {"escalate", "alert"} =>
              /\ ~heartbeatReceived => missed = 0
              /\ hbBuffer = 0 => missed <= 1
        /\ pc = "await" /\ ~heartbeatReceived => missed + hbStale <= 1

IInv == TypeOK /\ HealthyHearsAll /\ PlaceInv /\ ChannelInv /\ SilenceInv /\ MissedInv

-----------------------------------------------------------------------------
\* The two thresholds, in ticks.
LEMMA Thresholds == Threshold["healthy"] = 2 /\ Threshold["warning"] = 4
  BY DEF Threshold

\* The first iteration starts in the invariant.
LEMMA InitInv == Init => IInv
  <1> SUFFICES ASSUME Init PROVE IInv
    OBVIOUS
  <1>1. TypeOK
    <2>1. heartbeatReceived \in BOOLEAN /\ revoked \in BOOLEAN
      BY DEF Init
    <2>2. /\ timer \in 0..4 /\ hbStale \in 0..1 /\ hbBuffer \in 0..MaxBuffer
          /\ revStale \in 0..MaxRevokes /\ revBuffer \in 0..MaxRevokes
          /\ revokes \in 0..MaxRevokes
          /\ silence \in 0..MaxSilence /\ missed \in 0..3
      BY MonitorAssumption, Thresholds DEF Init, MaxSilence
    <2> QED
      BY <2>1, <2>2 DEF Init, TypeOK, Place
  <1>2. HealthyHearsAll /\ PlaceInv
    BY DEF Init, HealthyHearsAll, PlaceInv
  <1>3. ChannelInv
    BY DEF Init, ChannelInv
  <1>4. SilenceInv /\ MissedInv
    BY Thresholds DEF Init, SilenceInv, MissedInv
  <1> QED
    BY <1>1, <1>2, <1>3, <1>4 DEF IInv

\* What the top of the loop leaves: typed variables, the timer of the status,
\* and a buffered heartbeat received.
LEMMA IterateFacts ==
    ASSUME TypeOK, ChannelInv, NEW st \in {"healthy", "warning"}, Iterate(st)
    PROVE  /\ pc' = "await" /\ timer' = Threshold[st] /\ timer' \in {2, 4}
           /\ heartbeatReceived' \in BOOLEAN /\ revoked' \in BOOLEAN
           /\ heartbeatReceived' <=> hbBuffer > 0
           /\ hbBuffer' \in 0..MaxBuffer
           /\ hbBuffer' > 0 => hbBuffer > 0
           /\ hbStale' = IF heartbeatReceived THEN 0 ELSE hbStale + 1
           /\ revBuffer' \in 0..MaxRevokes /\ revBuffer' <= revBuffer
           /\ revStale' \in 0..MaxRevokes
  <1>1. pc' = "await" /\ timer' = Threshold[st]
    BY DEF Iterate
  <1>2. timer' \in {2, 4}
    BY <1>1, Thresholds
  <1>3. heartbeatReceived' = (hbBuffer > 0) /\ revoked' = (revBuffer > 0)
    BY DEF Iterate
  <1>4. hbBuffer' \in 0..MaxBuffer /\ (hbBuffer' > 0 => hbBuffer > 0)
    BY MonitorAssumption DEF Iterate, TypeOK, Less
  <1>5. hbStale' = IF heartbeatReceived THEN 0 ELSE hbStale + 1
    BY DEF Iterate
  <1>6. revBuffer' \in 0..MaxRevokes /\ revBuffer' <= revBuffer
    BY MonitorAssumption DEF Iterate, TypeOK, Less
  <1>7. revStale' \in 0..MaxRevokes
    BY MonitorAssumption DEF Iterate, TypeOK, AtMost
  <1>8. heartbeatReceived' \in BOOLEAN /\ (heartbeatReceived' <=> hbBuffer > 0)
    <2>1. CASE hbBuffer > 0
      BY <1>3, <2>1, Zenon
    <2>2. CASE ~(hbBuffer > 0)
      <3>1. (hbBuffer > 0) = FALSE
        BY <2>2
      <3> QED
        BY <1>3, <2>2, <3>1, Zenon
    <2> QED
      BY <2>1, <2>2
  <1>9. revoked' \in BOOLEAN
    <2>1. CASE revBuffer > 0
      BY <1>3, <2>1, Zenon
    <2>2. CASE ~(revBuffer > 0)
      <3>1. (revBuffer > 0) = FALSE
        BY <2>2
      <3> QED
        BY <1>3, <2>2, <3>1, Zenon
    <2> QED
      BY <2>1, <2>2
  <1> QED
    BY <1>1, <1>2, <1>4, <1>5, <1>6, <1>7, <1>8, <1>9

\* Every step keeps the invariant.
LEMMA NextInv == IInv /\ [Next]_vars => IInv'
  <1> SUFFICES ASSUME IInv, [Next]_vars PROVE IInv'
    OBVIOUS
  <1> USE MonitorAssumption DEF IInv, TypeOK, HealthyHearsAll, PlaceInv, ChannelInv, SilenceInv,
      MissedInv, Place, MaxSilence
  <1>1. CASE Revoked
    BY <1>1 DEF Revoked, channels, senders
  <1>2. CASE Beat
    BY <1>2 DEF Beat, channels, senders
  <1>3. CASE Recovered
    <2>1. /\ pc = "recover" /\ status' = "healthy" /\ Iterate("healthy")
          /\ UNCHANGED senders /\ heartbeatReceived
      BY <1>3 DEF Recovered
    <2>2. /\ pc' = "await" /\ timer' = 2 /\ hbStale' = 0
          /\ heartbeatReceived' \in BOOLEAN /\ revoked' \in BOOLEAN
          /\ heartbeatReceived' <=> hbBuffer > 0
          /\ hbBuffer' \in 0..MaxBuffer
          /\ hbBuffer' > 0 => hbBuffer > 0
          /\ revBuffer' \in 0..MaxRevokes /\ revBuffer' <= revBuffer
          /\ revStale' \in 0..MaxRevokes
      BY <2>1, IterateFacts, Thresholds
    <2>3. revokes' = revokes /\ silence' = silence /\ missed' = missed
      BY <2>1 DEF senders
    <2>4. TypeOK'
      BY <2>1, <2>2, <2>3
    <2>5. HealthyHearsAll' /\ PlaceInv' /\ SilenceInv' /\ MissedInv'
      BY <2>1, <2>2, <2>3
    <2>6. ChannelInv'
      BY <2>1, <2>2, <2>3
    <2> QED
      BY <2>4, <2>5, <2>6
  <1>4. CASE Escalate
    BY <1>4 DEF Escalate, channels, senders
  <1>5. CASE Reported
    BY <1>5 DEF Reported, channels, senders
  <1>6. CASE Alerted
    <2>1. CASE status = "critical"
      <3>1. pc = "alert" /\ pc' = "critical" /\ UNCHANGED <<status, timer, channels, senders>>
        BY <1>6, <2>1 DEF Alerted
      <3> QED
        BY <2>1, <3>1 DEF channels, senders
    <2>2. CASE status = "warning"
      <3>1. pc = "alert" /\ Iterate("warning") /\ UNCHANGED <<status, senders>>
        BY <1>6, <2>2 DEF Alerted
      <3>2. /\ pc' = "await" /\ timer' = 4
            /\ hbStale' = (IF heartbeatReceived THEN 0 ELSE 1)
            /\ heartbeatReceived' \in BOOLEAN /\ revoked' \in BOOLEAN
            /\ heartbeatReceived' <=> hbBuffer > 0
            /\ hbBuffer' \in 0..MaxBuffer
            /\ hbBuffer' > 0 => hbBuffer > 0
            /\ revBuffer' \in 0..MaxRevokes /\ revBuffer' <= revBuffer
            /\ revStale' \in 0..MaxRevokes
        BY <2>2, <3>1, IterateFacts, Thresholds
      <3>3. status' = status /\ revokes' = revokes /\ silence' = silence /\ missed' = missed
        BY <3>1 DEF senders
      <3>4. hbStale' \in 0..1
        BY <3>2
      <3>5. TypeOK'
        BY <2>2, <3>2, <3>3, <3>4
      <3>6. HealthyHearsAll' /\ PlaceInv' /\ ChannelInv' /\ SilenceInv'
        BY <2>2, <3>2, <3>3
      <3>7. MissedInv'
        BY <2>2, <3>1, <3>2, <3>3
      <3> QED
        BY <3>5, <3>6, <3>7
    <2> QED
      BY <1>6, <2>1, <2>2 DEF Alerted
  <1>7. CASE Drain
    BY <1>7 DEF Drain, channels, senders, Less
  <1>8. CASE LeaveCritical
    BY <1>8 DEF LeaveCritical, channels, senders, Less
  <1>9. CASE Heartbeat
    <2>1. TypeOK'
      <3>1. CASE hbStale > 0
        BY <1>9, <3>1 DEF Heartbeat, AtMost
      <3>2. CASE hbStale = 0 /\ heartbeatReceived
        BY <1>9, <3>2 DEF Heartbeat, AtMost
      <3>3. CASE hbStale = 0 /\ ~heartbeatReceived
        BY <1>9, <3>3 DEF Heartbeat, AtMost
      <3> QED
        BY <3>1, <3>2, <3>3
    <2>2. HealthyHearsAll'
      BY <1>9 DEF Heartbeat, channels, senders, AtMost
    <2>3. PlaceInv'
      BY <1>9 DEF Heartbeat, channels, senders, AtMost
    <2>4. ChannelInv'
      BY <1>9 DEF Heartbeat, channels, senders, AtMost
    <2>5. SilenceInv'
      BY <1>9 DEF Heartbeat, channels, senders, AtMost
    <2>6. MissedInv'
      BY <1>9 DEF Heartbeat, channels, senders, AtMost
    <2> QED
      BY <2>1, <2>2, <2>3, <2>4, <2>5, <2>6 DEF IInv
  <1>10. CASE Revoke
    <2>1. TypeOK'
      <3>1. CASE revStale > 0
        BY <1>10, <3>1 DEF Revoke
      <3>2. CASE revStale = 0 /\ revoked
        BY <1>10, <3>2 DEF Revoke
      <3>3. CASE revStale = 0 /\ ~revoked
        BY <1>10, <3>3 DEF Revoke
      <3> QED
        BY <3>1, <3>2, <3>3
    <2>2. HealthyHearsAll'
      BY <1>10 DEF Revoke, channels, senders
    <2>3. PlaceInv'
      BY <1>10 DEF Revoke, channels, senders
    <2>4. ChannelInv'
      BY <1>10 DEF Revoke, channels, senders
    <2>5. SilenceInv'
      BY <1>10 DEF Revoke, channels, senders
    <2>6. MissedInv'
      BY <1>10 DEF Revoke, channels, senders
    <2> QED
      BY <2>1, <2>2, <2>3, <2>4, <2>5, <2>6 DEF IInv
  <1>11. CASE Tick
    BY <1>11 DEF Tick, channels, senders, Less, AtMost, MaxSilence
  <1>12. CASE UNCHANGED vars
    BY <1>12 DEF vars, channels, senders
  <1> QED
    BY <1>1, <1>2, <1>3, <1>4, <1>5, <1>6, <1>7, <1>8, <1>9, <1>10, <1>11, <1>12 DEF Next, Main

\* The loop, its receivers and its timer keep the inductive invariant in every
\* reachable state.
THEOREM Invariance == Spec => []IInv
  <1>1. Init => IInv
    BY InitInv
  <1>2. IInv /\ [Next]_vars => IInv'
    BY NextInv
  <1> QED
    BY <1>1, <1>2, PTL DEF Spec

\* Types are kept; in particular at most one heartbeat receiver is ever left
\* blocked.
THEOREM TypeCorrect == Spec => []TypeOK
  <1>1. IInv => TypeOK
    BY DEF IInv
  <1> QED
    BY <1>1, Invariance, PTL

\* A healthy monitor has no receiver of an earlier iteration.
THEOREM HealthyHears == Spec => []HealthyHearsAll
  <1>1. IInv => HealthyHearsAll
    BY DEF IInv
  <1> QED
    BY <1>1, Invariance, PTL

\* Only Escalate changes the status away from "healthy" or to "critical".
LEMMA OnlyEscalateRaises ==
    ASSUME [Next]_vars, status' # status, status' # "healthy"
    PROVE  Escalate
  BY DEF Next, Main, Revoked, Beat, Recovered, Reported, Alerted, Drain, LeaveCritical,
     Heartbeat, Revoke, Tick, vars

\* A warning is raised only after two periods without a heartbeat.
THEOREM WarningEarned == Spec => WarningIsEarned
  <1>1. IInv /\ [Next]_vars => [status = "healthy" /\ status' = "warning" => silence >= 2]_vars
    <2> SUFFICES ASSUME IInv, [Next]_vars, status = "healthy", status' = "warning"
                 PROVE  silence >= 2
      OBVIOUS
    <2>1. Escalate
      BY OnlyEscalateRaises
    <2>2. timer = 0 /\ silence + timer >= 2
      BY <2>1 DEF Escalate, IInv, SilenceInv
    <2> QED
      BY <2>2 DEF IInv, TypeOK, MaxSilence
  <1> QED
    BY <1>1, Invariance, PTL DEF Spec, WarningIsEarned

\* An alert becomes critical only from a warning after which at most one
\* heartbeat arrived.
THEOREM CriticalEarned == Spec => CriticalIsEarned
  <1>1. IInv /\ [Next]_vars =>
          [status' = "critical" /\ status # "critical" => status = "warning" /\ missed <= 1]_vars
    <2> SUFFICES ASSUME IInv, [Next]_vars, status' = "critical", status # "critical"
                 PROVE  status = "warning" /\ missed <= 1
      OBVIOUS
    <2>1. Escalate
      BY OnlyEscalateRaises
    <2>2. pc = "await" /\ ~heartbeatReceived /\ status = "warning"
      BY <2>1 DEF Escalate
    <2>3. missed + hbStale <= 1
      BY <2>2 DEF IInv, MissedInv
    <2> QED
      BY <2>2, <2>3 DEF IInv, TypeOK
  <1> QED
    BY <1>1, Invariance, PTL DEF Spec, CriticalIsEarned
=============================================================================
