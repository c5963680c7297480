---------------------------- MODULE EventStreams ----------------------------
(***************************************************************************)
(* Live event subscriptions: a browser subscribes over SSE, the API checks *)
(* the caller, connects to NATS once per process (nats.ts) and registers a *)
(* NATS subscription (handlers/events.ts).  The client may leave at any of *)
(* these points.                                                           *)
(*                                                                         *)
(* A slot of STREAMS is one run of an observable factory; its number is a  *)
(* bound on subscriptions that overlap (one that closes, one that opens).  *)
(***************************************************************************)
CONSTANT STREAMS

VARIABLES nats,        \* nc and pending of the singleton
          stream       \* per slot: kind, phase and the cancelled flag

streamVars == <<nats, stream>>

Kind  == {"tenant", "workflow", "audit"}
Nats  == {"idle", "connecting", "up", "failed"}
Closed == [kind |-> "none", phase |-> "closed", cancelled |-> FALSE]
Opened(k) == [kind |-> k, phase |-> "authz", cancelled |-> FALSE]

Stream == {Closed}
    \cup [kind : Kind, phase : {"authz", "connect", "live"}, cancelled : {FALSE}]
    \cup [kind : {"none"}, phase : {"authz", "connect"}, cancelled : {TRUE}]

StreamsInit ==
    /\ nats = "idle"
    /\ stream = [s \in STREAMS |-> Closed]

\* connectNats(): the first caller starts the connection, the others share it.
Connecting(n) == IF n = "idle" THEN "connecting" ELSE n

NatsSettles ==
    /\ nats = "connecting"
    /\ nats' \in {"up", "failed"}
    /\ UNCHANGED stream

-----------------------------------------------------------------------------
\* Mutant: the teardown only sets the flag, which nothing reads once the
\* subscription is registered.
Unsubscribed_FlagOnly(st) ==
    IF st.phase = "closed" THEN Closed
    ELSE [kind |-> "none", phase |-> st.phase, cancelled |-> TRUE]

\* The client unsubscribes: cancelled is set; a registered subscription is
\* ended as soon as `ready` has settled, which for a live one is at once.  What
\* a cancelled one was for no longer matters.
Unsubscribed(st) ==
    IF st.phase \in {"live", "closed"} THEN Closed
    ELSE [kind |-> "none", phase |-> st.phase, cancelled |-> TRUE]

\* Everything the open page had is unsubscribed and k, if any, is subscribed in
\* a free slot.
Resubscribe(k) ==
    LET left == [s \in STREAMS |-> Unsubscribed(stream[s])]
    IN  IF k = "none" THEN stream' = left
        ELSE \E s \in STREAMS : left[s] = Closed /\ stream' = [left EXCEPT ![s] = Opened(k)]

\* tenantProcedure("read") upstream of the tenant and audit observables, the
\* check inside the observable for a workflow: refused, or the NATS connection
\* is awaited unless the client has left.
Authorize(s) ==
    /\ stream[s].phase = "authz"
    /\ \/ stream' = [stream EXCEPT ![s] = Closed] /\ UNCHANGED nats
       \/ /\ ~stream[s].cancelled
          /\ stream' = [stream EXCEPT ![s].phase = "connect"]
          /\ nats' = Connecting(nats)

\* After the await: `if (cancelled) return`, else the subscription is registered.
\* (One registered for a client that has left would be ended by the teardown,
\* which waits for `ready`.)
Register(s) ==
    /\ stream[s].phase = "connect" /\ nats = "up"
    /\ stream' = [stream EXCEPT ![s] =
                     IF @.cancelled THEN Closed ELSE [@ EXCEPT !.phase = "live"]]
    /\ UNCHANGED nats

\* connectNats rejects: emit.error.  The browser's client may connect again (a
\* 5xx), which meets the same rejected promise.
ConnectFails(s) ==
    /\ stream[s].phase = "connect" /\ nats = "failed"
    /\ \/ stream' = [stream EXCEPT ![s] = Closed]
       \/ ~stream[s].cancelled /\ stream' = [stream EXCEPT ![s].phase = "authz"]
    /\ UNCHANGED nats

\* A message can reach the page that is open.
Delivers(k) ==
    \E s \in STREAMS : stream[s] = [kind |-> k, phase |-> "live", cancelled |-> FALSE]

StreamStep(s) == Authorize(s) \/ Register(s) \/ ConnectFails(s)

-----------------------------------------------------------------------------
StreamsTypeOK ==
    /\ nats \in Nats
    /\ stream \in [STREAMS -> Stream]

\* A subscription whose client has left does not stay: whether it was being
\* authorized, waiting for NATS or registered, its slot is closed in the end.
StreamsEnd == \A s \in STREAMS : stream[s].cancelled ~> ~stream[s].cancelled
=============================================================================
