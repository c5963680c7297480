----------------------------- MODULE AuditTrail -----------------------------
(***************************************************************************)
(* The audit trail from the audited mutation to the screen: auditMiddleware*)
(* wraps a call, its emitter inserts a row and publishes an envelope, both *)
(* best effort; the Audit page pages through audit.list with a cursor and  *)
(* adds the live envelopes.                                                *)
(*                                                                         *)
(* A call stands for its row and its envelope.  The calls are those made   *)
(* while one visit of the Audit page is open: what the log held before is  *)
(* the case of calls that end before the first page is read.               *)
(* Bounds: CALLS, MAX_TIME (timestamps), PAGE_SIZE (50 in the code).       *)
(***************************************************************************)
EXTENDS EventStreams, Naturals, FiniteSets

CONSTANTS CALLS,          \* audited mutations
          ACTORS,         \* principals that make them
          ActorOf,        \* the principal of each call
          PAGE_SIZE,
          MAX_TIME

ASSUME AuditAssumption ==
    /\ ActorOf \in [CALLS -> ACTORS]
    /\ PAGE_SIZE \in Nat \ {0} /\ MAX_TIME \in Nat
    /\ "all" \notin ACTORS

VARIABLES now,            \* the server's clock, to the millisecond
          call,           \* per call: start time and how far the middleware is
          log,            \* rows of audit_log
          filters,        \* of the form: none, or a principal
          before,         \* cursor of the page, 0 for null
          loading,        \* the current load of page: none, a first page, or one more
          full,           \* the last page that landed had PAGE_SIZE rows
          history,        \* historyAccum
          base,           \* what the log had for the form when its first page was read
          frozen          \* a load failed: page() throws where it is read

serverVars == <<now, call, log>>
auditVars  == <<now, call, log, filters, before, loading, full, history, base, frozen>>

Filter == ACTORS \cup {"all"}

\* The log before the first audited call, and the page as it is mounted.
AuditInit ==
    /\ now = 1
    /\ call = [c \in CALLS |-> [at |-> 0, phase |-> "none"]]
    /\ log = {}
    /\ filters = "all" /\ before = 0
    /\ loading = "first" /\ full = FALSE
    /\ history = {} /\ base = {}
    /\ frozen = FALSE

\* The page is opened: every signal new, and (see above) a log of its own.
RemountAudit ==
    /\ now' = 1
    /\ call' = [c \in CALLS |-> [at |-> 0, phase |-> "none"]]
    /\ log' = {}
    /\ filters' = "all" /\ before' = 0
    /\ loading' = "first" /\ full' = FALSE
    /\ history' = {} /\ base' = {}
    /\ frozen' = FALSE

-----------------------------------------------------------------------------
(* The API: auditMiddleware and the production emitter.                    *)

\* The timestamp of the row is the time of the start; time passes at will.
StartCall(c) ==
    /\ call[c].phase = "none"
    /\ now' \in now..MAX_TIME
    /\ call' = [call EXCEPT ![c] = [at |-> now', phase |-> "running"]]
    /\ UNCHANGED <<log, filters, before, loading, full, history, base, frozen>>

\* The production emitter: the INSERT is done or has failed, which is logged and
\* swallowed, and the emitter goes on to NATS.  The page's own rows come from the
\* table; what it does with envelopes is left out.
Emitted(c) == log' \in {log, log \cup {c}} /\ nats' = Connecting(nats)

\* The body has run, with success or error; the caller is answered whatever the
\* emitter did.  The metadata builder of audit.ping throws on an input that its
\* schema refuses, and that call leaves nothing.
Emit(c) ==
    /\ call[c].phase = "running"
    /\ call' = [call EXCEPT ![c].phase = "answered"]
    /\ Emitted(c) \/ UNCHANGED <<log, nats>>
    /\ UNCHANGED <<now, filters, before, loading, full, history, base, frozen>>

-----------------------------------------------------------------------------
(* audit.list and the page.                                                *)

Matches(c, f) == f = "all" \/ ActorOf[c] = f

\* ORDER BY created_at DESC LIMIT n: rows of one timestamp in any order.
Newest(S, n) ==
    {R \in SUBSET S :
        /\ Cardinality(R) = IF Cardinality(S) < n THEN Cardinality(S) ELSE n
        /\ \A r \in R, s \in S \ R : call[s].at <= call[r].at}

Listed == {c \in log : Matches(c, filters) /\ (before = 0 \/ call[c].at < before)}

\* A page is read and lands (handlePageLanded); between the two the page can
\* only ask for another one instead.  A cursor that moves runs handlePageLanded
\* for the old page once more, whose rows unifyRows drops as duplicates.
PageLands ==
    /\ loading # "none"
    /\ loading' = "none"
    /\ IF frozen THEN UNCHANGED <<history, full, base>>
       ELSE \E rows \in Newest(Listed, PAGE_SIZE) :
              /\ history' = IF before = 0 THEN rows ELSE history \cup rows
              /\ full' = (Cardinality(rows) = PAGE_SIZE)
              /\ base' = IF loading = "first" THEN {c \in log : Matches(c, filters)} ELSE base
    /\ UNCHANGED <<serverVars, filters, before, frozen>>

\* The API fails, or refuses the filters (an id that is still being typed).
\* page() throws in the memo that feeds the list; no ErrorBoundary is mounted
\* and Solid does not run that memo again.
PageFails ==
    /\ loading # "none"
    /\ loading' = "none" /\ frozen' = TRUE
    /\ UNCHANGED <<serverVars, filters, before, full, history, base>>

\* Mutant: the cursor of the old filters stays.
FiltersChange_KeepsCursor(f) ==
    /\ history' = {} /\ filters' = f
    /\ loading' = "first"
    /\ base' = {}
    /\ UNCHANGED <<serverVars, before, full, frozen>>

\* Also on every key typed into a filter.
FiltersChange(f) ==
    /\ before' = 0 /\ history' = {} /\ filters' = f
    /\ loading' = "first"
    /\ base' = {}
    /\ UNCHANGED <<serverVars, full, frozen>>

\* The cursor is the created_at of the last row listed, an oldest one; the same
\* cursor again changes nothing.
Oldest(S) == {r \in S : \A s \in S : call[r].at <= call[s].at}

LoadMore ==
    /\ full
    /\ \E last \in Oldest(history) : before # call[last].at /\ before' = call[last].at
    /\ loading' = "more"
    /\ UNCHANGED <<serverVars, filters, full, history, base, frozen>>

-----------------------------------------------------------------------------
\* What the page asks for, what the API does with the page's requests, and the
\* calls of others; only an emitter touches the NATS connection.
AuditInput == (\E f \in Filter : FiltersChange(f)) \/ LoadMore

AuditAnswers ==
    \/ (PageLands \/ PageFails \/ \E c \in CALLS : StartCall(c)) /\ UNCHANGED streamVars
    \/ (\E c \in CALLS : Emit(c)) /\ UNCHANGED stream

AuditTypeOK ==
    /\ now \in Nat
    /\ call \in [CALLS -> [at : Nat, phase : {"none", "running", "answered"}]]
    /\ log \subseteq CALLS
    /\ filters \in Filter /\ before \in Nat
    /\ loading \in {"none", "first", "more"} /\ full \in BOOLEAN
    /\ history \subseteq CALLS /\ base \subseteq CALLS
    /\ frozen \in BOOLEAN

\* Paging leaves nothing out: a row that the log had when the first page was
\* read is listed as soon as an older one is, and once there is no more to load,
\* unless other rows carry its very timestamp (the cursor is strict).
Alone(c) == \A d \in log \ {c} : call[d].at # call[c].at
PagesComplete == ~full /\ loading = "none" /\ ~frozen
NoGap ==
    \A c \in base :
        Alone(c) /\ (PagesComplete \/ \E h \in history : call[h].at < call[c].at)
          => c \in history

\* The history is what the form asks for: its rows match the filters, and there
\* is no gap between them however pages, filters and new rows interleave.
HistoryHasNoGap == (\A c \in history : Matches(c, filters)) /\ NoGap
=============================================================================
