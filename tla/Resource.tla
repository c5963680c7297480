------------------------------ MODULE Resource ------------------------------
(***************************************************************************)
(* What the routes of the operator console rely on in Solid's              *)
(* createResource (solid-js, external): a source value (the key), at most  *)
(* one current load, and the value of the last load that was current when  *)
(* it settled.  A load that was superseded by a newer one never reaches    *)
(* the value.                                                              *)
(*                                                                         *)
(* The value keeps only what the properties tell apart: the key it was     *)
(* loaded for, and whether it lacks a write that the page which owns the   *)
(* resource has made itself ("stale"), only one that nothing on that page  *)
(* waits for ("behind"), or neither ("fresh").                             *)
(***************************************************************************)
CONSTANT NoKey            \* a source that is null: nothing is loaded

LoadState  == {"none", "sent", "fresh", "behind", "stale"}
ValueState == {"none", "error", "fresh", "behind", "stale"}

Resource(Key) ==
    [key   : Key \cup {NoKey},
     load  : LoadState,
     value : [of : Key \cup {NoKey}, state : ValueState]]

NoValue == [of |-> NoKey, state |-> "none"]
Failed  == [of |-> NoKey, state |-> "error"]

\* createResource(source, fetcher): the fetcher runs unless the source is null.
Created(k) ==
    [key |-> k, load |-> IF k = NoKey THEN "none" ELSE "sent", value |-> NoValue]

\* The source changed to k, or refetch() was called with the source at k.
\* While it loads the old value is kept; a null source ends the current load.
Load(r, k) ==
    IF k = NoKey
      THEN [key |-> NoKey, load |-> "none",
            value |-> IF r.value = Failed THEN NoValue ELSE r.value]
      ELSE [r EXCEPT !.key = k, !.load = "sent"]

\* The server reads the data for the current load.
Read(r) == [r EXCEPT !.load = "fresh"]

\* The current load settles, with a value or with an error.  A failed resource
\* throws when it is read, so its old value cannot be seen again.
Landed(r) ==
    [r EXCEPT !.load = "none",
              !.value = [of |-> r.key,
                         state |-> IF r.load = "sent" THEN "fresh" ELSE r.load]]
Errored(r) == [r EXCEPT !.load = "none", !.value = Failed]

\* A write is committed: what was read before it lacks it, and is called w.
Older(s, w) == IF s \in {"fresh", "behind"} THEN w ELSE s

Outdated(r, w) ==
    [key |-> r.key, load |-> Older(r.load, w),
     value |-> [of |-> r.value.of, state |-> Older(r.value.state, w)]]

Loading(r) == r.load # "none"
=============================================================================
