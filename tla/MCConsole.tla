----------------------------- MODULE MCConsole ------------------------------
(***************************************************************************)
(* Console for TLC: two of everything that can be selected, one panel per  *)
(* visit that is worked in, one write on its way that no page waits for,   *)
(* three audited calls of two actors, pages of one row and one             *)
(* subscription at a time on the server.                                   *)
(***************************************************************************)
EXTENDS Console, TLC

CONSTANTS u1, u2, g1, g2, p1, p2, r1, c1, c2, c3, a, b, s1

MCActorOf == c1 :> a @@ c2 :> b @@ c3 :> a
=============================================================================
