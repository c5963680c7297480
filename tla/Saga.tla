-------------------------------- MODULE Saga --------------------------------
(***************************************************************************)
(* What a compensating workflow promises, whatever its steps are: it does  *)
(* them one after the other and, from the first that fails, undoes those   *)
(* it has done one after the other.  It ends with all of them done or none *)
(* left to undo, unless it is killed.                                      *)
(***************************************************************************)
EXTENDS Naturals

CONSTANT Last       \* the number of steps

VARIABLES
    phase,          \* which way the saga goes
    done            \* the steps done and not yet given back: the first `done`

vars == <<phase, done>>

Init == phase = "idle" /\ done = 0

Begin    == phase = "idle" /\ phase' = "forward" /\ UNCHANGED done
Forward  == phase = "forward" /\ done < Last /\ done' = done + 1 /\ UNCHANGED phase
Complete == phase = "forward" /\ done = Last /\ phase' = "completed" /\ UNCHANGED done
TurnBack == phase = "forward" /\ done < Last /\ phase' = "backward" /\ UNCHANGED done
Back     == phase = "backward" /\ done > 0 /\ done' = done - 1 /\ UNCHANGED phase
GiveUp   == phase \in {"forward", "backward"} /\ done = 0
            /\ phase' = "compensated" /\ UNCHANGED done
Kill     == phase \in {"forward", "backward"} /\ phase' = "killed" /\ done' \in 0..Last

Next == Begin \/ Forward \/ Complete \/ TurnBack \/ Back \/ GiveUp \/ Kill

Spec == Init /\ [][Next]_vars
=============================================================================
