------------------------------ MODULE OwnerTurn ------------------------------
(***************************************************************************)
(* What the run loop promises about the owners of the stages, with nothing *)
(* said about ticks, awaits, reviews or operators.                         *)
(*                                                                         *)
(* The run is at one stage at a time.  The owner of that stage has its     *)
(* turn: it is due, it runs, and its result is held until it is routed.  A *)
(* held result is routed once, to a successor in the graph.  The turn of a *)
(* physical owner that has run never becomes due again: its stage is left, *)
(* or the run is over.                                                     *)
(***************************************************************************)
CONSTANTS Stages, GUARDIAN, VISION, First, Successors, Physical, Fresh,
          IDLE, OVER

VARIABLES at, work

Init == at = IDLE /\ work = "due"

Begin == at = IDLE /\ at' = First /\ work' = "due"

Start == at \in Stages /\ work = "due" /\ work' = "running" /\ UNCHANGED at

Hold == work = "running" /\ work' = "held" /\ UNCHANGED at

\* Retried, or paused for the operator.
Repeat == work = "running" /\ at \notin Physical /\ work' = "due" /\ UNCHANGED at

Route ==
    /\ work = "held"
    /\ at' \in Successors[at] \cap Stages
    /\ work' = "due"

\* A gate blocks the owner before it starts, or its result.
Divert ==
    /\ at \in Stages \ {GUARDIAN}
    /\ work \in {"due", "running"}
    /\ at' = GUARDIAN
    /\ work' = "due"

\* The observation is captured again: a fresh result, or a fresh entry, is
\* given up for it.
Recapture ==
    /\ \/ work = "held" /\ \E s \in Stages : <<at, s>> \in Fresh
       \/ work = "due" /\ \E s \in Stages : <<s, at>> \in Fresh
    /\ at' = VISION
    /\ work' = "due"

End == at' = OVER /\ work' = "due"

Next == Begin \/ Start \/ Hold \/ Repeat \/ Route \/ Divert \/ Recapture \/ End

Spec == Init /\ [][Next]_<<at, work>>
=============================================================================
