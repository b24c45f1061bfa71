----------------------------- MODULE MCRunLoop -----------------------------
(* A four-stage instance of RunLoop: design -> vision -> equipment ->       *)
(* guardian -> design, with Vision's monitoring self-transition.            *)
EXTENDS RunLoop
CONSTANTS design, vision, equipment, guardian

MCStages == {design, vision, equipment, guardian}
MCSuccessors ==
    [s \in MCStages |->
        CASE s = design -> {vision}
          [] s = vision -> {vision, equipment}
          [] s = equipment -> {guardian}
          [] s = guardian -> {design, COMPLETE, ERROR}]
MCPhysical == {equipment}
MCFresh == {<<vision, vision>>, <<vision, equipment>>}
MCNeedsApproval == {equipment}
=============================================================================
