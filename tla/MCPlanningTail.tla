--------------------------- MODULE MCPlanningTail ---------------------------
(* The part of the shipped graph that a tail runs: design, where it ends,   *)
(* vision, manipulation, equipment and the Guardian.                        *)
EXTENDS PlanningTail
CONSTANTS design, vision, manipulation, equipment, guardian, h1, s1

MCStages == {design, vision, manipulation, equipment, guardian}
MCSuccessors ==
    [s \in MCStages |->
        CASE s = design -> {vision}
          [] s = vision -> {vision, manipulation, equipment}
          [] s = manipulation -> {vision, equipment}
          [] s = equipment -> {guardian}
          [] s = guardian -> {design, COMPLETE, ERROR}]
MCPhysical == {manipulation, equipment}
MCFresh ==
    {<<vision, vision>>, <<vision, manipulation>>, <<vision, equipment>>,
     <<manipulation, vision>>}
MCNeedsApproval == {equipment}
=============================================================================
