--------------------------- MODULE MCComputePool ---------------------------
(* A callback with two jobs in sequence, and a request with its own event.  *)
EXTENDS ComputePool
CONSTANTS fit, project, mesh

MCJobs == {fit, project, mesh}
MCCancelEvent == [j \in MCJobs |-> IF j = project THEN fit ELSE j]
MCBefore == [j \in MCJobs |-> IF j = project THEN fit ELSE NoJob]
=============================================================================
