----------------------------- MODULE MCJobQueue -----------------------------
(* The job queue with two jobs of one stage run.                            *)
EXTENDS JobQueue

CONSTANTS j1, j2, s1

MCJobs == {j1, j2}
MCStage == [j \in MCJobs |-> s1]
=============================================================================
