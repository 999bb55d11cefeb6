----------------------------- MODULE MCJobQueue -----------------------------
(* Four jobs on a queue whose cap the user moves between one and two. *)
EXTENDS JobQueue
CONSTANTS j1, j2, j3, j4
MCJobs == {j1, j2, j3, j4}
MCPriorities == {1, 4, 6}
MCCaps == {1, 2}
=============================================================================
