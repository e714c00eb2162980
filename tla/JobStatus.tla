----------------------------- MODULE JobStatus -----------------------------
(***************************************************************************)
(* What the job lifecycle promises to its observers: the status of a job   *)
(* moves forward, from pending over waiting and running to a final status, *)
(* and stays there (docs/04-task-engine.md, "Job Lifecycle").  The arrows  *)
(* that the documentation leaves out are the failures before running: a    *)
(* pre-start check or a dependency (pending to failed) and a reaped job    *)
(* that was never taken (waiting to failed).                               *)
(*                                                                         *)
(* One thing the code does against it: the preparation of a job may write  *)
(* failed and then raise an exception, for which the same run() ends the   *)
(* job with error.  Nothing else changes a final status, neither of a run  *)
(* that has ended nor of one that was reaped.                              *)
(***************************************************************************)
VARIABLES
    status,
    inRun       \* run() has ended its work and has not saved the result

Final == {"successful", "failed", "error", "canceled"}

Arrows ==
    {<<"pending", "waiting">>, <<"pending", "failed">>,
     <<"waiting", "running">>, <<"waiting", "failed">>}
      \cup ({"running"} \X Final)

Init == status = "pending"

Forward == \E s \in {"waiting", "running"} \cup Final :
              <<status, s>> \in Arrows /\ status' = s

Correct == inRun /\ ~inRun' /\ status = "failed" /\ status' = "error"

Next == Forward \/ Correct

Spec == Init /\ [][Next]_status
=============================================================================
