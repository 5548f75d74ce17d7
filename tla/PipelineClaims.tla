--------------------------- MODULE PipelineClaims ---------------------------
(***************************************************************************)
(* What comments and documents of the repository say of the pipeline and   *)
(* the code, as Pipeline models it, does not do.  Each is quoted where it  *)
(* is stated; the run that checks it ends in a counterexample.             *)
(***************************************************************************)
EXTENDS Pipeline

(* cancel_stream_job: the stage in flight finishes, "the pipeline then      *)
(* stops"; db/models.py: "a job halts at the next stage boundary".  So a    *)
(* job cancelled before transcription has committed may still get its       *)
(* transcript, and never candidates.  But the stage that is running writes  *)
(* its own status over 'cancelled' when it commits, and the next stage's    *)
(* check passes.                                                            *)
CancelStopsThePipeline ==
  \A j \in Jobs :
    [](status[j] = "cancelled" /\ ~transcript[j] => [](AllCandidates(j) = {}))

(* enqueue: "max_retries uses RQ's built-in exponential-backoff Retry".     *)
(* But a retry with an interval waits for RQ's scheduler, which             *)
(* worker.work() does not start, and nothing else in the repository does.   *)
RetriesRun ==
  \A r \in RqIds : rq[r].pc = "scheduled" ~> rq[r].pc # "scheduled"

=============================================================================
