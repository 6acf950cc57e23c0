--------------------------- MODULE AutonomyStates ---------------------------
(***************************************************************************)
(* The status alphabets and the two transition whitelists of               *)
(* backend/app/ai/autonomy/state.py.  Every persisted change of a Run or   *)
(* Step status is asserted against these tables before it is written.      *)
(***************************************************************************)

RunStatus == {"draft", "queued", "running", "waiting_approval", "recovering",
              "needs_attention", "completed", "failed", "cancelled", "expired"}

StepStatus == {"proposed", "waiting_approval", "approved", "running",
               "succeeded", "failed", "skipped", "outcome_unknown",
               "cancelled"}

TerminalRun  == {"completed", "failed", "cancelled", "expired"}
TerminalStep == {"succeeded", "failed", "skipped", "cancelled"}

\* The statuses in which a Run may hold a lease (lease.py).
LeasedActive == {"running", "waiting_approval", "recovering"}

\* The statuses in which the planner may add steps to a Run (repository.py).
ProposableInAttention ==  \* mutant: needs_attention does not stop the planner
  {"queued", "running", "waiting_approval", "needs_attention"}
Proposable == {"queued", "running", "waiting_approval"}

RunLegal(from, to) ==
  \/ from = "draft"            /\ to \in {"queued", "cancelled", "expired"}
  \/ from = "queued"           /\ to \in {"running", "waiting_approval",
                                         "cancelled", "expired", "failed"}
  \/ from = "running"          /\ to \in {"waiting_approval", "recovering",
                                         "needs_attention", "completed",
                                         "failed", "cancelled"}
  \/ from = "waiting_approval" /\ to \in {"queued", "running",
                                         "needs_attention", "cancelled",
                                         "failed", "expired"}
  \/ from = "recovering"       /\ to \in {"running", "waiting_approval",
                                         "needs_attention", "failed",
                                         "cancelled"}
  \/ from = "needs_attention"  /\ to \in {"running", "cancelled", "failed"}

StepLegal(from, to) ==
  \/ from = "proposed"         /\ to \in {"waiting_approval", "approved",
                                         "running", "skipped", "failed",
                                         "cancelled"}
  \/ from = "waiting_approval" /\ to \in {"approved", "failed", "skipped",
                                         "cancelled", "running"}
  \/ from = "approved"         /\ to \in {"running", "failed", "cancelled"}
  \/ from = "running"          /\ to \in {"succeeded", "failed",
                                         "outcome_unknown", "cancelled",
                                         "approved", "waiting_approval"}
  \/ from = "outcome_unknown"  /\ to \in {"succeeded", "failed"}
=============================================================================
