--------------------------- MODULE CommandPromise ---------------------------
(* What the executor may believe of a command that run_ssh_command was given *)
(* (src/backend/app/ai/autonomy/ssh_runner.py, read by default_runner in     *)
(* executor.py): an answer that it did not start, has exited with a status   *)
(* or was stopped is final, it does not run then and never will.  Two leave  *)
(* the command free to start, run and end later: "unknown", and "silent",    *)
(* the "exited" with code -1 that a lost transport looks like.               *)
EXTENDS Naturals

VARIABLES ran,     \* the command has been started on the host
          alive,   \* it runs
          answer   \* what the executor was told

vars == <<ran, alive, answer>>

Final == {"refused", "exited", "stopped"}

Init == ~ran /\ ~alive /\ answer = "none"

Run == /\ ~ran /\ answer \notin Final
       /\ ran' /\ alive'
       /\ UNCHANGED answer

End == /\ alive
       /\ ~alive'
       /\ UNCHANGED <<ran, answer>>

Answer == /\ answer = "none"
          /\ \/ answer' = "refused" /\ ~ran
             \/ answer' = "exited"  /\ ran /\ ~alive
             \/ answer' = "stopped" /\ ~alive
             \/ answer' \in {"unknown", "silent"}
          /\ UNCHANGED <<ran, alive>>

Next == Run \/ End \/ Answer

Spec == Init /\ [][Next]_vars
=============================================================================
