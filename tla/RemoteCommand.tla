--------------------------- MODULE RemoteCommand ----------------------------
(* One command on a managed host: the worker's poll loop, the SSH transport, *)
(* the wrapper around the command on the host with its guardian, and the     *)
(* script a second channel runs to stop the process group.                   *)
(* src/backend/app/ai/autonomy/ssh_runner.py.                                *)
(*                                                                           *)
(* Output is counted in chunks of one read (32 KiB).                         *)
EXTENDS Naturals

CONSTANTS Budget,     \* chunks kept (max_output_bytes)
          Rounds,     \* chunks drained per poll (_DRAIN_ROUNDS_PER_POLL)
          Window,     \* chunks the channel holds before the writer must wait
          MaxOut      \* bound: chunks a command writes

ASSUME RemoteAssumption ==
  /\ Budget \in Nat /\ Rounds \in Nat /\ Window \in Nat /\ MaxOut \in Nat
  /\ Budget < Rounds

VARIABLES
  \* the worker
  pc, reason, late, ans,
  seen, kept,          \* _OutputCollector
  \* the transport
  link, sent, eof,
  hand,                \* the launcher's first line, with the process group
  buf,                 \* chunks in the channel
  rc,                  \* the exit status has come
  \* the host
  shell, guardian, payload, child, wrote,
  stopper              \* the stop script

local  == <<pc, reason, late, ans, seen, kept>>
wire   == <<link, sent, eof, hand, buf, rc>>
procs  == <<shell, guardian, payload, child>>
vars   == <<local, wire, procs, wrote, stopper>>

Control == {"cancelled", "authorization_revoked", "lease_lost", "control_error"}
Answers == [term: Control \cup {"none", "timed_out", "transport_error", "exited",
                                "stop_unconfirmed"},
            started: BOOLEAN, confirmed: BOOLEAN, told: BOOLEAN, status: BOOLEAN]
NoAns   == [term |-> "none", started |-> FALSE, confirmed |-> FALSE, told |-> FALSE,
            status |-> FALSE]

Init ==
  /\ pc = "probe" /\ reason = "none" /\ late = FALSE /\ ans = NoAns
  /\ seen = 0 /\ kept = 0
  /\ link = "none" /\ sent = "no" /\ eof = FALSE /\ hand = "none" /\ buf = 0
  /\ rc = FALSE /\ shell = "none" /\ guardian = "none" /\ payload = "none" /\ child = "none"
  /\ wrote = 0 /\ stopper = "none"

(* ------------------------------ the worker ------------------------------- *)

AtMost(a, b) == IF a < b THEN a ELSE b

(* _result, and the finally block: the channel and the connection close.     *)
(* Without a status, the exit code of a command that "exited" is -1.         *)
Reply(term, started, confirmed) ==
  /\ ans' = [term |-> term, started |-> started, confirmed |-> confirmed,
             told |-> seen' > kept', status |-> rc]
  /\ pc' = "done"

NotStarted(term) == /\ UNCHANGED <<seen, kept>>
                    /\ Reply(term, FALSE, TRUE)
                    /\ UNCHANGED <<reason, late>>

(* A control reason before anything was sent: the command never starts.      *)
FirstProbe ==
  /\ pc = "probe"
  /\ \/ \E r \in Control : NotStarted(r)
     \/ pc' = "connect" /\ UNCHANGED <<reason, late, ans, seen, kept>>
  /\ UNCHANGED <<wire, procs, wrote, stopper>>

Connect ==
  /\ pc = "connect"
  /\ \/ NotStarted("transport_error") /\ UNCHANGED link
     \/ /\ link' = "up" /\ pc' = "open"
        /\ UNCHANGED <<reason, late, ans, seen, kept>>
  /\ UNCHANGED <<sent, eof, hand, buf, rc, procs, wrote, stopper>>

(* The probe and the deadline once more, then the exec request: from here    *)
(* the command may start whatever the worker sees.                           *)
Exec ==
  /\ pc = "open"
  /\ \/ \E r \in Control : NotStarted(r) /\ UNCHANGED sent
     \/ late /\ NotStarted("timed_out") /\ UNCHANGED sent
     \/ link = "down" /\ NotStarted("transport_error") /\ UNCHANGED sent
     \/ /\ ~late /\ sent' = "flying" /\ pc' = "exec"
        /\ UNCHANGED <<reason, late, ans, seen, kept>>
  /\ UNCHANGED <<link, eof, hand, buf, rc, procs, wrote, stopper>>

(* exec_command raises when the transport is lost.                           *)
Lost == /\ pc' = "stop" /\ reason' = "transport_error"
        /\ UNCHANGED <<late, ans, seen, kept>>

ExecReturns ==
  /\ pc = "exec"
  /\ \/ /\ sent = "arrived" /\ link = "up" /\ pc' = "drain"
        /\ UNCHANGED <<reason, late, ans, seen, kept>>
     \/ link = "down" /\ Lost
  /\ UNCHANGED <<wire, procs, wrote, stopper>>

Reads == Rounds

DrainKeepsAll ==
  LET n == AtMost(buf, Reads) IN
  /\ buf' = buf - n /\ seen' = seen + n /\ kept' = seen + n
  /\ hand' = IF hand = "sent" THEN "read" ELSE hand

(* _drain_available: at most Reads chunks leave the channel; those beyond    *)
(* the budget are counted, not kept.  The first line is the handshake.       *)
DrainChannel ==
  LET n == AtMost(buf, Reads) IN
  /\ buf' = buf - n
  /\ seen' = seen + n
  /\ kept' = AtMost(Budget, seen + n)
  /\ hand' = IF hand = "sent" THEN "read" ELSE hand

(* Reads of a lost transport do not raise: they take what had come before.   *)
Drain ==
  /\ pc = "drain"
  /\ DrainChannel
  /\ pc' = "check"
  /\ UNCHANGED <<reason, late, ans, link, sent, eof, rc, procs, wrote, stopper>>

(* exit_status_ready: the status has come, or the channel is closed, as it   *)
(* is when the transport is lost.                                            *)
Ready == rc \/ link = "down"
Check ==
  /\ pc = "check"
  /\ pc' = IF Ready THEN "final" ELSE "control"
  /\ UNCHANGED <<reason, late, ans, seen, kept, wire, procs, wrote, stopper>>

(* "exited" and a confirmed stop, whatever made the channel ready.           *)
Exited ==
  /\ pc = "final"
  /\ DrainChannel
  /\ Reply("exited", TRUE, TRUE)
  /\ UNCHANGED <<reason, late, link, sent, eof, rc, procs, wrote, stopper>>

(* The probe, then the deadline.                                             *)
ControlOrTime ==
  /\ pc = "control"
  /\ \/ \E r \in Control : reason' = r /\ pc' = "stop"
     \/ late /\ reason' = "timed_out" /\ pc' = "stop"
     \/ ~late /\ pc' = "drain" /\ UNCHANGED reason
  /\ UNCHANGED <<late, ans, seen, kept, wire, procs, wrote, stopper>>

Known == hand = "read"

TakenAsStopped == /\ UNCHANGED <<seen, kept>>
                  /\ Reply(reason, TRUE, TRUE)
                  /\ UNCHANGED <<reason, late>>

(* _stop_remote: without the process group of the handshake, or without a    *)
(* second channel, nothing can be confirmed.                                 *)
Unconfirmed == /\ UNCHANGED <<seen, kept>>
               /\ Reply("stop_unconfirmed", TRUE, FALSE)
               /\ UNCHANGED <<reason, late>>

Stop ==
  /\ pc = "stop"
  /\ \/ Unconfirmed /\ UNCHANGED stopper
     \/ /\ Known /\ link = "up"
        /\ stopper' = "term" /\ pc' = "stopping"
        /\ UNCHANGED <<reason, late, ans, seen, kept>>
  /\ UNCHANGED <<wire, procs, wrote>>

Stopped ==
  /\ pc = "stopping"
  /\ \/ /\ stopper = "ok"
        /\ UNCHANGED <<seen, kept, reason, late>>
        /\ Reply(reason, TRUE, TRUE)
     \/ Unconfirmed
  /\ UNCHANGED <<wire, procs, wrote, stopper>>

WorkerDies ==
  /\ pc \notin {"done", "dead"}
  /\ pc' = "dead"
  /\ link' = IF link = "up" THEN "down" ELSE link
  /\ UNCHANGED <<reason, late, ans, seen, kept, sent, eof, hand, buf, rc, procs,
                 wrote, stopper>>

TimeUp ==
  /\ ~late
  /\ late' = TRUE
  /\ UNCHANGED <<pc, reason, ans, seen, kept, wire, procs, wrote, stopper>>

(* ---------------------------- the transport ------------------------------ *)

(* The transport is lost, and the chunks that had not come with it.          *)
LinkDown ==
  /\ link = "up"
  /\ link' = "down" /\ buf' \in 0..buf
  /\ UNCHANGED <<local, sent, eof, hand, rc, procs, wrote, stopper>>

(* The status of the shell comes, some time after its end.                   *)
StatusComes ==
  /\ shell = "gone" /\ link = "up" /\ ~rc
  /\ pc \notin {"done", "dead"}
  /\ rc' = TRUE
  /\ UNCHANGED <<local, link, sent, eof, hand, buf, procs, wrote, stopper>>

(* The exec request arrives, even if the worker has given up meanwhile.      *)
Arrive ==
  /\ sent = "flying" /\ ~eof
  /\ sent' = "arrived" /\ shell' = "guard"
  /\ UNCHANGED <<local, link, eof, hand, buf, rc, guardian, payload, child, wrote,
                 stopper>>

(* The host learns that the channel is closed: end of file on stdin.         *)
EndOfFile ==
  /\ ~eof /\ sent # "no"
  /\ link = "down" \/ pc \in {"done", "dead"}
  /\ eof' = TRUE
  /\ UNCHANGED <<local, link, sent, hand, buf, rc, procs, wrote, stopper>>

(* ------------------------- the wrapper on the host ----------------------- *)

StartGuardian ==
  /\ shell = "guard"
  /\ guardian' = "watch" /\ shell' = "hand"
  /\ UNCHANGED <<local, wire, payload, child, wrote, stopper>>

Handshake ==
  /\ shell = "hand"
  /\ shell' = "run"
  /\ hand' = IF link = "up" THEN "sent" ELSE hand
  /\ UNCHANGED <<local, link, sent, eof, buf, rc, guardian, payload, child, wrote,
                 stopper>>

StartPayload ==
  /\ shell = "run"
  /\ shell' = "wait" /\ payload' = "running"
  /\ UNCHANGED <<local, wire, guardian, child, wrote, stopper>>

(* What is written after the transport is lost goes nowhere.                 *)
Write ==
  /\ payload = "running" /\ wrote < MaxOut
  /\ wrote' = wrote + 1
  /\ IF link = "up" THEN buf < Window /\ buf' = buf + 1
                    ELSE UNCHANGED buf
  /\ UNCHANGED <<local, link, sent, eof, hand, rc, procs, stopper>>

(* A process the command leaves in the background.                           *)
Fork ==
  /\ payload = "running" /\ child = "none"
  /\ child' = "running"
  /\ UNCHANGED <<local, wire, shell, guardian, payload, wrote, stopper>>

PayloadExits ==
  /\ payload = "running"
  /\ payload' = "gone"
  /\ UNCHANGED <<local, wire, shell, guardian, child, wrote, stopper>>

(* The guardian is killed and the shell exits with the command's status.     *)
ShellExits ==
  /\ shell = "wait" /\ payload = "gone"
  /\ shell' = "gone" /\ guardian' = "gone"
  /\ UNCHANGED <<local, wire, payload, child, wrote, stopper>>

(* TERM to the group: the shell dies, the command and what it left may; the  *)
(* guardian ignores it.  KILL spares nobody.                                 *)
Survives(x) == IF x = "running" THEN {"running", "gone"} ELSE {x}
TermGroup == /\ shell' = "gone" /\ UNCHANGED guardian
             /\ payload' \in Survives(payload) /\ child' \in Survives(child)
KillGroup == /\ shell' = "gone" /\ guardian' = "gone"
             /\ payload' = (IF payload = "running" THEN "gone" ELSE payload)
             /\ child' = (IF child = "running" THEN "gone" ELSE child)

Stirred == eof

GuardianTerm ==
  /\ guardian = "watch" /\ Stirred
  /\ shell' = "gone" /\ guardian' = "sleep"
  /\ payload' \in Survives(payload) /\ child' \in Survives(child)
  /\ UNCHANGED <<local, wire, wrote, stopper>>

GuardianLeaves ==
  /\ guardian = "sleep"
  /\ guardian' = "gone"
  /\ UNCHANGED <<local, wire, shell, payload, child, wrote, stopper>>

GuardianKill ==
  /\ guardian = "sleep"
  /\ KillGroup
  /\ UNCHANGED <<local, wire, wrote, stopper>>

(* --------------------------- the stop script ----------------------------- *)

GroupGone == /\ shell \in {"none", "gone"} /\ guardian \in {"none", "gone"}
             /\ payload # "running" /\ child # "running"

(* TERM if the group is there; the script may also fail at any command.      *)
StopTerm ==
  /\ stopper = "term"
  /\ \/ stopper' = "kill" /\ TermGroup
     \/ stopper' = "fail" /\ UNCHANGED procs
  /\ UNCHANGED <<local, wire, wrote>>

StopKill ==
  /\ stopper = "kill"
  /\ \/ stopper' = "check" /\ KillGroup
     \/ stopper' = "check" /\ UNCHANGED procs   \* a process that cannot be killed
  /\ UNCHANGED <<local, wire, wrote>>

StopTrusts ==
  /\ stopper = "check"
  /\ stopper' = "ok"
  /\ UNCHANGED <<local, wire, procs, wrote>>

StopCheck ==
  /\ stopper = "check"
  /\ stopper' = IF GroupGone THEN "ok" ELSE "fail"
  /\ UNCHANGED <<local, wire, procs, wrote>>

Worker == \/ FirstProbe \/ Connect \/ Exec \/ ExecReturns \/ Drain \/ Check
          \/ Exited \/ ControlOrTime \/ Stop \/ Stopped
Host   == StartGuardian \/ Handshake \/ StartPayload \/ ShellExits
Reaper == GuardianTerm \/ GuardianKill
Script == StopTerm \/ StopKill \/ StopCheck

Next ==
  \/ Worker \/ WorkerDies \/ TimeUp
  \/ LinkDown \/ StatusComes \/ Arrive \/ EndOfFile
  \/ Host \/ Write \/ Fork \/ PayloadExits
  \/ Reaper \/ Script

Spec == Init /\ [][Next]_vars

(* The worker and the host run; time passes; a closed connection is noticed. *)
(* Nothing is assumed of the command: it may write for ever or never end.    *)
Fairness == /\ WF_vars(Worker) /\ WF_vars(TimeUp) /\ WF_vars(Arrive)
            /\ WF_vars(EndOfFile) /\ WF_vars(Host) /\ WF_vars(Reaper)
            /\ WF_vars(Script)

FairSpec == Spec /\ Fairness

(* ------------------------------ properties ------------------------------- *)

(* The types of the variables.                                               *)
TypeOK ==
  /\ pc \in {"probe", "connect", "open", "exec", "drain", "check", "final",
             "control", "stop", "stopping", "done", "dead"}
  /\ reason \in Control \cup {"none", "timed_out", "transport_error"}
  /\ late \in BOOLEAN /\ eof \in BOOLEAN
  /\ ans \in Answers /\ rc \in BOOLEAN
  /\ seen \in Nat /\ kept \in 0..Budget /\ buf \in 0..Window /\ wrote \in Nat
  /\ link \in {"none", "up", "down"} /\ sent \in {"no", "flying", "arrived"}
  /\ hand \in {"none", "sent", "read"}
  /\ shell \in {"none", "guard", "hand", "run", "wait", "gone"}
  /\ guardian \in {"none", "watch", "sleep", "gone"}
  /\ payload \in {"none", "running", "gone"} /\ child \in {"none", "running", "gone"}
  /\ stopper \in {"none", "term", "kill", "check", "ok", "fail"}

Answered == IF ans.term = "none" THEN "none"
            ELSE IF ~ans.started THEN "refused"
            ELSE IF ans.term = "exited"
            THEN IF ans.status = TRUE THEN "exited" ELSE "silent"
            ELSE IF ans.confirmed THEN "stopped" ELSE "unknown"

Promise == INSTANCE CommandPromise
             WITH ran <- payload # "none", alive <- payload = "running",
                  answer <- Answered

(* The runner keeps the promise of CommandPromise: an answer "not started",  *)
(* "exited" with a status or "stopped" is only given of a command that does  *)
(* not run and never will, though the exec request may overtake a lost       *)
(* acknowledgement.  "exited" with code -1 is no such answer: it is also     *)
(* that of a lost transport, and the command may run on.                     *)
KeepsPromise == Promise!Spec

(* "cancelled (and other control terminations) is returned only after the    *)
(* second channel confirms that the process group no longer exists"          *)
(* (ssh_runner.py:438): the whole group, with what the command left in the   *)
(* background and the guardian, is gone then and stays gone.                 *)
ConfirmedMeansGone ==
  ans.term \in Control \cup {"timed_out", "transport_error"} /\ ans.started
    => GroupGone

(* Output that was not returned is reported as cut off: a command that had   *)
(* written more than was kept is never answered "exited" without the flag,   *)
(* though the last drain may leave chunks in the channel.                    *)
CutIsTold == ans.term = "exited" /\ link = "up" /\ wrote > kept => ans.told

(* Every call answers unless its worker dies, whatever the command does; and *)
(* "the remote wrapper treats SSH stdin EOF as loss of its supervising       *)
(* worker and reaps the process group" (ssh_runner.py:8): once the worker    *)
(* has answered, died or lost the host, the command does not run for ever,   *)
(* even if it ignores TERM.                                                  *)
Settled == pc \in {"done", "dead"} /\ payload # "running"
CallEnds == []<>Settled

(* Both: what an answer says of the command is true.                         *)
AnswersAreTrue == ConfirmedMeansGone /\ CutIsTold
=============================================================================
