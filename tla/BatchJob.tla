------------------------------ MODULE BatchJob ------------------------------
(***************************************************************************)
(* Batch operations of the asset pages on several hosts: a command, a      *)
(* script or an upload (src/backend/app/assets/batch_service.py), over the *)
(* SSH connection of src/backend/app/tools/shellcmd.py.                    *)
(*                                                                         *)
(* A job takes its hosts one after the other and records them all at its   *)
(* end.  Hosts refuse connections, connections are lost, the disk is full, *)
(* remote commands fail or never end, the audit row is not written.  What  *)
(* a command prints is left out, but for whether its output has ended and  *)
(* whether something waits on its error stream: a connection has one       *)
(* descriptor for the two, and recv takes from the output alone.           *)
(***************************************************************************)
EXTENDS Naturals, FiniteSets

CONSTANTS Jobs, Hosts,   \* hosts are numbers, a job has the first n
          Requests,      \* what the jobs may be asked for, together
          Name           \* the file name that all uploads have

Kinds == {"none", "command", "script", "upload"}
\* of remote commands: "errors" writes to its error stream, "lingers" leaves a
\* child that holds its output, "detaches" closes its output before it ends,
\* "floods" writes more than SSH_CMD_MAX_OUTPUT_BYTES
Habits == {"errors", "lingers", "detaches", "floods"}

BatchAssumption ==
  /\ Hosts \subseteq Nat \ {0} /\ (\A n \in Hosts : 1..n \subseteq Hosts)
  /\ Name \notin Jobs
  /\ Requests \subseteq [Jobs -> [kind : Kinds, n : Hosts, habits : SUBSET Habits]]

Outcomes == {"none", "success", "failed"}
Paths == Jobs \cup {Name}
Contents == Jobs \cup {"part", "none"}

VARIABLES
  job,     \* what each job was asked for
  pc,      \* where it is
  host,    \* with which of its hosts
  link,    \* its connection is up
  late,    \* the time for the read has passed
  item,    \* what it says of each host
  row,     \* the audit rows of each host
  unwritten, \* hosts whose row could not be written
  lost,    \* hosts whose connection broke
  proc,    \* the remote command of each job on each host
  ran,     \* the script it interpreted there
  file     \* what is under each path of /tmp of each host

vars == <<job, pc, host, link, late, item, row, unwritten, lost, proc, ran, file>>
conn == <<link, late, lost>>
told == <<row, unwritten>>

NoProc == [out |-> "open", err |-> FALSE, exit |-> "none"]
Procs == [out : {"open", "flood", "eof"}, err : BOOLEAN, exit : {"none", "no", "zero", "nonzero"}]
Places == {"connect", "put", "write", "exec", "read1", "recv1", "read2", "recv2",
           "status", "clean", "close", "audit", "done"}

TypeOK ==
  /\ job \in Requests /\ pc \in [Jobs -> Places]
  /\ host \in [Jobs -> Hosts] /\ link \in [Jobs -> BOOLEAN] /\ late \in [Jobs -> BOOLEAN]
  /\ item \in [Jobs -> [Hosts -> Outcomes]] /\ row \in [Jobs -> [Hosts -> Outcomes]]
  /\ unwritten \in [Jobs -> SUBSET Hosts] /\ lost \in [Jobs -> SUBSET Hosts]
  /\ proc \in [Jobs -> [Hosts -> Procs]]
  /\ ran \in [Jobs -> [Hosts -> Contents]]
  /\ file \in [Hosts -> [Paths -> Contents]]

Init ==
  /\ job \in Requests
  /\ pc = [j \in Jobs |-> IF job[j].kind = "none" THEN "done" ELSE "connect"]
  /\ host = [j \in Jobs |-> 1]
  /\ link = [j \in Jobs |-> FALSE] /\ late = [j \in Jobs |-> FALSE]
  /\ item = [j \in Jobs |-> [h \in Hosts |-> "none"]]
  /\ row = [j \in Jobs |-> [h \in Hosts |-> "none"]]
  /\ unwritten = [j \in Jobs |-> {}] /\ lost = [j \in Jobs |-> {}]
  /\ proc = [j \in Jobs |-> [h \in Hosts |-> NoProc]]
  /\ ran = [j \in Jobs |-> [h \in Hosts |-> "none"]]
  /\ file = [h \in Hosts |-> [p \in Paths |-> "none"]]

-----------------------------------------------------------------------------
(* One host of a job                                                       *)

Goto(j, place) == pc' = [pc EXCEPT ![j] = place]
Say(j, outcome) == item' = [item EXCEPT ![j][host[j]] = outcome]
P(j) == proc[j][host[j]]

\* mutant: named after what was uploaded
ByName(j) == Name
\* remote_path: a script has a name of its own, an upload that of its file
remote_path(j) == IF job[j].kind = "script" THEN j ELSE Name

\* on to the next host, or to the audit
NextHost(j) ==
  IF host[j] < job[j].n
    THEN Goto(j, "connect") /\ host' = [host EXCEPT ![j] = @ + 1]
    ELSE Goto(j, "audit") /\ host' = [host EXCEPT ![j] = 1]

\* the finally clause
AfterRun(j, outcome) == IF job[j].kind = "script" THEN "clean" ELSE "close"
Result(j, outcome) == Say(j, outcome) /\ Goto(j, AfterRun(j, outcome))

\* what was put there is run if it is a script; an upload is over with it
AfterUpload(j) ==
  IF job[j].kind = "script" THEN Goto(j, "exec") /\ UNCHANGED item ELSE Result(j, "success")

\* RemoteConnectionAuto.__init__
Connect(j) ==
  /\ pc[j] = "connect"
  /\ link' = [link EXCEPT ![j] = TRUE]
  /\ Goto(j, IF job[j].kind = "command" THEN "exec" ELSE "put")
  /\ UNCHANGED <<job, host, late, item, told, lost, proc, ran, file>>

ConnectFails(j) ==
  /\ pc[j] = "connect"
  /\ Say(j, "failed")
  /\ NextHost(j)
  /\ UNCHANGED <<job, conn, told, proc, ran, file>>

\* put_fileobj: the remote file is emptied, then written
Put(j) ==
  /\ pc[j] = "put" /\ link[j]
  /\ file' = [file EXCEPT ![host[j]][remote_path(j)] = "part"]
  /\ Goto(j, "write")
  /\ UNCHANGED <<job, host, conn, item, told, proc, ran>>

Written(j) ==
  /\ pc[j] = "write" /\ link[j]
  /\ file' = [file EXCEPT ![host[j]][remote_path(j)] = j]
  /\ AfterUpload(j)
  /\ UNCHANGED <<job, host, conn, told, proc, ran>>

PutFails(j) ==
  /\ pc[j] \in {"put", "write"}
  /\ Result(j, "failed")
  /\ UNCHANGED <<job, host, conn, told, proc, ran, file>>

\* exec_command, of the command or of the interpreter with the script
Exec(j) ==
  /\ pc[j] = "exec" /\ link[j]
  /\ proc' = [proc EXCEPT ![j][host[j]].exit = "no"]
  /\ ran' = [ran EXCEPT ![j][host[j]] =
               IF job[j].kind = "script" THEN file[host[j]][remote_path(j)] ELSE @]
  /\ late' = [late EXCEPT ![j] = FALSE]
  /\ Goto(j, "read1")
  /\ UNCHANGED <<job, host, link, lost, item, told, file>>

ExecFails(j) ==
  /\ pc[j] = "exec"
  /\ Result(j, "failed")
  /\ UNCHANGED <<job, host, conn, told, proc, ran, file>>

-----------------------------------------------------------------------------
(* _read_with_select, for the output and then for the error stream: both   *)
(* are the one channel                                                     *)

Reading(j) == pc[j] \in {"read1", "read2"}
Receiving(j) == pc[j] \in {"recv1", "recv2"}

Late(j) ==
  /\ (Reading(j) \/ Receiving(j)) /\ ~late[j]
  /\ late' = [late EXCEPT ![j] = TRUE]
  /\ UNCHANGED <<job, pc, host, link, item, told, lost, proc, ran, file>>

TimesOut(j) ==
  /\ Reading(j) /\ late[j]
  /\ Result(j, "failed")
  /\ UNCHANGED <<job, host, conn, told, proc, ran, file>>

Ready(j) == P(j).out # "open" \/ P(j).err \/ P(j).exit # "no" \/ ~link[j]
Selected(j) ==
  /\ Reading(j) /\ ~late[j] /\ Ready(j)
  /\ Goto(j, IF pc[j] = "read1" THEN "recv1" ELSE "recv2")
  /\ UNCHANGED <<job, host, conn, item, told, proc, ran, file>>

\* recv waits for output or its end, and has no time limit; the read is over
\* with the end, or once it has as much as it keeps
Received(j) ==
  /\ Receiving(j) /\ (P(j).out # "open" \/ ~link[j])
  /\ Goto(j, IF pc[j] = "recv1" THEN "read2" ELSE "status")
  /\ late' = [late EXCEPT ![j] = FALSE]
  /\ UNCHANGED <<job, host, link, lost, item, told, proc, ran, file>>

Told(j) == IF P(j).exit = "zero" THEN "success" ELSE "failed"

\* recv_exit_status waits too; without a connection the status is -1
Status(j) ==
  /\ pc[j] = "status" /\ (P(j).exit # "no" \/ ~link[j])
  /\ Result(j, Told(j))
  /\ UNCHANGED <<job, host, conn, told, proc, ran, file>>

\* rm -f of the script, whose own failure is ignored
Clean(j) ==
  /\ pc[j] = "clean"
  /\ file' = IF link[j] THEN [file EXCEPT ![host[j]][remote_path(j)] = "none"] ELSE file
  /\ Goto(j, "close")
  /\ UNCHANGED <<job, host, conn, item, told, proc, ran>>

Close(j) ==
  /\ pc[j] = "close"
  /\ link' = [link EXCEPT ![j] = FALSE]
  /\ NextHost(j)
  /\ UNCHANGED <<job, late, lost, item, told, proc, ran, file>>

\* an upload has one row for all of its targets
Rows(j) == IF job[j].kind = "upload" THEN 1..job[j].n ELSE {host[j]}

\* _write_target_command_audits: one row for each target.  safe_db_write: a row that is not written stops nothing.
Audit(j) ==
  /\ pc[j] = "audit"
  /\ LET rows == Rows(j) IN
     \/ /\ row' = [row EXCEPT ![j] = [h \in Hosts |-> IF h \in rows THEN item[j][h] ELSE @[h]]]
        /\ UNCHANGED unwritten
     \/ unwritten' = [unwritten EXCEPT ![j] = @ \cup rows] /\ UNCHANGED row
  /\ IF job[j].kind # "upload" /\ host[j] < job[j].n
       THEN host' = [host EXCEPT ![j] = @ + 1] /\ UNCHANGED pc
       ELSE Goto(j, "done") /\ UNCHANGED host
  /\ UNCHANGED <<job, conn, item, proc, ran, file>>

-----------------------------------------------------------------------------
(* The hosts                                                               *)

Lose(j) ==
  /\ link[j] /\ pc[j] # "close"
  /\ link' = [link EXCEPT ![j] = FALSE] /\ lost' = [lost EXCEPT ![j] = @ \cup {host[j]}]
  /\ UNCHANGED <<job, pc, host, late, item, told, proc, ran, file>>

\* the remote command, as long as its connection is there to tell
Alive(j) == link[j] /\ pc[j] \in {"read1", "recv1", "read2", "recv2", "status"}
Becomes(j, p) ==
  /\ p # P(j)
  /\ proc' = [proc EXCEPT ![j][host[j]] = p]
  /\ UNCHANGED <<job, pc, host, conn, item, told, ran, file>>

Exits(j) ==
  /\ Alive(j) /\ P(j).exit = "no"
  /\ \E e \in {"zero", "nonzero"}, o \in {"eof"} \cup (IF "lingers" \in job[j].habits THEN {P(j).out} ELSE {}) :
       Becomes(j, [P(j) EXCEPT !.exit = e, !.out = o])
Complains(j) ==
  /\ Alive(j) /\ "errors" \in job[j].habits /\ P(j).exit = "no"
  /\ Becomes(j, [P(j) EXCEPT !.err = TRUE])
Writes(j) ==
  /\ Alive(j) /\ P(j).exit = "no" /\ P(j).out = "open"
  /\ \/ "detaches" \in job[j].habits /\ Becomes(j, [P(j) EXCEPT !.out = "eof"])
     \/ "floods" \in job[j].habits /\ Becomes(j, [P(j) EXCEPT !.out = "flood"])

-----------------------------------------------------------------------------

Step(j) ==
  \/ Connect(j) \/ ConnectFails(j) \/ Put(j) \/ Written(j) \/ PutFails(j)
  \/ Exec(j) \/ ExecFails(j) \/ Selected(j) \/ TimesOut(j) \/ Received(j) \/ Status(j)
  \/ Clean(j) \/ Close(j) \/ Audit(j)
Remote(j) == Lose(j) \/ Exits(j) \/ Complains(j) \/ Writes(j)

Ended == (\A j \in Jobs : pc[j] = "done") /\ UNCHANGED vars

Next == Ended \/ \E j \in Jobs : Step(j) \/ Late(j) \/ Remote(j)

Spec == Init /\ [][Next]_vars

\* jobs are greenlets of one server, and clocks run; hosts owe nothing
FairSpec == Spec /\ \A j \in Jobs : WF_vars(Step(j)) /\ WF_vars(Late(j))

-----------------------------------------------------------------------------
(* Properties                                                              *)

\* What a job interprets on a host is the script it was given, whole, also
\* when others run scripts or upload files there (remote_path).
ScriptRunsItsOwn == \A j \in Jobs, h \in Hosts : ran[j][h] \in {j, "none"}

\* When a job is over, none of its scripts is left on a host that could be
\* reached to the end: not after a failed upload, nor after a script that
\* failed or timed out (the finally clause of execute_batch_script).
NoScriptLeft ==
  \A j \in Jobs, h \in Hosts :
    (pc[j] = "done" /\ job[j].kind = "script" /\ h \notin lost[j]) => file[h][j] = "none"

\* A host is called successful only if its command ended there with status
\* zero, and not because the transport did its part (ssh_cmd).
SuccessMeansZero ==
  \A j \in Jobs, h \in Hosts :
    (item[j][h] = "success" /\ job[j].kind # "upload") => proc[j][h].exit = "zero"

\* When a job is over, every host where it started something has its audit
\* row, and the row says what the caller was told, whatever failed on the
\* hosts before and after it; only the write of the row itself can fail.
EveryTargetTold ==
  \A j \in Jobs : (pc[j] = "done" /\ job[j].kind # "none") =>
    \A h \in 1..job[j].n : h \in unwritten[j] \/ (row[j][h] = item[j][h] /\ row[j][h] # "none")

\* A job answers, though commands hang, hosts refuse and connections break:
\* each read has its deadline (_read_with_select).
JobEnds == \A j \in Jobs : <>(pc[j] = "done")

\* It does where commands write to their output only, not too much, and end
\* with it.
Settled == \A j \in Jobs : job[j].habits = {} => pc[j] = "done"
QuietJobEnds == []<>Settled

\* All of this but the end: what a job does and tells is what was asked for.
JobIsHonest ==
  ScriptRunsItsOwn /\ NoScriptLeft /\ SuccessMeansZero /\ EveryTargetTold
=============================================================================
