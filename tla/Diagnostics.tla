---------------------------- MODULE Diagnostics ----------------------------
(***************************************************************************)
(* One read-only diagnosis: DiagnosticService.start and cancel over the    *)
(* rows in MySQL (diagnostics.py), the probes of its profile one after the *)
(* other (diagnostic_adapters.py), and each probe's command on the hosts   *)
(* one after the other (assets/batch_service.py).  A cancel and a change   *)
(* of grants come from other requests at any time; nothing but a flag in   *)
(* the row tells the diagnosis of them.                                    *)
(***************************************************************************)
EXTENDS Naturals, FiniteSets

CONSTANTS
  Host,      \* the targets
  Probes,    \* number of probes in the profile
  Budget,    \* probes whose output fits in max_total_chars
  Canceller  \* requests that cancel

DiagnosisAssumption == Probes \in Nat

VARIABLES
  run,      \* t_ai_diagnostic_run: status, cancel_requested and event counter
  report,   \* t_ai_diagnostic_report.status, "none" before it is saved
  evidence, \* t_ai_diagnostic_evidence
  granted,  \* the owner may use the hosts with the system user
  present,  \* the hosts exist
  work,     \* where the diagnosis is
  probe,    \* probes begun
  todo,     \* hosts the present probe has not reached
  items,    \* what was collected and is not stored yet
  heard,    \* what the last should_cancel found
  ask,      \* where each cancelling request is
  early,    \* a cancel was recorded before the last probe was over (history)
  overrun   \* probes begun after a cancel (history)

vars == <<run, report, evidence, granted, present, work, probe, todo, items,
          heard, ask, early, overrun>>
inputs == <<granted, present, ask, early>>

-----------------------------------------------------------------------------
TERMINAL_STATUSES == {"completed", "partial", "failed", "cancelled",
                      "interrupted"}
Item == [host : Host, probe : 1 .. Probes, ok : BOOLEAN]

Emits(s) == run' = [run EXCEPT !.status = s, !.seq = @ + 1]
Emit     == Emits(run.status)

\* The row that create_run inserts; no event has been written for it.
Created == [status |-> "queued", cancel |-> FALSE, seq |-> 0]
\* _targets: each host is there and the owner may use it with the system user.
TargetsValid == granted = TRUE /\ present = TRUE

Init ==
  /\ run = Created /\ TargetsValid
  /\ report = "none" /\ evidence = {} /\ items = {}
  /\ work = "created" /\ probe = 0 /\ todo = {}
  /\ heard = "go"
  /\ ask = [c \in Canceller |-> "idle"]
  /\ early = FALSE /\ overrun = 0

\* update_run(status="running") does not look at what the row says by now.
Start ==
  /\ work = "created"
  /\ Emits("running")
  /\ work' = "check"
  /\ UNCHANGED <<report, evidence, probe, todo, items, heard, overrun, inputs>>

\* should_cancel: the flag first, then the grants.
Heard == IF run.cancel THEN "cancel" ELSE IF ~granted THEN "denied" ELSE "go"

AllDone    == probe = Probes \/ probe >= Budget
\* Before each probe the budget and should_cancel are asked.
Check ==
  /\ work = "check"
  /\ IF AllDone
     THEN work' = "store" /\ UNCHANGED heard
     ELSE /\ heard' = Heard
          /\ work' = IF Heard = "go" THEN "begin" ELSE "store"
  /\ UNCHANGED <<run, report, evidence, probe, todo, items, overrun, inputs>>

\* execute_batch_command: the hosts must still exist, the grants are not asked
\* for again.
Begin ==
  /\ work = "begin"
  /\ probe' = probe + 1
  /\ overrun' = IF run.cancel THEN overrun + 1 ELSE overrun
  /\ IF present THEN todo' = Host /\ work' = "probe"
                ELSE UNCHANGED todo /\ work' = "broken"
  /\ UNCHANGED <<run, report, evidence, items, heard, inputs>>

\* One host: the command succeeds, fails or times out, and the progress of the
\* host is written to the row and announced.
Command ==
  /\ work = "probe"
  /\ \E h \in todo, ok \in BOOLEAN :
       /\ todo' = todo \ {h}
       /\ items' = items \cup {[host |-> h, probe |-> probe, ok |-> ok]}
       /\ Emit
       /\ work' = IF todo = {h} THEN "check" ELSE "probe"
  /\ UNCHANGED <<report, evidence, probe, heard, overrun, inputs>>

\* A command need not come back: _read_with_select watches the clock between
\* its reads only, and recv and recv_exit_status wait for the remote side as
\* long as its output stays open.  It may still end, or its connection break.
Hang ==
  /\ work = "probe"
  /\ work' = "hung"
  /\ UNCHANGED <<run, report, evidence, probe, todo, items, heard, overrun,
                 inputs>>
Return ==
  /\ work = "hung"
  /\ work' = "probe"
  /\ UNCHANGED <<run, report, evidence, probe, todo, items, heard, overrun,
                 inputs>>

\* The progress cannot be written: the exception ends the collection.
BreakDown ==
  /\ work = "probe"
  /\ work' = "broken"
  /\ UNCHANGED <<run, report, evidence, probe, todo, items, heard, overrun,
                 inputs>>

AddEvidence(i)  == evidence' = evidence \cup {i}
\* save_report: there is one report for each run, written over.
WriteReport(st) == report' = st

\* One row and one event for each item.
Store ==
  /\ work = "store"
  /\ \/ \E i \in items \ evidence :
          /\ AddEvidence(i)
          /\ Emit
          /\ UNCHANGED <<work, heard>>
     \/ /\ items \subseteq evidence
        /\ heard' = IF heard = "denied" THEN "denied" ELSE Heard
        /\ work' = "report"
        /\ UNCHANGED <<run, evidence>>
  /\ UNCHANGED <<report, probe, todo, items, overrun, inputs>>

\* The outcome: every target with evidence, all of it successful.
Good    == {h \in Host : /\ \E i \in evidence : i.host = h
                         /\ \A i \in evidence : i.host = h => i.ok}
Deaf ==  \* mutant: what should_cancel found at the end is ignored
  IF heard = "denied" THEN "interrupted"
  ELSE IF Good = Host THEN "completed"
  ELSE IF Good = {} THEN "failed" ELSE "partial"
Outcome ==
  IF heard = "denied" THEN "interrupted"
  ELSE IF heard = "cancel" THEN "cancelled"
  ELSE IF Good = Host THEN "completed"
  ELSE IF Good = {} THEN "failed" ELSE "partial"

SaveReport ==
  /\ work = "report"
  /\ WriteReport(Outcome)
  /\ work' = "close"
  /\ UNCHANGED <<run, evidence, probe, todo, items, heard, overrun, inputs>>

\* The status is written over whatever is in the row, then announced.
Close ==
  /\ work = "close"
  /\ Emits(Outcome)
  /\ work' = "ended"
  /\ UNCHANGED <<report, evidence, probe, todo, items, heard, overrun, inputs>>

\* The collection raised: the report, the status and the event of a failure.
Fail ==
  /\ work = "broken"
  /\ WriteReport("failed")
  /\ work' = "failing"
  /\ UNCHANGED <<run, evidence, probe, todo, items, heard, overrun, inputs>>
CloseFailed ==
  /\ work = "failing"
  /\ Emits("failed")
  /\ work' = "ended"
  /\ UNCHANGED <<report, evidence, probe, todo, items, heard, overrun, inputs>>

\* Any other error is raised to the caller, and a process may die: the row
\* stays as it is.
Abandon ==
  /\ work \notin {"ended", "gone"}
  /\ work' = "gone"
  /\ UNCHANGED <<run, report, evidence, probe, todo, items, heard, overrun,
                 inputs>>

Diagnose == Start \/ Check \/ Begin \/ Command \/ BreakDown \/ Store
            \/ SaveReport \/ Close \/ Fail \/ CloseFailed

-----------------------------------------------------------------------------
\* cancel reads the run under its owner's grants and stops if it has ended;
\* then it writes.
ReadRun(c) ==
  /\ ask[c] = "idle" /\ granted
  /\ ask' = [ask EXCEPT ![c] = IF run.status \in TERMINAL_STATUSES
                               THEN "done" ELSE "write"]
  /\ UNCHANGED <<run, report, evidence, granted, present, work, probe, todo,
                 items, heard, early, overrun>>

Cancelled ==
  run' = [run EXCEPT !.status = "cancelled", !.cancel = TRUE, !.seq = @ + 1]
Cancel(c) ==
  /\ ask[c] = "write"
  /\ Cancelled
  /\ ask' = [ask EXCEPT ![c] = "done"]
  /\ early' = (early \/ work \in {"created", "check", "begin", "probe", "hung"})
  /\ UNCHANGED <<report, evidence, granted, present, work, probe, todo, items,
                 heard, overrun>>

\* An administrator changes the grants, or deletes a host.
Regrant ==
  /\ granted' = ~granted
  /\ UNCHANGED <<run, report, evidence, present, work, probe, todo, items,
                 heard, ask, early, overrun>>
DropHost ==
  /\ present /\ present' = FALSE
  /\ UNCHANGED <<run, report, evidence, granted, work, probe, todo, items,
                 heard, ask, early, overrun>>

Next == \/ Diagnose \/ Hang \/ Return \/ Abandon
        \/ \E c \in Canceller : ReadRun(c) \/ Cancel(c)
        \/ Regrant \/ DropHost

\* A diagnosis that is not abandoned goes on, but for a command that hangs:
\* nothing makes it return.
Spec == Init /\ [][Next]_vars /\ WF_vars(Diagnose)
-----------------------------------------------------------------------------
TypeOK ==
  /\ run.status \in TERMINAL_STATUSES \cup {"queued", "running"}
  /\ run.cancel \in BOOLEAN /\ run.seq \in Nat
  /\ report \in TERMINAL_STATUSES \cup {"none"}
  /\ evidence \subseteq items /\ items \in SUBSET Item
  /\ granted \in BOOLEAN /\ present \in BOOLEAN /\ early \in BOOLEAN
  /\ work \in {"created", "check", "begin", "probe", "hung", "store", "report",
               "close", "broken", "failing", "ended", "gone"}
  /\ probe \in 0 .. Probes /\ overrun \in 0 .. Probes
  /\ todo \in SUBSET Host
  /\ heard \in {"go", "cancel", "denied"}
  /\ ask \in [Canceller -> {"idle", "write", "done"}]

\* A cancel is asked for before each probe and never within one: of the probes
\* begun after it there is at most one, the one whose check was over.
OneProbeAfterCancel == overrun <= 1

\* A cancel recorded while probes were still to come is not forgotten: the
\* diagnosis does not end as completed or partial.
EarlyCancelCounts ==
  (work = "ended" /\ early) => run.status \notin {"completed", "partial"}

\* What the row says at the end rests on what is stored: completed means that
\* every host has evidence and none of it failed, partial that some host does,
\* unless a cancel came in while the result was written.
StatusRestsOnEvidence ==
  (work = "ended" /\ ~run.cancel) =>
    /\ run.status = "completed" => \A h \in Host :
         /\ \E i \in evidence : i.host = h
         /\ \A i \in evidence : i.host = h => i.ok
    /\ run.status = "partial" => \E i \in evidence : ~i.ok
    /\ report = run.status

\* A diagnosis that no error and no crash cuts off, and none of whose commands
\* hangs, ends in a terminal status.
Settled == work \in {"gone", "hung"} \/ run.status \in TERMINAL_STATUSES
DiagnosisEnds == []<>Settled

\* docs/ai/DIAGNOSTICS.md:102 "queued -> running -> completed | partial | failed |
\* cancelled": a run that has ended keeps its status.
TerminalStays ==
  [][run.status \in TERMINAL_STATUSES => run'.status = run.status]_vars

\* All of this: the diagnosis tells what it did and found.
DiagnosisIsTrue == OneProbeAfterCancel /\ EarlyCancelCounts /\ StatusRestsOnEvidence
=============================================================================
