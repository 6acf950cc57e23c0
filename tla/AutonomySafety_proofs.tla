------------------------- MODULE AutonomySafety_proofs -------------------------
EXTENDS AutonomyRun_proofs

(***************************************************************************)
(* What AutonomyRun promises about writes, consent and plans, for every    *)
(* number of workers, sessions, plans and actions of a plan.               *)
(*                                                                         *)
(* Writes.  None of it rests on the lease alone: a worker may lose its     *)
(* claim between the commit of the write intent and exec_command, and      *)
(* launch all the same.  What holds is that the intent is declared once    *)
(* (only an approved step begins, and a step with an intent is never       *)
(* approved again), so one worker at most stands before the launch of a    *)
(* write (Declared, InHand); and that while a write is running or has an   *)
(* unknown outcome, no session can commit a status, and whoever owns the   *)
(* Run is at one of five places, none of which begins, plans or completes  *)
(* anything (Watched).                                                     *)
(*                                                                         *)
(* Consent.  An authorised plan is a consented one, and only an authorised *)
(* plan is expanded (Consented).                                           *)
(*                                                                         *)
(* Plans.  One plan is open at a time, a Run with an undecided plan is     *)
(* parked, and a decision that can still commit finds its plan waiting,    *)
(* under review or expired, with nobody about to start it (Plans).         *)
(*                                                                         *)
(* The promise.  A Run is called cancelled only when that was asked for    *)
(* (AskedFirst), a Run that is with a person is out of reach of sessions   *)
(* and drives (LeftToPerson), and so every step is one of RunPromise.      *)
(***************************************************************************)

\* A write that has begun and whose outcome is not settled.
OpenStatus == {"running", "outcome_unknown"}
Started    == OpenStatus \cup TerminalStep
OpenWrites == {s \in WriteStep : step[s] \in OpenStatus}

\* What the rows, the event log and the host say of the writes.
Declared ==
  /\ \A s \in WriteStep : launches[s] > 0 => s \in intent
  /\ \A s \in WriteStep : launches[s] <= 1
  /\ \A s \in intent : step[s] \in Started
  /\ OpenWrites \subseteq intent
  /\ \A s \in remote : launches[s] > 0
  /\ \A s \in remote :
       s \in OpenWrites \/ (s \in silent /\ step[s] = "failed")

\* A worker that stands before the launch of a write, or waits for its end, with
\* its claim or without: the write is declared.  Before the launch it has not
\* been launched, its outcome is open, and nobody else stands there.
AtHost == {"launch", "remote"}
Launching(w) == drive[w].pc = "launch" /\ drive[w].at \in WriteStep
InHand ==
  /\ \A w \in Worker :
       drive[w].pc \in AtHost /\ drive[w].at \in WriteStep =>
         drive[w].at \in intent
  /\ \A w \in Worker : Launching(w) => /\ launches[drive[w].at] = 0
                                       /\ step[drive[w].at] \in OpenStatus
  /\ \A w \in Worker :
       drive[w].pc = "remote" /\ drive[w].at \in WriteStep =>
         launches[drive[w].at] > 0
  /\ \A v, w \in Worker :
       Launching(v) /\ Launching(w) /\ drive[v].at = drive[w].at => v = w

Writes1 == Typed /\ Declared /\ InHand

USE DEF AtHost

-----------------------------------------------------------------------------
\* Every action but BeginStep and Launch.  It declares and launches nothing;
\* a write that has not started may be approved or cancelled, an open one may
\* become unknown, or be settled when nobody is about to launch it and it is off
\* the host or failed by a lost transport; and nobody comes to stand before a launch.

MovesAside(s) ==
  \/ step'[s] = step[s]
  \/ step[s] \notin Started /\ step'[s] \in {"approved", "cancelled"}
  \/ step[s] \in OpenStatus /\ step'[s] = "outcome_unknown"
  \/ /\ step[s] \in OpenStatus /\ step'[s] \in TerminalStep
     /\ s \in remote' => s \in silent' /\ step'[s] = "failed"
     /\ \A w \in Worker : drive'[w].pc = "launch" => drive'[w].at # s

StillAtHost(w) ==
  drive'[w].pc \in AtHost =>
    drive[w].pc = drive'[w].pc /\ drive'[w].at = drive[w].at

Aside ==
  /\ intent' = intent /\ launches' = launches
  /\ remote' \subseteq remote /\ silent \subseteq silent'
  /\ \A s \in WriteStep : MovesAside(s)
  /\ \A w \in Worker : StillAtHost(w)

\* A write is an action of a plan, so neither a plan nor an observation.
LEMMA WritesAreActions ==
  /\ WriteStep \subseteq PlanAction
  /\ WriteStep \subseteq StepId
  /\ \A s \in WriteStep : s \notin Plan /\ s \notin Observation
<1>1. WriteStep \subseteq PlanAction
  BY ConstantsAssumption DEF WriteStep, PlanAction
<1> QED
  BY <1>1, NamesAssumption DEF StepId

\* An action that leaves the writes alone and changes one worker.
LEMMA AsideByWorker ==
  ASSUME Typed, NEW w \in Worker, NEW d, d.pc \notin AtHost,
         drive' = [drive EXCEPT ![w] = d],
         intent' = intent, launches' = launches, remote' \subseteq remote,
         silent \subseteq silent', \A s \in WriteStep : MovesAside(s)
  PROVE  Aside
<1>1. drive \in [Worker -> Drive]
  BY DEF Typed, DrivesTyped
<1>2. ASSUME NEW v \in Worker
      PROVE  StillAtHost(v)
  BY <1>1 DEF StillAtHost
<1> QED
  BY <1>2 DEF Aside

\* The moves of the graph: the worker comes to a node, or stops.
LEMMA AsideByMove ==
  ASSUME Typed, NEW w \in Worker,
         \/ StopDriving(w)
         \/ \E c : MoveTo(w, c) \/ Rebuild(w, c) \/ LeavePause(w, c)
         \/ Resume(w)
         \/ \E n \in Phase \ AtHost : drive' = [drive EXCEPT ![w].pc = n],
         intent' = intent, launches' = launches, remote' \subseteq remote,
         silent \subseteq silent', \A s \in WriteStep : MovesAside(s)
  PROVE  Aside
<1>1. drive[w] \in Drive
  BY CursorTyped DEF Typed
<1>2. ASSUME StopDriving(w)
      PROVE  Aside
  <2>1. Idle.pc \notin AtHost /\ drive' = [drive EXCEPT ![w] = Idle]
    BY <1>2 DEF Idle, StopDriving
  <2> QED
    BY <2>1, AsideByWorker
<1>3. ASSUME NEW c, MoveTo(w, c)
      PROVE  Aside
  <2> DEFINE d == [pc |-> "graph", cur |-> c, saved |-> FALSE, at |-> None]
  <2>1. d.pc \notin AtHost /\ drive' = [drive EXCEPT ![w] = d]
    BY <1>3 DEF MoveTo
  <2> QED
    BY <2>1, AsideByWorker
<1>4. ASSUME NEW c, Rebuild(w, c)
      PROVE  Aside
  <2> DEFINE d == [pc |-> "rebuild", cur |-> c, saved |-> FALSE, at |-> None]
  <2>1. d.pc \notin AtHost /\ drive' = [drive EXCEPT ![w] = d]
    BY <1>4 DEF Rebuild
  <2> QED
    BY <2>1, AsideByWorker
<1>5. ASSUME NEW c, LeavePause(w, c)
      PROVE  Aside
  <2> DEFINE d == IF StillWaiting(c)
                  THEN [pc |-> "settle", cur |-> c, saved |-> TRUE,
                        at |-> None]
                  ELSE [pc |-> "graph", saved |-> FALSE, at |-> None,
                        cur |-> [c EXCEPT !.node = "execute",
                                          !.skip = ~Decided(c)]]
  <2>1. d.pc \notin AtHost
    OBVIOUS
  <2>2. drive' = [drive EXCEPT ![w] = d]
    BY <1>5 DEF LeavePause
  <2> QED
    BY <2>1, <2>2, AsideByWorker
<1>6. ASSUME Resume(w)
      PROVE  Aside
  <2> DEFINE d == [pc |-> "graph", cur |-> ckpt, saved |-> TRUE, at |-> None]
  <2>1. d.pc \notin AtHost /\ drive' = [drive EXCEPT ![w] = d]
    BY <1>6 DEF Resume
  <2> QED
    BY <2>1, AsideByWorker
<1>7. ASSUME NEW n \in Phase \ AtHost, drive' = [drive EXCEPT ![w].pc = n]
      PROVE  Aside
  <2> DEFINE d == [drive[w] EXCEPT !.pc = n]
  <2>1. d.pc \notin AtHost /\ drive' = [drive EXCEPT ![w] = d]
    BY <1>1, <1>7 DEF Drive
  <2> QED
    BY <2>1, AsideByWorker
<1> QED
  BY <1>2, <1>3, <1>4, <1>5, <1>6, <1>7

\* Rows that do not change are moved aside.
LEMMA AsideByRows ==
  ASSUME step' = step
  PROVE  \A s \in WriteStep : MovesAside(s)
  BY DEF MovesAside

\* A change of a plan's or an observation's row only.
LEMMA AsideByPlan ==
  ASSUME NEW x, x \in Plan \/ x \in Observation, NEW to,
         step' = [step EXCEPT ![x] = to], Typed
  PROVE  \A s \in WriteStep : MovesAside(s)
  BY WritesAreActions DEF MovesAside, Typed, DatabaseTyped

\* The unlocked sessions write no row of an action.
LEMMA SessionStepAside ==
  ASSUME Typed, NEW x \in Session, SessionStep(x)
  PROVE  Aside
<1>1. drive' = drive /\ intent' = intent /\ launches' = launches
      /\ remote' = remote /\ silent' = silent
  BY DEF SessionStep, ReadDraft, CommitDraft, ReadDecision, CommitDecision,
         ReadExpiry, CommitExpiry, CommitStepExpiry, Rollback, dbVars, ghosts
<1>2. \/ step' = step
      \/ /\ txn[x].op \in {"approve", "reject", "expire"}
         /\ \E to : step' = [step EXCEPT ![txn[x].step] = to]
  BY DEF SessionStep, ReadDraft, CommitDraft, ReadDecision, CommitDecision,
         ReadExpiry, CommitExpiry, CommitStepExpiry, Rollback, dbVars
<1>3. \A s \in WriteStep : MovesAside(s)
  BY <1>2, AsideByRows, AsideByPlan DEF Typed, SessionsTyped, TxnShape
<1> QED
  BY <1>1, <1>3 DEF Aside, StillAtHost

\* request_cancel cancels what has not started.
LEMMA RequestCancelAside ==
  ASSUME Typed, RequestCancel
  PROVE  Aside
<1>1. \A s \in WriteStep : MovesAside(s)
  BY WritesAreActions
  DEF RequestCancel, MovesAside, Started, OpenStatus, TerminalStep
<1> QED
  BY <1>1 DEF RequestCancel, Aside, StillAtHost, ghosts

\* The environment only takes commands off the host.
LEMMA EnvironmentAside ==
  ASSUME Typed, Environment
  PROVE  Aside
<1>1. drive' = drive /\ intent' = intent /\ launches' = launches
      /\ step' = step /\ remote' \subseteq remote /\ silent' = silent
  BY DEF Environment, ExpireLease, LoseCheckpoint, RemoteExit, dbVars, ghosts
<1> QED
  BY <1>1, AsideByRows DEF Aside, StillAtHost

\* _fail_run changes no step.
LEMMA FailRunAside ==
  ASSUME Typed, NEW w \in Worker, FailRun(w)
  PROVE  Aside
<1>1. \A s \in WriteStep : MovesAside(s)
  BY AsideByRows DEF FailRun
<1> QED
  BY <1>1, AsideByMove DEF FailRun, ghosts

\* The prologue of a drive changes no step.
LEMMA EnterStepAside ==
  ASSUME Typed, NEW w \in Worker, EnterStep(w)
  PROVE  Aside
<1>1. CASE RefuseRun(w)
  BY <1>1, FailRunAside DEF RefuseRun
<1>2. CASE ~RefuseRun(w)
  <2>1. /\ step' = step /\ intent' = intent /\ launches' = launches
        /\ remote' = remote /\ silent' = silent
        /\ \/ StopDriving(w)
           \/ LeavePause(w, ckpt)
           \/ drive' = [drive EXCEPT ![w].pc = "enter"]
    BY <1>2 DEF EnterStep, Claim, ConfirmCancel, CheckpointUnavailable,
                EnterPaused, dbVars, ghosts
  <2>2. "enter" \in Phase \ AtHost
    BY DEF Phase
  <2> QED
    BY <2>1, <2>2, AsideByRows, AsideByMove
<1> QED
  BY <1>1, <1>2

\* Sending interrupted steps back to approved passes every write by, unless one
\* is running without an intent, which Declared excludes.
LEMMA RescanAside ==
  ASSUME Typed, Declared, NEW w \in Worker, Rescan(w)
  PROVE  \A s \in WriteStep : MovesAside(s)
<1>1. ASSUME NEW s \in WriteStep
      PROVE  s \notin Interrupted
  BY WritesAreActions
  DEF Rescan, InterruptedWrites, Interrupted, In, Present, Declared, OpenWrites,
      OpenStatus
<1>2. \A s \in WriteStep : step'[s] = step[s]
  BY <1>1, WritesAreActions DEF Rescan, Scanned, Retried
<1> QED
  BY <1>2 DEF MovesAside

\* Recovery makes an interrupted write unknown and changes no other write.
LEMMA ResolveStepAside ==
  ASSUME Typed, Declared, NEW w \in Worker, ResolveStep(w)
  PROVE  Aside
<1>1. CASE ResolveFresh(w) \/ ResolveResume(w) \/ ResolveFinishedProbes(w)
           \/ ResolveManyActions(w) \/ WriteBoundary(w)
  <2>1. /\ step' = step /\ intent' = intent /\ launches' = launches
        /\ remote' = remote /\ silent' = silent
    BY <1>1 DEF ResolveFresh, ResolveResume, ResolveFinishedProbes,
                ResolveManyActions, WriteBoundary, dbVars, ghosts
  <2>2. CASE ~WriteBoundary(w)
    BY <1>1, <2>1, <2>2, AsideByRows, AsideByMove
    DEF ResolveFresh, ResolveResume, ResolveFinishedProbes,
        ResolveManyActions, Halt
  <2>3. CASE WriteBoundary(w) /\ drive[w].cur.node = "pause"
    BY <2>1, <2>3, AsideByRows, AsideByMove DEF WriteBoundary
  <2>4. CASE WriteBoundary(w) /\ drive[w].cur.node # "pause"
    <3> DEFINE d == [drive[w] EXCEPT !.pc = "graph", !.saved = TRUE]
    <3>1. drive[w] \in Drive
      BY CursorTyped DEF Typed
    <3>2. d.pc \notin AtHost /\ drive' = [drive EXCEPT ![w] = d]
      BY <2>4, <3>1 DEF WriteBoundary, Drive, Typed, DrivesTyped
    <3> QED
      BY <2>1, <3>2, AsideByRows, AsideByWorker
  <2> QED
    BY <2>2, <2>3, <2>4
<1>2. CASE ResolveInterruptedWrite(w)
  <2>1. \A s \in WriteStep : MovesAside(s)
    BY <1>2, WritesAreActions
    DEF ResolveInterruptedWrite, MovesAside, Retried, Interrupted, In, Present,
        InterruptedWrites, OpenStatus, Typed, DatabaseTyped
  <2> QED
    BY <1>2, <2>1, AsideByMove DEF ResolveInterruptedWrite, Halt, ghosts
<1>3. CASE ResolveWaiting(w) \/ ResolveApproved(w) \/ ResolveProposed(w)
           \/ ResolvePostAction(w) \/ ResolveNoAction(w)
  <2>1. \A s \in WriteStep : MovesAside(s)
    BY <1>3, RescanAside
    DEF ResolveWaiting, ResolveApproved, ResolveProposed, ResolvePostAction,
        ResolveNoAction
  <2>2. \/ StopDriving(w) \/ Resume(w)
        \/ \E c : MoveTo(w, c) \/ Rebuild(w, c)
    BY <1>3
    DEF ResolveWaiting, ResolveApproved, ResolveProposed, ResolvePostAction,
        ResolveNoAction, Halt
  <2>3. /\ intent' = intent /\ launches' = launches
        /\ remote' = remote /\ silent' = silent
    BY <1>3
    DEF ResolveWaiting, ResolveApproved, ResolveProposed, ResolvePostAction,
        ResolveNoAction, ghosts
  <2> QED
    BY <2>1, <2>2, <2>3, AsideByMove
<1> QED
  BY <1>1, <1>2, <1>3 DEF ResolveStep

\* The planner proposes observations and plans.
LEMMA PlanStepAside ==
  ASSUME Typed, NEW w \in Worker, PlanStep(w)
  PROVE  Aside
<1>1. CASE PlannerFails(w)
  BY <1>1, FailRunAside DEF PlannerFails
<1>2. ASSUME ~PlannerFails(w)
      PROVE  Aside
  <2>1. /\ intent' = intent /\ launches' = launches
        /\ remote' = remote /\ silent' = silent
        /\ \E c : MoveTo(w, c)
    BY <1>2 DEF PlanStep, ProposeProbe, ProposeVerification, ProposePlan,
                Finish, Planned, dbVars, ghosts
  <2>2. \/ step' = step
        \/ \E x \in Plan \cup Observation : \E to :
              step' = [step EXCEPT ![x] = to]
    BY <1>2 DEF PlanStep, ProposeProbe, ProposeVerification, ProposePlan,
                Finish, dbVars, Observation
  <2>3. \A s \in WriteStep : MovesAside(s)
    BY <2>2, AsideByRows, AsideByPlan
  <2> QED
    BY <2>1, <2>3, AsideByMove
<1> QED
  BY <1>1, <1>2

\* The policy writes rows of observations and plans.
LEMMA PolicyStepAside ==
  ASSUME Typed, NEW w \in Worker, PolicyStep(w)
  PROVE  Aside
<1>1. CASE GuardianClaim(w)
  <2>1. PICK p \in OpenPlans :
          /\ SetStep(p, "running")
          /\ drive' = [drive EXCEPT ![w].pc = "review", ![w].at = p]
    BY <1>1 DEF GuardianClaim
  <2> DEFINE d == [drive[w] EXCEPT !.pc = "review", !.at = p]
  <2>2. drive[w] \in Drive
    BY CursorTyped DEF Typed
  <2>3. d.pc \notin AtHost /\ drive' = [drive EXCEPT ![w] = d]
    BY <2>1, <2>2 DEF Drive, Typed, DrivesTyped
  <2>4. \A s \in WriteStep : MovesAside(s)
    BY <2>1, AsideByPlan DEF OpenPlans, SetStep
  <2> QED
    BY <1>1, <2>3, <2>4, AsideByWorker DEF GuardianClaim, ghosts
<1>2. CASE PauseCheck(w)
  <2>1. /\ step' = step /\ intent' = intent /\ launches' = launches
        /\ remote' = remote /\ silent' = silent
    BY <1>2 DEF PauseCheck, dbVars, ghosts
  <2>2. CASE LeavePause(w, drive[w].cur)
    BY <2>1, <2>2, AsideByRows, AsideByMove
  <2>3. CASE drive' = [drive EXCEPT ![w].cur.node = "end"]
    <3> DEFINE d == [drive[w] EXCEPT !.cur.node = "end"]
    <3>1. drive[w] \in Drive /\ drive[w].pc = "graph"
      BY <1>2, CursorTyped DEF Typed, PauseCheck, AtNode
    <3>2. d.pc \notin AtHost /\ drive' = [drive EXCEPT ![w] = d]
      BY <2>3, <3>1 DEF Drive
    <3> QED
      BY <2>1, <3>2, AsideByRows, AsideByWorker
  <2> QED
    BY <1>2, <2>2, <2>3 DEF PauseCheck
<1>3. ASSUME NEW verdict, GuardianAnswer(w, verdict)
      PROVE  Aside
  <2>1. \E c : MoveTo(w, c)
    BY <1>3 DEF GuardianAnswer, ToExecute, ToPause
  <2>2. drive[w].at \in Plan /\ \E to : SetStep(drive[w].at, to)
    BY <1>3 DEF GuardianAnswer, Reviewing, Typed, DrivesTyped, DriveShape,
                WorkingOn
  <2>3. \A s \in WriteStep : MovesAside(s)
    BY <2>2, AsideByPlan DEF SetStep
  <2> QED
    BY <1>3, <2>1, <2>3, AsideByMove DEF GuardianAnswer
<1>4. CASE PolicyAllow(w)
  <2>1. PICK s \in Proposed : SetStep(s, "approved") /\ ToExecute(w, s)
    BY <1>4 DEF PolicyAllow
  <2>2. \A t \in WriteStep : MovesAside(t)
    BY <2>1, AsideByPlan DEF SetStep, Proposed, In
  <2> QED
    BY <1>4, <2>1, <2>2, AsideByMove DEF PolicyAllow, ToExecute, ghosts
<1>5. CASE PolicyNothing(w) \/ PolicyAuthorised(w) \/ PolicyAsk(w)
           \/ GuardianTooLate(w) \/ Settle(w)
  <2>1. /\ step' = step /\ intent' = intent /\ launches' = launches
        /\ remote' = remote /\ silent' = silent
        /\ StopDriving(w) \/ \E c : MoveTo(w, c)
    BY <1>5 DEF PolicyNothing, PolicyAuthorised, PolicyAsk, GuardianTooLate,
                Settle, ToExecute, ToPause, dbVars, ghosts
  <2> QED
    BY <2>1, AsideByRows, AsideByMove
<1> QED
  BY <1>1, <1>2, <1>3, <1>4, <1>5 DEF PolicyStep

\* The execute node inserts an action as approved and writes rows of plans.
LEMMA ExecuteNodeStepAside ==
  ASSUME Typed, NEW w \in Worker, ExecuteNodeStep(w)
  PROVE  Aside
<1>0. drive[w] \in Drive /\ drive \in [Worker -> Drive]
  BY CursorTyped DEF Typed, DrivesTyped
<1>1. CASE SkipExecute(w)
  BY <1>1, AsideByRows, AsideByMove DEF SkipExecute, ToDecide, dbVars, ghosts
<1>2. CASE ExecuteStep(w)
  <2> DEFINE d == [drive[w] EXCEPT !.pc = "begin", !.at = Target(w)]
  <2>1. d.pc \notin AtHost /\ drive' = [drive EXCEPT ![w] = d]
    BY <1>0, <1>2 DEF ExecuteStep, Drive
  <2> QED
    BY <1>2, <2>1, AsideByRows, AsideByWorker DEF ExecuteStep, dbVars, ghosts
<1>3. CASE InvalidatePlan(w)
  <2>1. \A s \in WriteStep : MovesAside(s)
    BY <1>3, AsideByPlan DEF InvalidatePlan, SetStep
  <2> QED
    BY <1>3, <2>1, AsideByMove DEF InvalidatePlan, ToDecide, ghosts
<1>4. CASE StartPlan(w)
  <2> DEFINE d == [drive[w] EXCEPT !.pc = "expand", !.at = <<Target(w), 1>>]
  <2>1. d.pc \notin AtHost /\ drive' = [drive EXCEPT ![w] = d]
    BY <1>0, <1>4 DEF StartPlan, Drive
  <2>2. \A s \in WriteStep : MovesAside(s)
    BY <1>4, AsideByPlan DEF StartPlan
  <2> QED
    BY <1>4, <2>1, <2>2, AsideByWorker DEF StartPlan, ghosts
<1>5. CASE ExpandAction(w)
  <2> DEFINE a == drive[w].at
             d1 == [drive[w] EXCEPT !.pc = "begin"]
             d2 == [drive[w] EXCEPT !.at = <<@[1], @[2] + 1>>]
  <2>1. drive[w].pc = "expand"
    BY <1>5 DEF ExpandAction, Expanding
  <2>2. d1.pc \notin AtHost /\ d2.pc \notin AtHost
    BY <1>0, <2>1 DEF Drive
  <2>3. drive' = [drive EXCEPT ![w] = d1] \/ drive' = [drive EXCEPT ![w] = d2]
    BY <1>0, <1>5 DEF ExpandAction, Drive
  <2>4. \/ step' = step
        \/ step[a] = "absent" /\ step' = [step EXCEPT ![a] = "approved"]
    BY <1>5 DEF ExpandAction
  <2>5. \A s \in WriteStep : MovesAside(s)
    BY <2>4, WritesAreActions
    DEF MovesAside, Started, OpenStatus, TerminalStep, Typed, DatabaseTyped
  <2>6. /\ intent' = intent /\ launches' = launches
        /\ remote' = remote /\ silent' = silent
    BY <1>5 DEF ExpandAction, ghosts
  <2> QED
    BY <2>2, <2>3, <2>5, <2>6, AsideByWorker
<1>6. CASE FailPlan(w) \/ CompletePlan(w)
  <2>1. drive[w].at[1] \in Plan
    BY <1>6 DEF FailPlan, CompletePlan, Expanding, Typed, DrivesTyped,
                DriveShape, WorkingOn
  <2>2. step' = step \/ \E to : step' = [step EXCEPT ![drive[w].at[1]] = to]
    BY <1>6 DEF FailPlan, CompletePlan, SetStep
  <2>3. \A s \in WriteStep : MovesAside(s)
    BY <2>1, <2>2, AsideByPlan, AsideByRows
  <2> QED
    BY <1>6, <2>3, AsideByMove DEF FailPlan, CompletePlan, ToDecide, ghosts
<1> QED
  BY <1>1, <1>2, <1>3, <1>4, <1>5, <1>6 DEF ExecuteNodeStep

\* The worker that records an outcome no longer stands before a launch.
LEMMA OutcomeAside ==
  ASSUME Typed, NEW w \in Worker, NEW pc, NEW to, Outcome(w, pc, to),
         intent' = intent, launches' = launches, remote' \subseteq remote,
         silent \subseteq silent', \A s \in WriteStep : MovesAside(s)
  PROVE  Aside
<1>0. drive[w] \in Drive /\ drive \in [Worker -> Drive]
  BY CursorTyped DEF Typed, DrivesTyped
<1>1. CASE drive[w].cur.pending \notin Plan
  BY <1>1, AsideByMove DEF Outcome, AfterStep, ToDecide
<1>2. CASE drive[w].cur.pending \in Plan
  <2> DEFINE a == drive[w].at
             x == IF to = "succeeded" THEN <<a[1], a[2] + 1>> ELSE a
             d == [drive[w] EXCEPT !.pc = "expand", !.at = x]
  <2>1. d.pc \notin AtHost
    BY <1>0 DEF Drive
  <2>2. drive' = [drive EXCEPT ![w] = d]
    BY <1>0, <1>2 DEF Outcome, AfterStep, Drive
  <2> QED
    BY <2>1, <2>2, AsideByWorker
<1> QED
  BY <1>1, <1>2

\* Recording an outcome: what was never launched is not on the host, what has
\* exited leaves it, what lost its transport fails with the code -1, and what was
\* interrupted becomes unknown.
LEMMA RecordAside ==
  ASSUME Typed, Declared, InHand, NEW w \in Worker,
         \/ \E r : RecordNotStarted(w, r)
         \/ \E ok : RecordExit(w, ok)
         \/ \E r, stopped : RecordInterruptedWrite(w, r, stopped)
         \/ \E r, stopped : RecordInterruptedRead(w, r, stopped)
  PROVE  Aside
<1> DEFINE a == drive[w].at
<1>0. step \in [StepId -> StepStatus \cup {"absent"}]
  BY DEF Typed, DatabaseTyped
<1>1. a \in WriteStep => step[a] \in Started /\ a \in StepId
  BY WritesAreActions
  DEF InHand, Declared, RecordNotStarted, RecordExit, RecordInterruptedWrite,
      RecordInterruptedRead, Outcome
<1>2. ASSUME NEW to \in TerminalStep \cup {"outcome_unknown"}, SetStep(a, to),
             a \in WriteStep /\ to \in TerminalStep =>
               /\ a \in remote' => a \in silent' /\ to = "failed"
               /\ \A v \in Worker : drive'[v].pc = "launch" => drive'[v].at # a
      PROVE  \A s \in WriteStep : MovesAside(s)
  <2>1. a \in WriteStep => step[a] \in OpenStatus
    BY <1>1, <1>2 DEF SetStep, StepLegal, Started, OpenStatus, TerminalStep
  <2> QED
    BY <1>0, <1>2, <2>1 DEF MovesAside, SetStep
<1>3. ASSUME NEW pc \in AtHost, NEW to, Outcome(w, pc, to), a \in WriteStep
      PROVE  \A v \in Worker : drive'[v].pc = "launch" => drive'[v].at # a
  <2>1. drive[w] \in Drive /\ drive \in [Worker -> Drive]
    BY CursorTyped DEF Typed, DrivesTyped
  <2>2. /\ drive'[w].pc # "launch"
        /\ \A v \in Worker \ {w} : drive'[v] = drive[v]
    BY <1>3, <2>1 DEF Outcome, AfterStep, ToDecide, MoveTo, Drive
  <2>3. /\ drive[w].pc = "launch" => Launching(w)
        /\ drive[w].pc = "remote" => launches[a] > 0
        /\ drive[w].pc \in AtHost
    BY <1>3 DEF Outcome, InHand, Launching
  <2>4. ASSUME NEW v \in Worker \ {w}, drive[v].pc = "launch", drive[v].at = a
        PROVE  FALSE
    BY <1>3, <2>3, <2>4 DEF InHand, Launching
  <2> QED
    BY <2>2, <2>4
<1>4. ASSUME NEW r, RecordNotStarted(w, r)
      PROVE  Aside
  <2>1. a \in WriteStep => a \notin remote
    BY <1>4 DEF RecordNotStarted, Outcome, InHand, Launching, Declared, ghosts
  <2>2. \A s \in WriteStep : MovesAside(s)
    BY <1>2, <1>3, <1>4, <2>1 DEF RecordNotStarted, Outcome, TerminalStep
  <2> QED
    BY <1>4, <2>2, OutcomeAside DEF RecordNotStarted, ghosts
<1>5. ASSUME NEW ok, RecordExit(w, ok)
      PROVE  Aside
  <2> DEFINE to == IF ok THEN "succeeded" ELSE "failed"
  <2>1. Outcome(w, "remote", to) /\ to \in TerminalStep
    BY <1>5 DEF RecordExit, TerminalStep
  <2>2. a \in WriteStep /\ a \in remote' => a \in silent' /\ to = "failed"
    BY <1>5 DEF RecordExit
  <2>3. \A s \in WriteStep : MovesAside(s)
    BY <1>2, <1>3, <2>1, <2>2 DEF Outcome
  <2>4. /\ intent' = intent /\ launches' = launches
        /\ remote' \subseteq remote /\ silent \subseteq silent'
    BY <1>5 DEF RecordExit
  <2> QED
    BY <2>1, <2>3, <2>4, OutcomeAside
<1>6. ASSUME NEW r, NEW stopped, RecordInterruptedWrite(w, r, stopped)
      PROVE  Aside
  <2>1. \A s \in WriteStep : MovesAside(s)
    BY <1>2, <1>6 DEF RecordInterruptedWrite, Outcome, TerminalStep
  <2> QED
    BY <1>6, <2>1, OutcomeAside DEF RecordInterruptedWrite, ghosts
<1>7. ASSUME NEW r, NEW stopped, RecordInterruptedRead(w, r, stopped)
      PROVE  Aside
  <2>1. \A s \in WriteStep : MovesAside(s)
    BY <1>2, <1>7 DEF RecordInterruptedRead, Outcome, TerminalStep
  <2> QED
    BY <1>7, <2>1, OutcomeAside DEF RecordInterruptedRead, ghosts
<1> QED
  BY <1>4, <1>5, <1>6, <1>7

\* The end of a drive changes no step.
LEMMA EndStepAside ==
  ASSUME Typed, NEW w \in Worker, EndStep(w)
  PROVE  Aside
<1>1. /\ step' = step /\ intent' = intent /\ launches' = launches
      /\ remote' = remote /\ silent' = silent
      /\ StopDriving(w) \/ \E c : MoveTo(w, c)
  BY DEF EndStep, Decide, FinalizeAttention, FinalizeQueued, Finalize, dbVars,
         ghosts
<1> QED
  BY <1>1, AsideByRows, AsideByMove

\* What a worker does beside declaring and launching a step.
LEMMA WorkerStepAside ==
  ASSUME Writes1, NEW w \in Worker, WorkerStep(w), ~BeginStep(w), ~Launch(w)
  PROVE  Aside
<1> USE DEF Writes1
<1>1. CASE SaveCheckpoint(w)
  BY <1>1, AsideByRows
  DEF SaveCheckpoint, Aside, StillAtHost, dbVars, ghosts, Typed, DrivesTyped,
      Drive
<1>2. CASE DurationExhausted(w)
  <2>1. CASE FailRun(w)
    BY <2>1, FailRunAside
  <2>2. CASE ~FailRun(w)
    BY <1>2, <2>2, AsideByRows, AsideByMove DEF DurationExhausted, ghosts
  <2> QED
    BY <2>1, <2>2
<1>3. CASE AbandonDrive(w)
  BY <1>3, AsideByRows, AsideByMove DEF AbandonDrive, dbVars, ghosts
<1>4. CASE ExecutorStep(w)
  BY <1>4, RecordAside DEF ExecutorStep
<1> QED
  BY <1>1, <1>2, <1>3, <1>4, EnterStepAside, ResolveStepAside, PlanStepAside,
     PolicyStepAside, ExecuteNodeStepAside, EndStepAside DEF WorkerStep

\* Every step of the system but the two.
LEMMA NextAside ==
  ASSUME Writes1, [Next]_vars, \A w \in Worker : ~BeginStep(w) /\ ~Launch(w)
  PROVE  Aside
<1>1. CASE UNCHANGED vars
  BY <1>1, AsideByRows DEF vars, dbVars, ghosts, Aside, StillAtHost
<1>2. CASE Next
  BY <1>2, SessionStepAside, RequestCancelAside, EnvironmentAside,
     WorkerStepAside DEF Next, Writes1
<1> QED
  BY <1>1, <1>2

-----------------------------------------------------------------------------
\* A write is declared once and launched once.

\* What moves the writes aside keeps what is known of them.
LEMMA AsideKeepsWrites ==
  ASSUME Writes1, Aside
  PROVE  Declared' /\ InHand'
<1>1. ASSUME NEW s \in WriteStep
      PROVE  /\ step[s] \in Started => step'[s] \in Started
             /\ step'[s] \in OpenStatus => step[s] \in OpenStatus
             /\ s \in remote' /\ step[s] \in OpenStatus =>
                  \/ step'[s] \in OpenStatus
                  \/ s \in silent' /\ step'[s] = "failed"
             /\ step[s] = "failed" => step'[s] = "failed"
  BY DEF Aside, MovesAside, Started, OpenStatus, TerminalStep
<1>2. Declared'
  BY <1>1 DEF Writes1, Typed, DatabaseTyped, Aside, Declared, OpenWrites
<1>3. ASSUME NEW w \in Worker, drive'[w].pc = "launch", drive'[w].at \in WriteStep
      PROVE  step'[drive'[w].at] \in OpenStatus
  BY <1>3 DEF Writes1, Aside, StillAtHost, InHand, Launching, MovesAside,
              Started, OpenStatus
<1>4. InHand'
  BY <1>3 DEF Writes1, Aside, InHand, StillAtHost, Launching
<1> QED
  BY <1>2, <1>4

\* A step begins once: it was approved, so it had no intent, and no worker
\* stood before its launch.
LEMMA BeginStepKeepsWrites ==
  ASSUME Writes1, NEW w \in Worker, BeginStep(w)
  PROVE  Declared' /\ InHand'
<1> DEFINE a == drive[w].at
<1>0. /\ drive[w] \in Drive /\ drive \in [Worker -> Drive]
      /\ step \in [StepId -> StepStatus \cup {"absent"}]
      /\ intent \subseteq WriteStep
  BY CursorTyped DEF Writes1, Typed, DrivesTyped, DatabaseTyped
<1>1. /\ step[a] = "approved" /\ step' = [step EXCEPT ![a] = "running"]
      /\ intent' = intent \cup ({a} \cap WriteStep)
      /\ launches' = launches /\ remote' = remote /\ silent' = silent
      /\ drive' = [drive EXCEPT ![w].pc = "launch"]
      /\ drive[w].pc = "begin"
  BY DEF BeginStep, WriteIntent, ghosts
<1>2. a \notin intent
  BY <1>1 DEF Writes1, Declared, Started, OpenStatus, TerminalStep
<1>3. Declared'
  BY <1>0, <1>1, <1>2, WritesAreActions
  DEF Writes1, Declared, OpenWrites, Started, OpenStatus, Typed, DatabaseTyped
<1>4. /\ drive'[w].pc = "launch" /\ drive'[w].at = a
      /\ \A v \in Worker \ {w} : drive'[v] = drive[v]
  BY <1>0, <1>1 DEF Drive
<1>5. a \in WriteStep => launches[a] = 0
  BY <1>2 DEF Writes1, Declared, Typed, DatabaseTyped
<1>6. /\ a \in WriteStep => step'[a] \in OpenStatus
      /\ \A s \in WriteStep : step[s] \in OpenStatus => step'[s] \in OpenStatus
  BY <1>0, <1>1, WritesAreActions DEF OpenStatus
<1>7. InHand'
  BY <1>1, <1>2, <1>4, <1>5, <1>6 DEF Writes1, InHand, Launching
<1> QED
  BY <1>3, <1>7

\* A launch by a worker that may have lost its claim: the intent stands, and the
\* write has not been launched.
LEMMA LaunchKeepsWrites ==
  ASSUME Writes1, NEW w \in Worker, Launch(w)
  PROVE  /\ Declared' /\ InHand'
         /\ \A s \in WriteStep : launches'[s] # launches[s] => s \in intent
<1> DEFINE a == drive[w].at
<1>0. /\ drive[w] \in Drive /\ drive \in [Worker -> Drive]
      /\ launches \in [WriteStep -> 0 .. 2]
  BY CursorTyped DEF Writes1, Typed, DrivesTyped, DatabaseTyped
<1>1. /\ drive[w].pc = "launch"
      /\ step' = step /\ intent' = intent /\ silent' = silent
      /\ remote' = remote \cup ({a} \cap WriteStep)
      /\ launches' = [s \in WriteStep |->
                        IF s # a THEN launches[s]
                        ELSE IF launches[s] = 0 THEN 1 ELSE 2]
      /\ drive' = [drive EXCEPT ![w].pc = "remote"]
  BY DEF Launch, dbVars
<1>2. a \in WriteStep =>
        a \in intent /\ launches[a] = 0 /\ step[a] \in OpenStatus
  BY <1>1 DEF Writes1, InHand, Launching
<1>3. \A s \in WriteStep : /\ s # a => launches'[s] = launches[s]
                           /\ s = a => launches'[s] = 1
  BY <1>1, <1>2
<1>4. /\ drive'[w].pc = "remote" /\ drive'[w].at = a
      /\ \A v \in Worker \ {w} : drive'[v] = drive[v]
  BY <1>0, <1>1 DEF Drive
<1>5. InHand'
  BY <1>1, <1>2, <1>3, <1>4 DEF Writes1, InHand, Launching
<1>6. Declared'
  <2>1. OpenWrites' = OpenWrites
    BY <1>1 DEF OpenWrites
  <2>2. ASSUME NEW s \in remote'
        PROVE  /\ launches'[s] > 0
               /\ \/ s \in OpenWrites'
                  \/ s \in silent' /\ step'[s] = "failed"
    <3>1. CASE s = a /\ a \in WriteStep
      BY <1>2, <1>3, <2>1, <3>1 DEF OpenWrites
    <3>2. CASE ~(s = a /\ a \in WriteStep)
      BY <1>1, <1>3, <2>1, <3>2 DEF Writes1, Declared, Typed, DatabaseTyped
    <3> QED
      BY <3>1, <3>2
  <2>3. /\ \A s \in WriteStep : launches'[s] > 0 => s \in intent'
        /\ \A s \in WriteStep : launches'[s] <= 1
        /\ \A s \in intent' : step'[s] \in Started
        /\ OpenWrites' \subseteq intent'
    BY <1>1, <1>2, <1>3, <2>1 DEF Writes1, Declared
  <2> QED
    BY <2>2, <2>3 DEF Declared
<1> QED
  BY <1>2, <1>3, <1>5, <1>6

\* At the start nothing is declared and nobody drives.
LEMMA WritesInit == Init => Declared /\ InHand
<1> SUFFICES ASSUME Init PROVE Declared /\ InHand
  OBVIOUS
<1>1. OpenWrites = {}
  BY WritesAreActions DEF Init, OpenWrites, OpenStatus
<1> QED
  BY <1>1 DEF Init, Declared, InHand, Launching, Idle

\* Both are inductive together with the types.
LEMMA WritesStep ==
  ASSUME Writes1, [Next]_vars
  PROVE  Writes1'
<1>1. Typed'
  BY TypedStep DEF Writes1
<1>2. Declared' /\ InHand'
  BY NextAside, AsideKeepsWrites, BeginStepKeepsWrites, LaunchKeepsWrites
<1> QED
  BY <1>1, <1>2 DEF Writes1

LEMMA WritesInvariant == Spec => []Writes1
<1>1. Init => Writes1
  BY TypedInit, WritesInit DEF Writes1
<1> QED
  BY <1>1, WritesStep, PTL DEF Spec

\* No write action is ever started twice on the host, for any number of workers,
\* claims lost, takeovers and restarts.
THEOREM WritesAreNotReplayed == Spec => []NoReplay
<1>1. Writes1 => NoReplay
  BY DEF Writes1, Declared, NoReplay
<1> QED
  BY <1>1, WritesInvariant, PTL

\* A write whose intent was not durable when the cancel was recorded is never
\* declared and never reaches the host: begin re-checks the request under the
\* lock, and a launch only follows a declaration.
THEOREM CancelStopsWrites == Spec => NoWriteAfterCancel
<1>1. Writes1 /\ [Next]_vars =>
        [cancel => \A s \in WriteStep \ intent :
                     s \notin intent' /\ launches'[s] = launches[s]]_vars
  <2> SUFFICES ASSUME Writes1, [Next]_vars, cancel,
                      NEW s \in WriteStep \ intent
               PROVE  s \notin intent' /\ launches'[s] = launches[s]
    OBVIOUS
  <2>1. \A w \in Worker : ~BeginStep(w)
    BY DEF BeginStep, MayBegin
  <2>2. ASSUME NEW w \in Worker, Launch(w)
        PROVE  s \notin intent' /\ launches'[s] = launches[s]
    BY <2>2, LaunchKeepsWrites DEF Launch, dbVars
  <2>3. ASSUME \A w \in Worker : ~Launch(w)
        PROVE  s \notin intent' /\ launches'[s] = launches[s]
    BY <2>1, <2>3, NextAside DEF Aside
  <2> QED
    BY <2>2, <2>3
<1> QED
  BY <1>1, WritesInvariant, PTL DEF Spec, NoWriteAfterCancel

-----------------------------------------------------------------------------
\* While a write is open.

WithPerson == {"needs_attention", "failed", "cancelled"}

\* A session that can still commit a change of the Run's status.
MayCommit(x) ==
  /\ Fresh(x)
  /\ txn[x].op # "none"
  /\ txn[x].op = "expire" => txn[x].seen = "waiting_approval"

\* Where the owner of a Run with the open write s may be: between two drives,
\* about to recover it, with the write in hand, or on the way from its unknown
\* outcome to the end of the drive.
Holding(w, s) ==
  \/ drive[w].pc = "idle"
  \/ drive[w].pc = "enter" /\ status = "recovering"
  \/ drive[w].pc \in AtHost /\ drive[w].at = s /\ status = "running"
  \/ /\ status = "needs_attention"
     /\ \/ /\ drive[w].pc = "expand" /\ drive[w].at = s
           /\ step[s] = "outcome_unknown"
        \/ /\ drive[w].pc = "graph"
           /\ drive[w].cur.node \in {"plan", "decide", "end"}

Guarded(s) ==
  /\ status \in {"running", "recovering"} \cup WithPerson
  /\ step[s] = "outcome_unknown" => status \in WithPerson
  /\ \A x \in Session : ~MayCommit(x)
  /\ \A w \in Worker : Owns(w) => Holding(w, s)

Single  == \A s, t \in OpenWrites : s = t
Watched == \A s \in OpenWrites : Guarded(s)
Writes2 == Writes1 /\ Single /\ Watched

\* An appended event leaves no session that can commit.
LEMMA EventStopsSessions ==
  ASSUME Typed, AppendEvent
  PROVE  \A x \in Session : ~MayCommit(x)'
  BY DEF AppendEvent, MayCommit, Fresh, Typed, SessionsTyped, Txn

\* Sessions that stay as they are stay unable to commit.
LEMMA QuietSessions ==
  ASSUME NEW s, Guarded(s), txn' = txn
  PROVE  \A x \in Session : ~MayCommit(x)'
  BY DEF Guarded, MayCommit, Fresh

\* Nobody owns a Run without a lease.
LEMMA NoLeaseNoOwner ==
  ASSUME ClearClaim
  PROVE  \A w \in Worker : ~Owns(w)'
  BY NamesAssumption DEF ClearClaim, NoLease, Owns

\* The Run is let go of, in a status that is right for an open write.
LEMMA GuardedWhenStopped ==
  ASSUME Typed, NEW s, Guarded(s), ClearClaim, txn' = txn \/ AppendEvent,
         \/ status' = status /\ step'[s] = step[s]
         \/ status' \in WithPerson
  PROVE  Guarded(s)'
  BY EventStopsSessions, QuietSessions, NoLeaseNoOwner DEF Guarded

\* The status and the write stay, the lease at most expires, and whoever still
\* owns the Run has not moved.
LEMMA GuardedWhenQuiet ==
  ASSUME Typed, NEW s, Guarded(s), status' = status, step'[s] = step[s],
         \A x \in Session : ~MayCommit(x)',
         \A w \in Worker : Owns(w)' => Owns(w) /\ drive'[w] = drive[w]
  PROVE  Guarded(s)'
  BY DEF Guarded, Holding

\* The owner moves on with the open write.
LEMMA GuardedWhenMoved ==
  ASSUME Typed, NEW s, Guarded(s), NEW w \in Worker, Owns(w), lease' = lease,
         status' \in {"running", "recovering"} \cup WithPerson,
         step'[s] = "outcome_unknown" => status' \in WithPerson,
         txn' = txn \/ AppendEvent,
         Holding(w, s)'
  PROVE  Guarded(s)'
<1>1. \A v \in Worker : Owns(v)' => v = w
  BY DEF Owns
<1> QED
  BY <1>1, EventStopsSessions, QuietSessions DEF Guarded

\* No session can commit; an expiry read now sees a Run that is not waiting.
LEMMA SessionStepGuarded ==
  ASSUME Writes1, NEW s \in OpenWrites, Guarded(s), s \in OpenWrites',
         NEW x \in Session, SessionStep(x)
  PROVE  Guarded(s)'
<1> USE DEF Writes1
<1>1. txn \in [Session -> Txn]
  BY DEF Typed, SessionsTyped
<1>2. /\ ~CommitDraft(x) /\ ~CommitDecision(x) /\ ~CommitExpiry(x)
  BY DEF Guarded, MayCommit, CommitDraft, CommitDecision, CommitExpiry
<1>3. \A op : ~ReadDraft(x, op)
  BY DEF Guarded, WithPerson, ReadDraft
<1>4. \A p, op : ~ReadDecision(x, p, op)
  BY DEF Guarded, WithPerson, ReadDecision
<1>5. /\ status' = status /\ lease' = lease /\ drive' = drive
      /\ \/ \E p : txn' = [txn EXCEPT ![x] = [op |-> "expire", step |-> p,
                                              seen |-> status, fresh |-> TRUE]]
         \/ txn' = [txn EXCEPT ![x] = NoTxn]
  BY <1>2, <1>3, <1>4
  DEF SessionStep, ReadExpiry, CommitStepExpiry, Rollback, dbVars
<1>6. ~MayCommit(x)'
  BY <1>1, <1>5 DEF Guarded, WithPerson, MayCommit, NoTxn
<1>7. \A y \in Session \ {x} : ~MayCommit(y)'
  BY <1>1, <1>5 DEF Guarded, MayCommit, Fresh
<1>8. step'[s] = step[s]
  <2>1. step' = step \/ CommitStepExpiry(x)
    BY <1>2, <1>3, <1>4 DEF SessionStep, ReadExpiry, Rollback, dbVars
  <2>2. CommitStepExpiry(x) => step'[s] = step[s]
    BY WritesAreActions
    DEF CommitStepExpiry, Typed, SessionsTyped, TxnShape, OpenWrites,
        DatabaseTyped
  <2> QED
    BY <2>1, <2>2
<1> QED
  BY <1>5, <1>6, <1>7, <1>8, GuardedWhenQuiet DEF Owns

\* A cancel leaves an open write alone, and is forced only when nobody owns the
\* Run or it is with a person.
LEMMA RequestCancelGuarded ==
  ASSUME Writes1, NEW s \in OpenWrites, Guarded(s), RequestCancel
  PROVE  Guarded(s)'
<1> USE DEF Writes1
<1>1. CASE ForceCancel
  <2>1. status' \in WithPerson /\ ClearClaim /\ AppendEvent
    BY <1>1 DEF RequestCancel, SetRun, WithPerson
  <2> QED
    BY <2>1, GuardedWhenStopped
<1>2. CASE ~ForceCancel
  <2>1. /\ status' = status /\ step' = step /\ lease' = lease
        /\ drive' = drive /\ AppendEvent
    BY <1>2 DEF RequestCancel
  <2> QED
    BY <2>1, EventStopsSessions, GuardedWhenQuiet DEF Owns
<1> QED
  BY <1>1, <1>2

LEMMA EnvironmentGuarded ==
  ASSUME Writes1, NEW s \in OpenWrites, Guarded(s), Environment
  PROVE  Guarded(s)'
<1>1. /\ status' = status /\ step' = step /\ drive' = drive /\ txn' = txn
      /\ \A w \in Worker : Owns(w)' => Owns(w)
  BY DEF Environment, ExpireLease, LoseCheckpoint, RemoteExit, dbVars, Owns,
         Writes1, Typed, DatabaseTyped
<1> QED
  BY <1>1, QuietSessions, GuardedWhenQuiet DEF Writes1

\* _fail_run fails a Run, or leaves it where it ended.
LEMMA FailRunGuarded ==
  ASSUME Writes1, NEW s \in OpenWrites, Guarded(s), NEW w \in Worker, FailRun(w)
  PROVE  Guarded(s)'
<1>1. /\ ClearClaim /\ step' = step
      /\ \/ status' = status /\ txn' = txn
         \/ status' \in WithPerson /\ AppendEvent
  BY DEF FailRun, SetRun, WithPerson
<1> QED
  BY <1>1, GuardedWhenStopped DEF Writes1

\* A takeover marks the Run recovering, and what enters it can only stop it.
LEMMA EnterStepGuarded ==
  ASSUME Writes1, NEW s \in OpenWrites, Guarded(s), NEW w \in Worker,
         EnterStep(w)
  PROVE  Guarded(s)'
<1> USE DEF Writes1
<1>1. CASE Claim(w)
  <2>1. /\ status \in {"running", "recovering"} /\ status' = "recovering"
        /\ step' = step /\ txn' = txn
        /\ lease' = [holder |-> w, live |-> TRUE]
        /\ drive'[w].pc = "enter"
    BY <1>1 DEF Claim, Claimable, LeasedActive, Guarded, WithPerson, Typed,
                DrivesTyped, Drive
  <2>2. \A v \in Worker : Owns(v)' => v = w
    BY <2>1 DEF Owns
  <2> QED
    BY <2>1, <2>2, QuietSessions DEF Guarded, Holding, WithPerson
<1>2. CASE ConfirmCancel(w) \/ CheckpointUnavailable(w)
  BY <1>2, GuardedWhenStopped
  DEF ConfirmCancel, CheckpointUnavailable, SetRun, WithPerson
<1>3. CASE RefuseRun(w)
  BY <1>3, FailRunGuarded DEF RefuseRun
<1>4. ~EnterPaused(w)
  BY DEF EnterPaused, Guarded, Holding
<1> QED
  BY <1>1, <1>2, <1>3, <1>4 DEF EnterStep

\* Recovery finds an open write running under its intent, and halts.
LEMMA ResolveStepGuarded ==
  ASSUME Writes1, NEW s \in OpenWrites, Guarded(s), NEW w \in Worker,
         ResolveStep(w)
  PROVE  /\ Guarded(s)'
         /\ status = "recovering" /\ s \in InterruptedWrites
         /\ Halt(w) /\ ~Rescan(w) /\ ~OnlyFinishedProbes
<1> USE DEF Writes1
<1>1. ~WriteBoundary(w)
  BY DEF WriteBoundary, Guarded, Holding
<1>2. Resolving(w)
  BY <1>1 DEF ResolveStep, ResolveFresh, ResolveResume, ResolveFinishedProbes,
              ResolveManyActions, ResolveInterruptedWrite, ResolveWaiting,
              ResolveApproved, ResolveProposed, ResolvePostAction,
              ResolveNoAction, Rescan, AtMostOneAction, Preflight
<1>3. status = "recovering" /\ step[s] = "running"
  BY <1>2 DEF Resolving, Guarded, Holding, WithPerson, OpenWrites, OpenStatus
<1>4. s \in ActionSteps /\ s \notin Probe
  BY <1>3, WritesAreActions DEF ActionSteps, Present, OpenWrites, Observation
<1>5. s \in InterruptedWrites
  BY <1>3, <1>4 DEF InterruptedWrites, Interrupted, In, ActionSteps, Declared
<1>6. ~OnlyFinishedProbes /\ NeedsPreflight /\ ~Rescan(w)
  BY <1>3, <1>4, <1>5 DEF OnlyFinishedProbes, NeedsPreflight, Rescan
<1>7. Halt(w)
  BY <1>1, <1>6 DEF ResolveStep, ResolveFresh, ResolveResume,
                    ResolveFinishedProbes, ResolveManyActions,
                    ResolveInterruptedWrite, ResolveWaiting, ResolveApproved,
                    ResolveProposed, ResolvePostAction, ResolveNoAction
<1>8. Guarded(s)'
  BY <1>7, GuardedWhenStopped DEF Halt, SetRun, WithPerson
<1> QED
  BY <1>3, <1>5, <1>6, <1>7, <1>8

\* The planner stands still: needs_attention is not proposable.
LEMMA PlanStepGuarded ==
  ASSUME Writes1, NEW s \in OpenWrites, Guarded(s), NEW w \in Worker, PlanStep(w)
  PROVE  PlannerFails(w) /\ Guarded(s)'
<1>1. Planning(w) => status \notin Proposable
  BY DEF Planning, AtNode, Guarded, Holding, Proposable
<1>2. PlannerFails(w)
  BY <1>1 DEF PlanStep, ProposeProbe, ProposeVerification, ProposePlan, Finish
<1> QED
  BY <1>2, FailRunGuarded DEF PlannerFails

\* The policy and pause nodes, a review and the settlement are not reached.
LEMMA PolicyStepGuarded ==
  ASSUME NEW s \in OpenWrites, Guarded(s), NEW w \in Worker
  PROVE  ~PolicyStep(w)
  BY DEF PolicyStep, PolicyAllow, PolicyNothing, PolicyAuthorised, PolicyAsk,
         GuardianClaim, GuardianAnswer, GuardianTooLate, PauseCheck, Settle,
         PolicyOnPlan, Reviewing, AtNode, Guarded, Holding

\* The expansion of the plan stops at the write of unknown outcome.
LEMMA ExecuteNodeStepGuarded ==
  ASSUME Writes1, NEW s \in OpenWrites, Guarded(s), NEW w \in Worker,
         ExecuteNodeStep(w)
  PROVE  FailPlan(w) /\ Guarded(s)'
<1> USE DEF Writes1
<1>1. ~Executing(w)
  BY DEF Executing, AtNode, Guarded, Holding
<1>2. Expanding(w) => /\ status = "needs_attention" /\ drive[w].at = s
                      /\ step[s] = "outcome_unknown" /\ HasAction(w)
  <2>1. s \in Plan \X Writes
    BY DEF OpenWrites, WriteStep
  <2>2. s[2] \in 1 .. PlanLen
    BY <2>1, ConstantsAssumption
  <2> QED
    BY <2>2, ConstantsAssumption DEF Expanding, Guarded, Holding, HasAction
<1>3. FailPlan(w)
  BY <1>1, <1>2 DEF ExecuteNodeStep, SkipExecute, ExecuteStep, InvalidatePlan,
                    StartPlan, WillExecute, ExpandAction, CompletePlan
<1>4. Owns(w) /\ status = "needs_attention"
  BY <1>2, <1>3 DEF FailPlan, Expanding
<1>5. /\ status' = status /\ lease' = lease /\ txn' = txn
      /\ drive'[w].pc = "graph" /\ drive'[w].cur.node = "decide"
  <2>1. drive[w].cur \in Cursor /\ drive \in [Worker -> Drive]
    BY CursorTyped DEF Typed, DrivesTyped
  <2> QED
    BY <1>3, <2>1 DEF FailPlan, ToDecide, MoveTo, Cursor
<1> QED
  BY <1>3, <1>4, <1>5, GuardedWhenMoved DEF Holding, WithPerson

\* Nothing begins while a write is open, because the owner of the Run is not
\* where a step begins.
LEMMA NothingBegins ==
  ASSUME NEW s \in OpenWrites, Guarded(s), NEW w \in Worker
  PROVE  ~BeginStep(w)
  BY DEF BeginStep, Guarded, Holding

\* A launch, by the owner that has the write in hand or by a stale worker.
LEMMA LaunchGuarded ==
  ASSUME Writes1, NEW s \in OpenWrites, Guarded(s), NEW w \in Worker, Launch(w)
  PROVE  Guarded(s)'
<1> USE DEF Writes1
<1>1. /\ status' = status /\ step' = step /\ lease' = lease /\ txn' = txn
      /\ drive'[w].pc = "remote" /\ drive'[w].at = drive[w].at
      /\ \A v \in Worker \ {w} : drive'[v] = drive[v]
  BY CursorTyped DEF Launch, dbVars, Typed, DrivesTyped, Drive
<1>2. CASE Owns(w)
  <2>1. drive[w].at = s /\ status = "running"
    BY <1>2 DEF Launch, Guarded, Holding
  <2> QED
    BY <1>1, <1>2, <2>1, GuardedWhenMoved DEF Holding, Guarded
<1>3. CASE ~Owns(w)
  <2>1. \A v \in Worker : Owns(v)' => v # w /\ Owns(v)
    BY <1>1, <1>3 DEF Owns
  <2> QED
    BY <1>1, <2>1, QuietSessions, GuardedWhenQuiet
<1> QED
  BY <1>2, <1>3

\* The outcome that leaves the write open is the unknown one: it stops the Run
\* for a person, and the owner goes on to the end of the drive.
LEMMA RecordGuarded ==
  ASSUME Writes1, NEW s \in OpenWrites, Guarded(s), NEW w \in Worker,
         s \in OpenWrites',
         \/ \E r : RecordNotStarted(w, r)
         \/ \E ok : RecordExit(w, ok)
         \/ \E r, stopped : RecordInterruptedWrite(w, r, stopped)
         \/ \E r, stopped : RecordInterruptedRead(w, r, stopped)
  PROVE  Guarded(s)'
<1> USE DEF Writes1
<1>0. step \in [StepId -> StepStatus \cup {"absent"}] /\ s \in StepId
      /\ s \in WriteStep /\ step'[s] \in OpenStatus
  BY WritesAreActions DEF Typed, DatabaseTyped, OpenWrites
<1>1. drive[w].pc \in AtHost /\ Owns(w)
  BY DEF RecordNotStarted, RecordExit, RecordInterruptedWrite,
         RecordInterruptedRead, Outcome
<1>2. drive[w].at = s
  BY <1>1 DEF Guarded, Holding
<1>3. /\ \A r : ~RecordNotStarted(w, r)
      /\ \A ok : ~RecordExit(w, ok)
      /\ \A r, stopped : ~RecordInterruptedRead(w, r, stopped)
  BY <1>0, <1>2 DEF RecordNotStarted, RecordExit, RecordInterruptedRead, Outcome,
                    SetStep, OpenStatus
<1>4. PICK r, stopped : RecordInterruptedWrite(w, r, stopped)
  BY <1>3
<1>5. /\ status' = "needs_attention" /\ lease' = lease /\ AppendEvent
      /\ step'[s] = "outcome_unknown"
  BY <1>0, <1>2, <1>4 DEF RecordInterruptedWrite, StopForPerson, SetRun, Outcome,
                          SetStep
<1>6. \/ drive'[w].pc = "expand" /\ drive'[w].at = s
      \/ drive'[w].pc = "graph" /\ drive'[w].cur.node = "decide"
  <2>1. /\ drive[w] \in Drive /\ drive[w].cur \in Cursor
        /\ drive \in [Worker -> Drive]
    BY CursorTyped DEF Typed, DrivesTyped
  <2>2. CASE drive[w].cur.pending \in Plan
    BY <1>2, <1>4, <2>1, <2>2
    DEF RecordInterruptedWrite, Outcome, AfterStep, Drive
  <2>3. CASE drive[w].cur.pending \notin Plan
    BY <1>4, <2>1, <2>3
    DEF RecordInterruptedWrite, Outcome, AfterStep, ToDecide, MoveTo, Cursor
  <2> QED
    BY <2>2, <2>3
<1> QED
  BY <1>1, <1>5, <1>6, GuardedWhenMoved DEF Holding, WithPerson

\* The end of the drive lets go of a Run that is with a person.
LEMMA EndStepGuarded ==
  ASSUME Writes1, NEW s \in OpenWrites, Guarded(s), NEW w \in Worker, EndStep(w)
  PROVE  Guarded(s)'
<1> USE DEF Writes1
<1>1. Owns(w) /\ (AtNode(w, "decide") \/ AtNode(w, "end")) =>
        status = "needs_attention"
  BY DEF AtNode, Guarded, Holding
<1>2. ~FinalizeQueued(w) /\ ~Finalize(w)
  BY <1>1 DEF FinalizeQueued, Finalize, Finalizing, Requeued
<1>3. CASE FinalizeAttention(w)
  BY <1>3, GuardedWhenStopped DEF FinalizeAttention
<1>4. CASE Decide(w)
  <2>1. /\ status' = status /\ step' = step /\ lease' = lease /\ txn' = txn
        /\ Owns(w) /\ status = "needs_attention"
    BY <1>1, <1>4 DEF Decide, dbVars
  <2>2. drive[w].cur \in Cursor /\ drive \in [Worker -> Drive]
    BY CursorTyped DEF Typed, DrivesTyped
  <2> DEFINE c == drive[w].cur
             done(why) == [c EXCEPT !.node = "end", !.loops = @ + 1,
                                    !.why = why, !.pending = None,
                                    !.skip = FALSE]
  <2>3. PICK k : MoveTo(w, k) /\ k.node \in {"plan", "end"}
    <3>1. \A why : done(why).node = "end"
      BY <2>2 DEF Cursor
    <3>2. [FreshCursor EXCEPT !.loops = c.loops + 1].node = "plan"
      BY DEF FreshCursor
    <3>3. \E k \in {done("cancelled"), done("budget_exhausted"),
                    done("exhausted"),
                    [FreshCursor EXCEPT !.loops = c.loops + 1]} : MoveTo(w, k)
      BY <1>4 DEF Decide
    <3> QED
      BY <3>1, <3>2, <3>3
  <2>4. drive'[w].pc = "graph" /\ drive'[w].cur.node \in {"plan", "end"}
    BY <2>2, <2>3 DEF MoveTo
  <2> QED
    BY <2>1, <2>4, GuardedWhenMoved DEF Holding, WithPerson
<1> QED
  BY <1>2, <1>3, <1>4 DEF EndStep

\* Everything a worker does while a write is open.
LEMMA WorkerStepGuarded ==
  ASSUME Writes1, NEW s \in OpenWrites, Guarded(s), NEW w \in Worker,
         WorkerStep(w), s \in OpenWrites'
  PROVE  Guarded(s)'
<1> USE DEF Writes1
<1>1. CASE SaveCheckpoint(w)
  <2>1. /\ status' = status /\ step' = step /\ lease' = lease /\ txn' = txn
        /\ Owns(w)
    BY <1>1 DEF SaveCheckpoint, dbVars
  <2>2. /\ drive'[w].pc = drive[w].pc /\ drive'[w].at = drive[w].at
        /\ drive'[w].cur = drive[w].cur
    BY <1>1, CursorTyped DEF SaveCheckpoint, Typed, DrivesTyped, Drive
  <2>3. Holding(w, s)'
    BY <2>1, <2>2 DEF Guarded, Holding
  <2> QED
    BY <2>1, <2>3, GuardedWhenMoved DEF Guarded
<1>2. CASE DurationExhausted(w)
  <2>1. CASE FailRun(w)
    BY <2>1, FailRunGuarded
  <2>2. CASE ~FailRun(w)
    BY <1>2, <2>2, GuardedWhenStopped DEF DurationExhausted
  <2> QED
    BY <2>1, <2>2
<1>3. CASE AbandonDrive(w)
  <2>1. /\ status' = status /\ step' = step /\ lease' = lease /\ txn' = txn
        /\ \A v \in Worker \ {w} : drive'[v] = drive[v]
        /\ drive'[w].pc = "idle"
    BY <1>3 DEF AbandonDrive, StopDriving, Idle, dbVars, Typed, DrivesTyped
  <2>2. CASE Owns(w)
    BY <2>1, <2>2, GuardedWhenMoved DEF Guarded, Holding
  <2>3. CASE ~Owns(w)
    <3>1. \A v \in Worker : Owns(v)' => v # w /\ Owns(v)
      BY <2>1, <2>3 DEF Owns
    <3> QED
      BY <2>1, <3>1, QuietSessions, GuardedWhenQuiet
  <2> QED
    BY <2>2, <2>3
<1>4. CASE ExecutorStep(w)
  BY <1>4, NothingBegins, LaunchGuarded, RecordGuarded DEF ExecutorStep
<1> QED
  BY <1>1, <1>2, <1>3, <1>4, EnterStepGuarded, ResolveStepGuarded,
     PlanStepGuarded, PolicyStepGuarded, ExecuteNodeStepGuarded, EndStepGuarded
  DEF WorkerStep

\* An open write stays guarded until it is settled.
LEMMA OpenStaysGuarded ==
  ASSUME Writes1, NEW s \in OpenWrites, Guarded(s), [Next]_vars,
         s \in OpenWrites'
  PROVE  Guarded(s)'
<1>1. CASE UNCHANGED vars
  BY <1>1, QuietSessions, GuardedWhenQuiet DEF vars, dbVars, Owns, Writes1
<1>2. ASSUME NEW w \in Worker, WorkerStep(w)
      PROVE  Guarded(s)'
  BY <1>2, WorkerStepGuarded
<1> QED
  BY <1>1, <1>2, SessionStepGuarded, RequestCancelGuarded, EnvironmentGuarded
  DEF Next

\* No write opens but by BeginStep.
LEMMA OnlyBeginOpens ==
  ASSUME Writes1, [Next]_vars, \A w \in Worker : ~BeginStep(w)
  PROVE  OpenWrites' \subseteq OpenWrites
<1>1. CASE \E w \in Worker : Launch(w)
  BY <1>1 DEF Launch, dbVars, OpenWrites
<1>2. CASE \A w \in Worker : ~Launch(w)
  BY <1>2, NextAside
  DEF Aside, MovesAside, OpenWrites, OpenStatus, TerminalStep
<1> QED
  BY <1>1, <1>2

\* The write that begins is the only open one, in the hand of the owner.
LEMMA BeginStepGuards ==
  ASSUME Writes1, Watched, NEW w \in Worker, BeginStep(w)
  PROVE  Single' /\ Watched'
<1>0. PICK a : a = drive[w].at
  OBVIOUS
<1>1. OpenWrites = {}
  BY NothingBegins DEF Watched
<1>2. step' = [step EXCEPT ![a] = "running"] /\ step[a] = "approved"
  BY <1>0 DEF BeginStep
<1>3. OpenWrites' \subseteq {a} /\ (a \in StepId => step'[a] = "running")
  BY <1>1, <1>2, WritesAreActions DEF OpenWrites, Writes1, Typed, DatabaseTyped
<1>4. ASSUME a \in OpenWrites'
      PROVE  Guarded(a)'
  <2>1. /\ status' = "running" /\ lease' = lease /\ Owns(w) /\ AppendEvent
    BY DEF BeginStep
  <2>2. drive'[w].pc = "launch" /\ drive'[w].at = a
    BY <1>0, CursorTyped DEF BeginStep, Writes1, Typed, DrivesTyped, Drive
  <2>3. \A v \in Worker : Owns(v)' => v = w
    BY <2>1 DEF Owns
  <2>4. step'[a] = "running"
    BY <1>3, <1>4, WritesAreActions DEF OpenWrites
  <2> QED
    BY <2>1, <2>2, <2>3, <2>4, EventStopsSessions
    DEF Guarded, Holding, Writes1
<1> QED
  BY <1>3, <1>4 DEF Single, Watched

\* The whole invariant is inductive.
LEMMA Writes2Step ==
  ASSUME Writes2, [Next]_vars
  PROVE  Writes2'
<1> USE DEF Writes2
<1>1. CASE \E w \in Worker : BeginStep(w)
  BY <1>1, WritesStep, BeginStepGuards
<1>2. CASE \A w \in Worker : ~BeginStep(w)
  <2>1. OpenWrites' \subseteq OpenWrites
    BY <1>2, OnlyBeginOpens
  <2>2. Single'
    BY <2>1 DEF Single
  <2>3. Watched'
    BY <2>1, OpenStaysGuarded DEF Watched
  <2> QED
    BY <2>2, <2>3, WritesStep
<1> QED
  BY <1>1, <1>2

LEMMA Writes2Invariant == Spec => []Writes2
<1>1. Init => Writes2
  <2> SUFFICES ASSUME Init PROVE Writes2
    OBVIOUS
  <2>1. OpenWrites = {}
    BY WritesAreActions DEF Init, OpenWrites, OpenStatus
  <2> QED
    BY <2>1, TypedInit, WritesInit DEF Writes2, Writes1, Single, Watched
<1> QED
  BY <1>1, Writes2Step, PTL DEF Spec

\* At most one write command of the Run is on the host beside those whose lost
\* transport was recorded as exit code -1, and the database knows of each: its
\* intent is durable and its step is running, unknown, or failed with that code.
THEOREM WritesAreKnown == Spec => []WritesAreAccounted
<1>1. Writes2 => WritesAreAccounted
  <2> SUFFICES ASSUME Writes2 PROVE WritesAreAccounted
    OBVIOUS
  <2>1. \A s \in Loud : s \in OpenWrites
    BY DEF Writes2, Writes1, Declared, Loud
  <2>2. Loud = {} \/ \E s : Loud = {s}
    BY <2>1 DEF Writes2, Single
  <2>3. Cardinality(Loud) \in {0, 1}
    <3>1. CASE Loud = {}
      BY <3>1, FS_EmptySet
    <3>2. CASE \E s : Loud = {s}
      BY <3>2, FS_Singleton
    <3> QED
      BY <2>2, <3>1, <3>2
  <2>4. OneWriteInFlight
    BY <2>3 DEF OneWriteInFlight
  <2>5. WriteInFlightIsRecorded
    BY DEF WriteInFlightIsRecorded, Writes2, Writes1, Declared, OpenWrites,
           OpenStatus, Typed, DatabaseTyped
  <2> QED
    BY <2>4, <2>5 DEF WritesAreAccounted
<1> QED
  BY <1>1, Writes2Invariant, PTL

\* A Run with a write of unknown outcome is with a person or has ended badly.
THEOREM UnknownWritesStop == Spec => []UnknownWriteStopsRun
<1>1. Writes2 => UnknownWriteStopsRun
  BY DEF Writes2, Watched, Guarded, OpenWrites, OpenStatus, WithPerson,
         UnknownWriteStopsRun
<1> QED
  BY <1>1, Writes2Invariant, PTL

-----------------------------------------------------------------------------
\* The rows of the steps.  Workers and request_cancel move a row only along
\* state.py's table, or insert it; the three unlocked commits overwrite the row
\* of the plan they read.

LegalRow(s) ==
  \/ step'[s] = step[s]
  \/ StepLegal(step[s], step'[s])
  \/ step[s] = "absent" /\ step'[s] # "absent"

Rows == \A s \in StepId : LegalRow(s)

LEMMA RowsQuiet ==
  ASSUME step' = step
  PROVE  Rows
  BY DEF Rows, LegalRow

\* One row is written, legally or as a new one.
LEMMA RowsBySet ==
  ASSUME Typed, NEW x, NEW to, step' = [step EXCEPT ![x] = to],
         \/ StepLegal(step[x], to)
         \/ step[x] = to
         \/ step[x] = "absent" /\ to # "absent"
  PROVE  Rows
  BY DEF Rows, LegalRow, Typed, DatabaseTyped

\* The scan of interrupted steps sends running ones back to approved.
LEMMA RowsByRescan ==
  ASSUME Typed, NEW w \in Worker, Rescan(w)
  PROVE  Rows
  BY DEF Rescan, Scanned, Retried, Interrupted, In, Rows, LegalRow, StepLegal

LEMMA RequestCancelRows ==
  ASSUME Typed, RequestCancel
  PROVE  Rows
  BY DEF RequestCancel, Rows, LegalRow, StepLegal

LEMMA ResolveStepRows ==
  ASSUME Typed, NEW w \in Worker, ResolveStep(w)
  PROVE  Rows
<1>1. CASE ResolveFresh(w) \/ ResolveResume(w) \/ ResolveFinishedProbes(w)
           \/ ResolveManyActions(w) \/ WriteBoundary(w)
  BY <1>1, RowsQuiet
  DEF ResolveFresh, ResolveResume, ResolveFinishedProbes, ResolveManyActions,
      WriteBoundary, dbVars
<1>2. CASE ResolveInterruptedWrite(w)
  BY <1>2 DEF ResolveInterruptedWrite, Retried, Interrupted, InterruptedWrites,
              In, Present, Rows, LegalRow, StepLegal
<1>3. CASE ResolveWaiting(w) \/ ResolveApproved(w) \/ ResolveProposed(w)
           \/ ResolvePostAction(w) \/ ResolveNoAction(w)
  BY <1>3, RowsByRescan
  DEF ResolveWaiting, ResolveApproved, ResolveProposed, ResolvePostAction,
      ResolveNoAction
<1> QED
  BY <1>1, <1>2, <1>3 DEF ResolveStep

LEMMA PlanStepRows ==
  ASSUME Typed, NEW w \in Worker, PlanStep(w)
  PROVE  Rows
<1>1. \/ step' = step
      \/ \E x : \E to \in {"proposed", "waiting_approval", "approved"} :
           step[x] = "absent" /\ step' = [step EXCEPT ![x] = to]
  <2>1. ASSUME NEW q, ProposeProbe(w, q) \/ ProposeVerification(w, q)
        PROVE  step[q] = "absent" /\ step' = [step EXCEPT ![q] = "proposed"]
    BY <2>1 DEF ProposeProbe, ProposeVerification
  <2>2. ASSUME NEW p, ProposePlan(w, p)
        PROVE  /\ step[p] = "absent"
               /\ \/ step' = [step EXCEPT ![p] = "waiting_approval"]
                  \/ step' = [step EXCEPT ![p] = "approved"]
    BY <2>2 DEF ProposePlan
  <2>3. ASSUME Finish(w) \/ PlannerFails(w)
        PROVE  step' = step
    BY <2>3 DEF Finish, PlannerFails, FailRun, dbVars
  <2> QED
    BY <2>1, <2>2, <2>3 DEF PlanStep
<1> QED
  BY <1>1, RowsQuiet, RowsBySet

LEMMA PolicyStepRows ==
  ASSUME Typed, NEW w \in Worker, PolicyStep(w)
  PROVE  Rows
<1>1. step' = step \/ \E x, to : SetStep(x, to)
  <2>1. ASSUME PolicyAllow(w) \/ GuardianClaim(w)
        PROVE  \E x, to : SetStep(x, to)
    BY <2>1 DEF PolicyAllow, GuardianClaim
  <2>2. ASSUME NEW verdict, GuardianAnswer(w, verdict)
        PROVE  \E x, to : SetStep(x, to)
    BY <2>2 DEF GuardianAnswer
  <2>3. ASSUME PolicyNothing(w) \/ PolicyAuthorised(w) \/ PolicyAsk(w)
               \/ GuardianTooLate(w) \/ PauseCheck(w) \/ Settle(w)
        PROVE  step' = step
    BY <2>3 DEF PolicyNothing, PolicyAuthorised, PolicyAsk, GuardianTooLate,
                PauseCheck, Settle, dbVars
  <2> QED
    BY <2>1, <2>2, <2>3 DEF PolicyStep
<1> QED
  BY <1>1, RowsQuiet, RowsBySet DEF SetStep

LEMMA ExecuteNodeStepRows ==
  ASSUME Typed, NEW w \in Worker, ExecuteNodeStep(w)
  PROVE  Rows
<1>1. CASE SkipExecute(w) \/ ExecuteStep(w)
  BY <1>1, RowsQuiet DEF SkipExecute, ExecuteStep, dbVars
<1>2. CASE InvalidatePlan(w) \/ CompletePlan(w) \/ FailPlan(w)
  BY <1>2, RowsQuiet, RowsBySet
  DEF InvalidatePlan, CompletePlan, FailPlan, SetStep
<1>3. CASE StartPlan(w)
  BY <1>3, RowsBySet DEF StartPlan, WillExecute, Runnable, StepLegal
<1>4. CASE ExpandAction(w)
  BY <1>4, RowsQuiet, RowsBySet DEF ExpandAction
<1> QED
  BY <1>1, <1>2, <1>3, <1>4 DEF ExecuteNodeStep

LEMMA ExecutorStepRows ==
  ASSUME Typed, NEW w \in Worker, ExecutorStep(w)
  PROVE  Rows
<1>1. CASE BeginStep(w)
  BY <1>1, RowsBySet DEF BeginStep, StepLegal
<1>2. CASE Launch(w)
  BY <1>2, RowsQuiet DEF Launch, dbVars
<1>3. ASSUME NEW pc, NEW to, Outcome(w, pc, to)
      PROVE  Rows
  BY <1>3, RowsBySet DEF Outcome, SetStep
<1> QED
  BY <1>1, <1>2, <1>3 DEF ExecutorStep, RecordNotStarted, RecordExit,
     RecordInterruptedWrite, RecordInterruptedRead

LEMMA WorkerStepRows ==
  ASSUME Typed, NEW w \in Worker, WorkerStep(w)
  PROVE  Rows
<1>1. CASE EnterStep(w) \/ EndStep(w) \/ SaveCheckpoint(w) \/ AbandonDrive(w)
           \/ DurationExhausted(w)
  BY <1>1, RowsQuiet
  DEF EnterStep, Claim, ConfirmCancel, RefuseRun, FailRun, CheckpointUnavailable,
      EnterPaused, EndStep, Decide, FinalizeAttention, FinalizeQueued, Finalize,
      SaveCheckpoint, AbandonDrive, DurationExhausted, dbVars
<1> QED
  BY <1>1, ResolveStepRows, PlanStepRows, PolicyStepRows, ExecuteNodeStepRows,
     ExecutorStepRows DEF WorkerStep

\* The unlocked commits: an approval or a rejection, and the two expiries.
Overwrites(x, s) ==
  /\ s = txn[x].step /\ s \in Plan
  /\ \/ CommitDecision(x) /\ step'[s] \in {"approved", "failed"}
     \/ CommitExpiry(x) /\ step'[s] = "cancelled"
     \/ CommitStepExpiry(x) /\ step'[s] = "cancelled"

LEMMA SessionStepRows ==
  ASSUME Typed, NEW x \in Session, SessionStep(x), NEW s \in StepId
  PROVE  step'[s] = step[s] \/ Overwrites(x, s)
<1>0. step \in [StepId -> StepStatus \cup {"absent"}]
  BY DEF Typed, DatabaseTyped
<1>1. CASE CommitDecision(x)
  BY <1>0, <1>1 DEF CommitDecision, Overwrites, Typed, SessionsTyped, TxnShape
<1>2. CASE CommitExpiry(x)
  BY <1>0, <1>2 DEF CommitExpiry, Overwrites, Typed, SessionsTyped, TxnShape
<1>3. CASE CommitStepExpiry(x)
  BY <1>0, <1>3 DEF CommitStepExpiry, Overwrites, Typed, SessionsTyped, TxnShape
<1>4. CASE ~CommitDecision(x) /\ ~CommitExpiry(x) /\ ~CommitStepExpiry(x)
  BY <1>4 DEF SessionStep, ReadDraft, CommitDraft, ReadDecision, ReadExpiry,
              Rollback, dbVars
<1> QED
  BY <1>1, <1>2, <1>3, <1>4

\* Every change of a step's status, in every step of the system.
LEMMA NextRows ==
  ASSUME Typed, [Next]_vars, NEW s \in StepId
  PROVE  LegalRow(s) \/ \E x \in Session : Overwrites(x, s)
<1>1. CASE UNCHANGED vars
  BY <1>1 DEF vars, dbVars, LegalRow
<1>2. CASE Environment
  BY <1>2 DEF Environment, ExpireLease, LoseCheckpoint, RemoteExit, dbVars,
              LegalRow
<1>3. ASSUME NEW x \in Session, SessionStep(x)
      PROVE  LegalRow(s) \/ Overwrites(x, s)
  BY <1>3, SessionStepRows DEF LegalRow
<1> QED
  BY <1>1, <1>2, <1>3, RequestCancelRows, WorkerStepRows DEF Next, Rows

\* A status that ends a step has no successor in the table.
LEMMA TerminalHasNoSuccessor ==
  ASSUME NEW s, step[s] \in TerminalStep, LegalRow(s)
  PROVE  step'[s] = step[s]
  BY DEF LegalRow, StepLegal, TerminalStep

\* The recorded result of an action or an observation is final.
THEOREM OutcomesAreFinal == Spec => ActionOutcomeFinal
<1>1. Typed /\ [Next]_vars =>
        [\A s \in StepId \ Plan :
           step[s] \in TerminalStep => step'[s] = step[s]]_vars
  BY NextRows, TerminalHasNoSuccessor DEF Overwrites
<1> QED
  BY <1>1, TypedInvariant, PTL DEF Spec, ActionOutcomeFinal

-----------------------------------------------------------------------------
\* Nothing is planned or expanded over an open write.

\* No row is inserted.
NothingNew == \A s \in StepId : step[s] = "absent" => step'[s] = "absent"

\* Writing one row that was there before inserts none.
LEMMA NothingNewBySet ==
  ASSUME Typed, NEW x, NEW to,
         \/ SetStep(x, to)
         \/ step[x] # "absent" /\ step' = [step EXCEPT ![x] = to]
  PROVE  NothingNew
  BY DEF NothingNew, SetStep, StepLegal, Typed, DatabaseTyped

LEMMA NothingNewOverOpenWrite ==
  ASSUME Writes1, NEW s \in OpenWrites, Guarded(s), NEW w \in Worker,
         WorkerStep(w)
  PROVE  NothingNew
<1> USE DEF Writes1
<1>1. CASE EnterStep(w) \/ EndStep(w) \/ SaveCheckpoint(w) \/ AbandonDrive(w)
           \/ DurationExhausted(w) \/ Launch(w) \/ PlannerFails(w)
  BY <1>1
  DEF EnterStep, Claim, ConfirmCancel, RefuseRun, FailRun, CheckpointUnavailable,
      EnterPaused, EndStep, Decide, FinalizeAttention, FinalizeQueued, Finalize,
      SaveCheckpoint, AbandonDrive, DurationExhausted, Launch, PlannerFails,
      dbVars, NothingNew
<1>2. CASE ResolveStep(w)
  BY <1>2
  DEF ResolveStep, ResolveFresh, ResolveResume, ResolveFinishedProbes,
      ResolveManyActions, ResolveInterruptedWrite, ResolveWaiting,
      ResolveApproved, ResolveProposed, ResolvePostAction, ResolveNoAction,
      WriteBoundary, Rescan, Scanned, Retried, Interrupted, InterruptedWrites, In,
      Present, dbVars, NothingNew
<1>3. CASE PlanStep(w)
  BY <1>1, <1>3, PlanStepGuarded
<1>4. CASE ExecuteNodeStep(w)
  <2>1. step' = step \/ \E x, to : SetStep(x, to)
    BY <1>4, ExecuteNodeStepGuarded DEF FailPlan
  <2> QED
    BY <2>1, NothingNewBySet DEF NothingNew
<1>5. ASSUME NEW pc, NEW to, Outcome(w, pc, to)
      PROVE  NothingNew
  BY <1>5, NothingNewBySet DEF Outcome
<1>6. CASE ExecutorStep(w)
  BY <1>1, <1>5, <1>6, NothingBegins
  DEF ExecutorStep, RecordNotStarted, RecordExit, RecordInterruptedWrite,
      RecordInterruptedRead
<1> QED
  BY <1>1, <1>2, <1>3, <1>4, <1>6, PolicyStepGuarded DEF WorkerStep

\* A session decides on, or expires, a plan whose row exists.
TxnPresent ==
  \A x \in Session : txn[x].op \in {"approve", "reject", "expire"} =>
                      step[txn[x].step] # "absent"

\* What a session holds after a step: what it held, perhaps made stale, or
\* nothing about a plan, or a plan it has just read as waiting.
HeldAlready(x) ==
  /\ txn'[x].op = txn[x].op /\ txn'[x].step = txn[x].step
  /\ txn'[x].fresh => txn[x].fresh
JustRead(x) ==
  /\ \/ \E p \in Plan, op \in {"approve", "reject"} : ReadDecision(x, p, op)
     \/ \E p \in Plan : ReadExpiry(x, p)
  /\ step[txn'[x].step] = "waiting_approval"
SessionMove(x) ==
  \/ HeldAlready(x)
  \/ txn'[x].op \in {"none", "start", "expire_draft"}
  \/ JustRead(x)

LEMMA SessionMoves ==
  ASSUME Typed, [Next]_vars, NEW x \in Session
  PROVE  SessionMove(x)
<1> USE DEF SessionMove
<1>0. txn \in [Session -> Txn]
  BY DEF Typed, SessionsTyped
<1>1. ASSUME txn' = txn \/ AppendEvent
      PROVE  SessionMove(x)
  BY <1>0, <1>1 DEF AppendEvent, HeldAlready, Txn
<1>2. ASSUME NEW y \in Session, SessionStep(y), y # x
      PROVE  SessionMove(x)
  <2>1. txn'[x] = txn[x] \/ txn'[x] = [txn[x] EXCEPT !.fresh = FALSE]
    BY <1>0, <1>2 DEF SessionStep, ReadDraft, CommitDraft, ReadDecision,
                      CommitDecision, ReadExpiry, CommitExpiry,
                      CommitStepExpiry, Rollback, CommitWithEvent
  <2> QED
    BY <1>0, <2>1 DEF HeldAlready, Txn
<1>3. ASSUME SessionStep(x)
      PROVE  SessionMove(x)
  <2>1. ASSUME NEW op \in {"start", "expire_draft"}, ReadDraft(x, op)
        PROVE  SessionMove(x)
    BY <1>0, <2>1 DEF ReadDraft
  <2>2. ASSUME CommitDraft(x) \/ CommitDecision(x) \/ CommitExpiry(x)
               \/ CommitStepExpiry(x) \/ Rollback(x)
        PROVE  SessionMove(x)
    BY <1>0, <2>2 DEF CommitDraft, CommitDecision, CommitExpiry,
                      CommitStepExpiry, Rollback, CommitWithEvent, NoTxn
  <2>3. ASSUME NEW p \in Plan, NEW op \in {"approve", "reject"},
               ReadDecision(x, p, op)
        PROVE  SessionMove(x)
    BY <1>0, <2>3 DEF ReadDecision, JustRead
  <2>4. ASSUME NEW p \in Plan, ReadExpiry(x, p)
        PROVE  SessionMove(x)
    BY <1>0, <2>4 DEF ReadExpiry, JustRead
  <2> QED
    BY <1>3, <2>1, <2>2, <2>3, <2>4 DEF SessionStep
<1>4. ASSUME NEW w \in Worker, WorkerStep(w)
      PROVE  txn' = txn \/ AppendEvent
  <2>1. ASSUME EnterStep(w) \/ SaveCheckpoint(w) \/ DurationExhausted(w)
               \/ EndStep(w) \/ AbandonDrive(w)
        PROVE  txn' = txn \/ AppendEvent
    BY <2>1
    DEF EnterStep, Claim, ConfirmCancel, RefuseRun, FailRun,
        CheckpointUnavailable, EnterPaused, EndStep, Decide, FinalizeAttention,
        FinalizeQueued, Finalize, SaveCheckpoint, AbandonDrive,
        DurationExhausted
  <2>2. ASSUME ResolveStep(w)
        PROVE  txn' = txn \/ AppendEvent
    BY <2>2
    DEF ResolveStep, ResolveFresh, ResolveResume, ResolveFinishedProbes,
        ResolveManyActions, ResolveInterruptedWrite, ResolveWaiting,
        ResolveApproved, ResolveProposed, ResolvePostAction, ResolveNoAction,
        WriteBoundary, Halt
  <2>3. ASSUME PlanStep(w) \/ PolicyStep(w)
        PROVE  txn' = txn \/ AppendEvent
    BY <2>3
    DEF PlanStep, ProposeProbe, ProposeVerification, ProposePlan, Finish,
        PlannerFails, FailRun, PolicyStep, PolicyAllow, PolicyNothing,
        PolicyAuthorised, PolicyAsk, GuardianClaim, GuardianAnswer,
        GuardianTooLate, PauseCheck, Settle
  <2>4. ASSUME ExecuteNodeStep(w) \/ ExecutorStep(w)
        PROVE  txn' = txn \/ AppendEvent
    BY <2>4
    DEF ExecuteNodeStep, SkipExecute, ExecuteStep, InvalidatePlan, StartPlan,
        ExpandAction, FailPlan, CompletePlan, ExecutorStep, BeginStep, Launch,
        RecordNotStarted, RecordExit, RecordInterruptedWrite,
        RecordInterruptedRead, Outcome
  <2> QED
    BY <1>4, <2>1, <2>2, <2>3, <2>4 DEF WorkerStep
<1>5. UNCHANGED vars \/ RequestCancel \/ Environment =>
        txn' = txn \/ AppendEvent
  BY DEF vars, RequestCancel, Environment, ExpireLease, LoseCheckpoint,
         RemoteExit
<1> QED
  BY <1>1, <1>2, <1>3, <1>4, <1>5 DEF Next

\* What a session has read stays there: no row is ever deleted.
LEMMA TxnPresentStep ==
  ASSUME Typed, TxnPresent, [Next]_vars
  PROVE  TxnPresent'
<1> SUFFICES ASSUME NEW x \in Session,
                    txn'[x].op \in {"approve", "reject", "expire"}
             PROVE  step'[txn'[x].step] # "absent"
  BY DEF TxnPresent
<1>1. txn'[x].step \in StepId
  BY TypedStep DEF Typed, SessionsTyped, TxnShape, StepId
<1>2. step[txn'[x].step] # "absent"
  BY SessionMoves DEF SessionMove, HeldAlready, JustRead, TxnPresent
<1>3. \A s \in StepId : step[s] # "absent" => step'[s] # "absent"
  BY NextRows DEF LegalRow, StepLegal, Overwrites
<1> QED
  BY <1>1, <1>2, <1>3

\* While a write is running or has an unknown outcome, no step appears.
THEOREM NothingPlannedOverOpenWrite == Spec => NoPlanningOverOpenWrite
<1>1. Typed /\ Init => TxnPresent
  BY DEF Init, TxnPresent, NoTxn
<1>2. ASSUME Writes2, TxnPresent, [Next]_vars, NEW s \in OpenWrites
      PROVE  Present' = Present
  <2>1. Guarded(s)
    BY <1>2 DEF Writes2, Watched
  <2>2. ASSUME NEW r \in StepId
        PROVE  step'[r] = "absent" <=> step[r] = "absent"
    <3>1. step[r] # "absent" => step'[r] # "absent"
      BY <1>2, NextRows DEF Writes2, Writes1, LegalRow, StepLegal, Overwrites
    <3>2. CASE \E w \in Worker : WorkerStep(w)
      BY <1>2, <2>1, <3>1, <3>2, NothingNewOverOpenWrite
      DEF Writes2, NothingNew
    <3>3. CASE \E x \in Session : SessionStep(x)
      <4>1. PICK x \in Session : SessionStep(x)
        BY <3>3
      <4>2. Overwrites(x, r) => CommitStepExpiry(x)
        BY <2>1 DEF Overwrites, Guarded, MayCommit, CommitDecision, CommitExpiry
      <4>3. CommitStepExpiry(x) /\ Overwrites(x, r) => step[r] # "absent"
        BY <1>2 DEF CommitStepExpiry, Overwrites, TxnPresent
      <4> QED
        BY <1>2, <3>1, <4>1, <4>2, <4>3, SessionStepRows DEF Writes2, Writes1
    <3>4. CASE RequestCancel \/ Environment \/ UNCHANGED vars
      BY <3>1, <3>4 DEF RequestCancel, Environment, ExpireLease, LoseCheckpoint,
                        RemoteExit, vars, dbVars
    <3> QED
      BY <1>2, <3>2, <3>3, <3>4 DEF Next
  <2> QED
    BY <2>2 DEF Present
<1>3. Writes2 /\ TxnPresent /\ [Next]_vars =>
        [(\E s \in WriteStep : step[s] \in {"running", "outcome_unknown"}) =>
           Present' = Present]_vars
  BY <1>2 DEF OpenWrites, OpenStatus
<1>4. Writes2 => Typed
  BY DEF Writes2, Writes1
<1>5. Typed /\ TxnPresent /\ [Next]_vars => TxnPresent'
  BY TxnPresentStep
<1> QED
  BY <1>1, <1>3, <1>4, <1>5, Writes2Invariant, PTL
  DEF Spec, NoPlanningOverOpenWrite

-----------------------------------------------------------------------------
\* Consent, where no Guardian is configured (with one it fails: a worker that
\* dies during a review leaves a running plan, which recovery approves).

Authorised == {"approved", "running", "outcome_unknown", "succeeded"}

\* An executable plan, an action that was inserted, and a plan that a worker
\* expands were all authorised.
Consented ==
  /\ \A p \in Plan : step[p] \in Authorised => p \in consent
  /\ \A s \in PlanAction : step[s] # "absent" => s[1] \in consent
  /\ \A w \in Worker : drive[w].pc = "expand" => drive[w].at[1] \in consent

\* What one step does to the plans, the actions and the expansions.
PlansConsent ==
  /\ consent \subseteq consent'
  /\ \A p \in Plan : step'[p] \in Authorised =>
                       step[p] \in Authorised \/ p \in consent'
ActionsConsent ==
  \A s \in PlanAction : step'[s] # "absent" =>
                         step[s] # "absent" \/ s[1] \in consent
\* A worker comes to expand a plan from its execute node, or back from an action.
ExpandsFrom(w) ==
  drive'[w].pc = "expand" =>
    \/ drive[w].pc = "expand" /\ drive'[w].at[1] = drive[w].at[1]
    \/ drive'[w].at[1] \in Plan /\ step[drive'[w].at[1]] \in Authorised
    \/ /\ drive[w].at \in PlanAction /\ step[drive[w].at] # "absent"
       /\ drive'[w].at[1] = drive[w].at[1]

LEMMA ConsentedKept ==
  ASSUME Consented, PlansConsent, ActionsConsent,
         \A w \in Worker : ExpandsFrom(w)
  PROVE  Consented'
<1>1. \A s \in PlanAction : s[1] \in Plan
  BY DEF PlanAction
<1> QED
  BY <1>1 DEF Consented, PlansConsent, ActionsConsent, ExpandsFrom

\* Where a worker is after a move of the graph.
LEMMA MovedWorker ==
  ASSUME Typed, NEW w \in Worker,
         \/ StopDriving(w)
         \/ \E c : MoveTo(w, c) \/ Rebuild(w, c) \/ LeavePause(w, c)
         \/ Resume(w)
  PROVE  /\ \A v \in Worker \ {w} : drive'[v] = drive[v]
         /\ drive'[w].pc \in {"idle", "graph", "rebuild", "settle"}
<1>0. drive \in [Worker -> Drive]
  BY DEF Typed, DrivesTyped
<1>1. ASSUME NEW c, LeavePause(w, c)
      PROVE  drive'[w].pc \in {"graph", "settle"}
  <2>1. CASE StillWaiting(c)
    BY <1>0, <1>1, <2>1 DEF LeavePause
  <2>2. CASE ~StillWaiting(c)
    BY <1>0, <1>1, <2>2 DEF LeavePause
  <2> QED
    BY <2>1, <2>2
<1>2. ASSUME NEW v \in Worker, v # w
      PROVE  drive'[v] = drive[v]
  BY <1>0, <1>2 DEF StopDriving, MoveTo, Rebuild, LeavePause, Resume
<1>3. StopDriving(w) => drive'[w].pc = "idle"
  BY <1>0 DEF StopDriving, Idle
<1>4. \A c : MoveTo(w, c) => drive'[w].pc = "graph"
  BY <1>0 DEF MoveTo
<1>5. \A c : Rebuild(w, c) => drive'[w].pc = "rebuild"
  BY <1>0 DEF Rebuild
<1>6. Resume(w) => drive'[w].pc = "graph"
  BY <1>0 DEF Resume
<1> QED
  BY <1>1, <1>2, <1>3, <1>4, <1>5, <1>6

\* Nobody comes to expand a plan by a move of the graph.
LEMMA ExpandsByMove ==
  ASSUME Typed, NEW w \in Worker,
         \/ StopDriving(w)
         \/ \E c : MoveTo(w, c) \/ Rebuild(w, c) \/ LeavePause(w, c)
         \/ Resume(w)
  PROVE  \A v \in Worker : ExpandsFrom(v)
  BY MovedWorker DEF ExpandsFrom

\* A step of the graph that writes no row and authorises nothing.
LEMMA ConsentByQuiet ==
  ASSUME step' = step, consent' = consent
  PROVE  PlansConsent /\ ActionsConsent
  BY DEF PlansConsent, ActionsConsent

\* A step that writes one row, not of an action, and takes no consent back.
LEMMA ConsentByRow ==
  ASSUME Typed, NEW x, x \notin PlanAction, NEW to,
         step' = [step EXCEPT ![x] = to],
         consent \subseteq consent',
         x \in Plan /\ to \in Authorised =>
           step[x] \in Authorised \/ x \in consent'
  PROVE  PlansConsent /\ ActionsConsent
<1>1. step \in [StepId -> StepStatus \cup {"absent"}]
  BY DEF Typed, DatabaseTyped
<1>2. PlansConsent
  BY <1>1 DEF PlansConsent, StepId
<1>3. ActionsConsent
  BY <1>1 DEF ActionsConsent, StepId
<1> QED
  BY <1>2, <1>3

LEMMA SessionStepConsent ==
  ASSUME Typed, Consented, NEW x \in Session, SessionStep(x)
  PROVE  Consented'
<1>1. drive' = drive
  BY DEF SessionStep, ReadDraft, CommitDraft, ReadDecision, CommitDecision,
         ReadExpiry, CommitExpiry, CommitStepExpiry, Rollback
<1>2. consent \subseteq consent'
      /\ (CommitDecision(x) /\ txn[x].op = "approve" =>
            txn[x].step \in consent')
      /\ (CommitDecision(x) /\ txn[x].op = "reject" =>
            step' = [step EXCEPT ![txn[x].step] = "failed"])
  BY DEF SessionStep, ReadDraft, CommitDraft, ReadDecision, CommitDecision,
         ReadExpiry, CommitExpiry, CommitStepExpiry, Rollback, ghosts
<1>3. ASSUME NEW p \in Plan, step'[p] \in Authorised
      PROVE  step[p] \in Authorised \/ p \in consent'
  <2>1. p \in StepId /\ step \in [StepId -> StepStatus \cup {"absent"}]
    BY DEF StepId, Typed, DatabaseTyped
  <2> QED
    BY <1>2, <1>3, <2>1, SessionStepRows DEF Overwrites, Authorised, CommitDecision
<1>4. ActionsConsent
  BY SessionStepRows, NamesAssumption DEF ActionsConsent, Overwrites, StepId
<1>5. \A w \in Worker : ExpandsFrom(w)
  BY <1>1 DEF ExpandsFrom
<1> QED
  BY <1>2, <1>3, <1>4, <1>5, ConsentedKept DEF PlansConsent

LEMMA RequestCancelConsent ==
  ASSUME Typed, Consented, RequestCancel
  PROVE  Consented'
<1>1. PlansConsent /\ ActionsConsent
  BY DEF RequestCancel, PlansConsent, ActionsConsent, Authorised, StepId, ghosts
<1>2. \A w \in Worker : ExpandsFrom(w)
  BY DEF RequestCancel, ExpandsFrom
<1> QED
  BY <1>1, <1>2, ConsentedKept

LEMMA ResolveStepConsent ==
  ASSUME Typed, Consented, NEW w \in Worker, ResolveStep(w)
  PROVE  Consented'
<1>1. consent' = consent
  BY DEF ResolveStep, ResolveFresh, ResolveResume, ResolveFinishedProbes,
         ResolveManyActions, ResolveInterruptedWrite, ResolveWaiting,
         ResolveApproved, ResolveProposed, ResolvePostAction, ResolveNoAction,
         WriteBoundary, ghosts
<1>2. \A s \in StepId : \/ step'[s] = step[s]
                        \/ step[s] = "running" /\ step'[s] # "absent"
  BY DEF ResolveStep, ResolveFresh, ResolveResume, ResolveFinishedProbes,
         ResolveManyActions, ResolveInterruptedWrite, ResolveWaiting,
         ResolveApproved, ResolveProposed, ResolvePostAction, ResolveNoAction,
         WriteBoundary, Rescan, Scanned, Retried, Interrupted,
         InterruptedWrites, In, Present, dbVars
<1>3. PlansConsent /\ ActionsConsent
  BY <1>1, <1>2 DEF PlansConsent, ActionsConsent, Authorised, StepId
<1>4. CASE WriteBoundary(w)
  <2>1. CASE drive[w].cur.node = "pause"
    BY <1>3, <1>4, <2>1, ExpandsByMove, ConsentedKept DEF WriteBoundary
  <2>2. CASE drive[w].cur.node # "pause"
    <3>1. \A v \in Worker : ExpandsFrom(v)
      BY <1>4, <2>2, CursorTyped
      DEF WriteBoundary, ExpandsFrom, Typed, DrivesTyped, Drive
    <3> QED
      BY <1>3, <3>1, ConsentedKept
  <2> QED
    BY <2>1, <2>2
<1>5. CASE ~WriteBoundary(w)
  <2>1. \/ StopDriving(w) \/ Resume(w)
        \/ \E c : MoveTo(w, c) \/ Rebuild(w, c)
    BY <1>5 DEF ResolveStep, ResolveFresh, ResolveResume, ResolveFinishedProbes,
                ResolveManyActions, ResolveInterruptedWrite, ResolveWaiting,
                ResolveApproved, ResolveProposed, ResolvePostAction,
                ResolveNoAction, Halt
  <2> QED
    BY <1>3, <2>1, ExpandsByMove, ConsentedKept
<1> QED
  BY <1>4, <1>5

LEMMA PlanStepConsent ==
  ASSUME Typed, Consented, NEW w \in Worker, PlanStep(w)
  PROVE  Consented'
<1>1. \A v \in Worker : ExpandsFrom(v)
  <2>1. StopDriving(w) \/ \E c : MoveTo(w, c)
    BY DEF PlanStep, ProposeProbe, ProposeVerification, ProposePlan, Finish,
           PlannerFails, FailRun, Planned
  <2> QED
    BY <2>1, ExpandsByMove
<1>2. ASSUME NEW q, q \in Observation,
             ProposeProbe(w, q) \/ ProposeVerification(w, q)
      PROVE  PlansConsent /\ ActionsConsent
  <2>1. step' = [step EXCEPT ![q] = "proposed"] /\ consent' = consent
    BY <1>2 DEF ProposeProbe, ProposeVerification, ghosts
  <2> QED
    BY <1>2, <2>1, ConsentByRow, NamesAssumption DEF Authorised
<1>3. ASSUME NEW p \in Plan, ProposePlan(w, p)
      PROVE  PlansConsent /\ ActionsConsent
  <2>1. PICK to : /\ step' = [step EXCEPT ![p] = to]
                  /\ to \in Authorised => p \in consent'
                  /\ consent \subseteq consent'
    BY <1>3 DEF ProposePlan, Authorised
  <2> QED
    BY <2>1, ConsentByRow, NamesAssumption
<1>4. ASSUME Finish(w)
      PROVE  PlansConsent /\ ActionsConsent
  BY <1>4, ConsentByQuiet DEF Finish, dbVars, ghosts
<1>5. ASSUME PlannerFails(w)
      PROVE  PlansConsent /\ ActionsConsent
  BY <1>5, ConsentByQuiet DEF PlannerFails, FailRun, ghosts
<1>6. PlansConsent /\ ActionsConsent
  BY <1>2, <1>3, <1>4, <1>5 DEF PlanStep, Observation
<1> QED
  BY <1>1, <1>6, ConsentedKept

\* The Guardian's approval counts as consent; without a Guardian no review starts.
LEMMA PolicyStepConsent ==
  ASSUME Typed, Consented, ~GuardianWired, NEW w \in Worker, PolicyStep(w)
  PROVE  Consented'
<1>1. ~GuardianClaim(w)
  BY DEF GuardianClaim
<1>2. CASE PolicyAllow(w)
  <2>1. PICK s \in Proposed : SetStep(s, "approved") /\ ToExecute(w, s)
    BY <1>2 DEF PolicyAllow
  <2>2. PlansConsent /\ ActionsConsent
    BY <1>2, <2>1, NamesAssumption
    DEF PolicyAllow, Proposed, In, SetStep, PlansConsent, ActionsConsent, ghosts,
        Typed, DatabaseTyped, StepId
  <2> QED
    BY <2>1, <2>2, ExpandsByMove, ConsentedKept DEF ToExecute
<1>3. ASSUME NEW verdict \in Verdicts,
             GuardianAnswer(w, verdict)
      PROVE  Consented'
  <2> DEFINE p == drive[w].at
  <2>1. p \in Plan
    BY <1>3 DEF GuardianAnswer, Reviewing, Typed, DrivesTyped, DriveShape,
                WorkingOn
  <2>2. PICK to \in {"approved", "failed", "waiting_approval"} :
          step' = [step EXCEPT ![p] = to]
    BY <1>3 DEF GuardianAnswer, SetStep
  <2>3. consent \subseteq consent' /\ step[p] = "running"
    BY <1>3 DEF GuardianAnswer
  <2>4. PlansConsent /\ ActionsConsent
    BY <2>1, <2>2, <2>3, NamesAssumption
    DEF PlansConsent, ActionsConsent, Authorised, Typed, DatabaseTyped, StepId
  <2>5. \E c : MoveTo(w, c)
    BY <1>3 DEF GuardianAnswer, ToExecute, ToPause
  <2> QED
    BY <2>4, <2>5, ExpandsByMove, ConsentedKept
<1>4. CASE PauseCheck(w)
  <2>1. PlansConsent /\ ActionsConsent
    BY <1>4, ConsentByQuiet DEF PauseCheck, dbVars, ghosts
  <2>2. CASE LeavePause(w, drive[w].cur)
    BY <2>1, <2>2, ExpandsByMove, ConsentedKept
  <2>3. CASE drive' = [drive EXCEPT ![w].cur.node = "end"]
    <3>1. drive[w] \in Drive /\ drive[w].pc = "graph" /\ drive \in [Worker -> Drive]
      BY <1>4, CursorTyped DEF Typed, DrivesTyped, PauseCheck, AtNode
    <3>2. \A v \in Worker : ExpandsFrom(v)
      BY <2>3, <3>1 DEF ExpandsFrom, Drive
    <3> QED
      BY <2>1, <3>2, ConsentedKept
  <2> QED
    BY <1>4, <2>2, <2>3 DEF PauseCheck
<1>5. CASE PolicyNothing(w) \/ PolicyAuthorised(w) \/ PolicyAsk(w)
           \/ GuardianTooLate(w) \/ Settle(w)
  <2>1. PlansConsent /\ ActionsConsent
    BY <1>5, ConsentByQuiet DEF PolicyNothing, PolicyAuthorised, PolicyAsk,
                                GuardianTooLate, Settle, dbVars, ghosts
  <2>2. StopDriving(w) \/ \E c : MoveTo(w, c)
    BY <1>5 DEF PolicyNothing, PolicyAuthorised, PolicyAsk, GuardianTooLate,
                Settle, ToExecute, ToPause
  <2> QED
    BY <2>1, <2>2, ExpandsByMove, ConsentedKept
<1> QED
  BY <1>1, <1>2, <1>3, <1>4, <1>5 DEF PolicyStep

\* Only an authorised plan is expanded, so only its actions are inserted.
LEMMA ExecuteNodeStepConsent ==
  ASSUME Typed, Consented, NEW w \in Worker, ExecuteNodeStep(w)
  PROVE  Consented'
<1>0. drive[w] \in Drive /\ drive \in [Worker -> Drive]
  BY CursorTyped DEF Typed, DrivesTyped
<1>1. consent' = consent
  BY DEF ExecuteNodeStep, SkipExecute, ExecuteStep, InvalidatePlan, StartPlan,
         ExpandAction, FailPlan, CompletePlan, ghosts
<1>2. CASE SkipExecute(w)
  BY <1>1, <1>2, ConsentByQuiet, ExpandsByMove, ConsentedKept
  DEF SkipExecute, ToDecide, dbVars
<1>3. CASE ExecuteStep(w)
  <2>1. \A v \in Worker : ExpandsFrom(v)
    BY <1>0, <1>3 DEF ExecuteStep, ExpandsFrom, Drive
  <2> QED
    BY <1>1, <1>3, <2>1, ConsentByQuiet, ConsentedKept DEF ExecuteStep, dbVars
<1>4. CASE InvalidatePlan(w)
  <2>1. PlansConsent /\ ActionsConsent
    BY <1>1, <1>4, ConsentByRow, NamesAssumption
    DEF InvalidatePlan, SetStep, Authorised
  <2> QED
    BY <1>4, <2>1, ExpandsByMove, ConsentedKept DEF InvalidatePlan, ToDecide
<1>5. CASE StartPlan(w)
  <2>1. Target(w) \in Plan /\ step[Target(w)] \in Authorised
    BY <1>5, NamesAssumption DEF StartPlan, WillExecute, Runnable, Authorised
  <2>2. PlansConsent /\ ActionsConsent
    BY <1>1, <1>5, <2>1, ConsentByRow, NamesAssumption DEF StartPlan
  <2>3. drive'[w].at[1] = Target(w) /\ \A v \in Worker \ {w} : drive'[v] = drive[v]
    BY <1>0, <1>5 DEF StartPlan, Drive
  <2>4. \A v \in Worker : ExpandsFrom(v)
    BY <2>1, <2>3 DEF ExpandsFrom
  <2> QED
    BY <2>2, <2>4, ConsentedKept
<1>6. CASE ExpandAction(w)
  <2>1. PICK a : a = drive[w].at
    OBVIOUS
  <2>2. a \in PlanAction /\ a[1] \in consent /\ drive[w].pc = "expand"
    <3>1. drive[w].pc = "expand" /\ a[2] <= PlanLen
      BY <1>6, <2>1 DEF ExpandAction, Expanding, HasAction
    <3>2. a \in Plan \X (1 .. PlanLen + 1)
      BY <2>1, <3>1 DEF Typed, DrivesTyped, DriveShape, WorkingOn
    <3>3. a = <<a[1], a[2]>> /\ a[1] \in Plan /\ a[2] \in 1 .. PlanLen
      BY <3>1, <3>2, ConstantsAssumption
    <3>4. a \in PlanAction
      BY <3>3 DEF PlanAction
    <3> QED
      BY <2>1, <3>1, <3>4 DEF Consented
  <2>3. \/ step' = step
        \/ step' = [step EXCEPT ![a] = "approved"]
    BY <1>6, <2>1 DEF ExpandAction
  <2>4. PlansConsent
    BY <1>1, <2>2, <2>3, NamesAssumption
    DEF PlansConsent, Typed, DatabaseTyped, StepId
  <2>5. ActionsConsent
    BY <2>2, <2>3 DEF ActionsConsent, Typed, DatabaseTyped, StepId
  <2>6. \/ drive' = [drive EXCEPT ![w].pc = "begin"]
        \/ drive' = [drive EXCEPT ![w].at = <<a[1], a[2] + 1>>]
    BY <1>6, <2>1 DEF ExpandAction
  <2>7. \A v \in Worker : ExpandsFrom(v)
    BY <1>0, <2>1, <2>2, <2>6 DEF ExpandsFrom, Drive
  <2> QED
    BY <2>4, <2>5, <2>7, ConsentedKept
<1>7. CASE FailPlan(w) \/ CompletePlan(w)
  <2>1. drive[w].at[1] \in Plan
    BY <1>7 DEF FailPlan, CompletePlan, Expanding, Typed, DrivesTyped,
                DriveShape, WorkingOn
  <2>2. \/ step' = step
        \/ step' = [step EXCEPT ![drive[w].at[1]] = "failed"]
        \/ /\ step' = [step EXCEPT ![drive[w].at[1]] = "succeeded"]
           /\ step[drive[w].at[1]] \in {"running", "outcome_unknown"}
    BY <1>7 DEF FailPlan, CompletePlan, SetStep, StepLegal
  <2>3. drive[w].pc = "expand" /\ drive[w].at[1] \in consent
    BY <1>7 DEF FailPlan, CompletePlan, Expanding, Consented
  <2>4. PlansConsent /\ ActionsConsent
    <3>1. CASE step' = step
      BY <1>1, <3>1, ConsentByQuiet
    <3>2. ASSUME NEW to, step' = [step EXCEPT ![drive[w].at[1]] = to]
          PROVE  PlansConsent /\ ActionsConsent
      BY <1>1, <2>1, <2>3, <3>2, ConsentByRow, NamesAssumption
    <3> QED
      BY <2>2, <3>1, <3>2
  <2> QED
    BY <1>7, <2>4, ExpandsByMove, ConsentedKept
    DEF FailPlan, CompletePlan, ToDecide
<1> QED
  BY <1>2, <1>3, <1>4, <1>5, <1>6, <1>7 DEF ExecuteNodeStep

\* After an action of a plan the worker expands the plan of that action.
LEMMA OutcomeConsent ==
  ASSUME Typed, Consented, NEW w \in Worker, NEW pc \in AtHost,
         NEW to \in TerminalStep \cup {"outcome_unknown"},
         Outcome(w, pc, to), consent' = consent
  PROVE  Consented'
<1>0. drive[w] \in Drive /\ drive \in [Worker -> Drive]
  BY CursorTyped DEF Typed, DrivesTyped
<1>1. PICK a : a = drive[w].at
  OBVIOUS
<1>2. step' = [step EXCEPT ![a] = to] /\ StepLegal(step[a], to)
      /\ drive[w].pc = pc
  BY <1>1 DEF Outcome, SetStep
<1>3. PlansConsent /\ ActionsConsent
  <2>1. step[a] # "absent" /\ (to \in Authorised => step[a] \in Authorised)
    BY <1>2 DEF StepLegal, Authorised, TerminalStep
  <2> QED
    BY <1>2, <2>1 DEF PlansConsent, ActionsConsent, Typed, DatabaseTyped
<1>4. CASE drive[w].cur.pending \notin Plan
  BY <1>3, <1>4, ExpandsByMove, ConsentedKept DEF Outcome, AfterStep, ToDecide
<1>5. CASE drive[w].cur.pending \in Plan
  <2>1. a \in PlanAction /\ step[a] # "absent"
    BY <1>1, <1>2, <1>5 DEF Typed, DrivesTyped, DriveShape, WorkingOn, StepLegal
  <2>2. PICK x : x[1] = a[1]
                 /\ drive' = [drive EXCEPT ![w].pc = "expand", ![w].at = x]
    BY <1>1, <1>5 DEF Outcome, AfterStep
  <2>3. \A v \in Worker : ExpandsFrom(v)
    BY <1>0, <1>1, <2>1, <2>2 DEF ExpandsFrom, Drive
  <2> QED
    BY <1>3, <2>3, ConsentedKept
<1> QED
  BY <1>4, <1>5

LEMMA ExecutorStepConsent ==
  ASSUME Typed, Consented, NEW w \in Worker, ExecutorStep(w)
  PROVE  Consented'
<1>0. drive[w] \in Drive /\ drive \in [Worker -> Drive]
  BY CursorTyped DEF Typed, DrivesTyped
<1>1. CASE BeginStep(w)
  <2>1. PICK a : /\ step[a] = "approved" /\ consent' = consent
                 /\ step' = [step EXCEPT ![a] = "running"]
    BY <1>1 DEF BeginStep, ghosts
  <2>2. PlansConsent /\ ActionsConsent
    BY <2>1 DEF PlansConsent, ActionsConsent, Authorised, Typed, DatabaseTyped
  <2>3. \A v \in Worker : ExpandsFrom(v)
    BY <1>0, <1>1 DEF BeginStep, ExpandsFrom, Drive
  <2> QED
    BY <2>2, <2>3, ConsentedKept
<1>2. CASE Launch(w)
  <2>1. \A v \in Worker : ExpandsFrom(v)
    BY <1>0, <1>2 DEF Launch, ExpandsFrom, Drive
  <2> QED
    BY <1>2, <2>1, ConsentByQuiet, ConsentedKept DEF Launch, dbVars
<1>3. ASSUME NEW pc \in AtHost, NEW to \in TerminalStep \cup {"outcome_unknown"},
             Outcome(w, pc, to), consent' = consent
      PROVE  Consented'
  BY <1>3, OutcomeConsent
<1>4. "launch" \in AtHost /\ "remote" \in AtHost
  OBVIOUS
<1>5. ASSUME ~BeginStep(w), ~Launch(w)
      PROVE  /\ consent' = consent
             /\ \E pc \in AtHost, to \in TerminalStep \cup {"outcome_unknown"} :
                  Outcome(w, pc, to)
  BY <1>4, <1>5 DEF ExecutorStep, RecordNotStarted, RecordExit,
                    RecordInterruptedWrite, RecordInterruptedRead, ghosts,
                    TerminalStep
<1> QED
  BY <1>1, <1>2, <1>3, <1>5

\* The steps of a worker that write no row.
LEMMA QuietWorkerConsent ==
  ASSUME Typed, Consented, NEW w \in Worker,
         \/ EnterStep(w)
         \/ EndStep(w)
         \/ SaveCheckpoint(w)
         \/ DurationExhausted(w)
         \/ AbandonDrive(w)
  PROVE  Consented'
<1>0. drive[w] \in Drive /\ drive \in [Worker -> Drive]
  BY CursorTyped DEF Typed, DrivesTyped
<1>1. step' = step /\ consent' = consent
  BY DEF EnterStep, Claim, ConfirmCancel, RefuseRun, FailRun,
         CheckpointUnavailable, EnterPaused, EndStep, Decide, FinalizeAttention,
         FinalizeQueued, Finalize, SaveCheckpoint, DurationExhausted,
         AbandonDrive, dbVars, ghosts
<1>2. \/ StopDriving(w)
      \/ \E c : MoveTo(w, c) \/ LeavePause(w, c)
      \/ drive' = [drive EXCEPT ![w].pc = "enter"]
      \/ drive' = [drive EXCEPT ![w].saved = TRUE]
  BY DEF EnterStep, Claim, ConfirmCancel, RefuseRun, FailRun,
         CheckpointUnavailable, EnterPaused, EndStep, Decide, FinalizeAttention,
         FinalizeQueued, Finalize, SaveCheckpoint, DurationExhausted,
         AbandonDrive
<1>3. ASSUME \/ drive' = [drive EXCEPT ![w].pc = "enter"]
             \/ drive' = [drive EXCEPT ![w].saved = TRUE]
      PROVE  \A v \in Worker : ExpandsFrom(v)
  BY <1>0, <1>3 DEF ExpandsFrom, Drive
<1>4. \A v \in Worker : ExpandsFrom(v)
  BY <1>2, <1>3, ExpandsByMove
<1> QED
  BY <1>1, <1>4, ConsentByQuiet, ConsentedKept

LEMMA ConsentedStep ==
  ASSUME Typed, Consented, ~GuardianWired, [Next]_vars
  PROVE  Consented'
<1>1. CASE UNCHANGED vars \/ Environment
  BY <1>1 DEF vars, Environment, ExpireLease, LoseCheckpoint, RemoteExit,
              dbVars, ghosts, Consented
<1>2. ASSUME NEW w \in Worker, WorkerStep(w)
      PROVE  Consented'
  BY <1>2, QuietWorkerConsent, ResolveStepConsent, PlanStepConsent,
     PolicyStepConsent, ExecuteNodeStepConsent, ExecutorStepConsent
  DEF WorkerStep
<1> QED
  BY <1>1, <1>2, SessionStepConsent, RequestCancelConsent DEF Next

\* A write only reaches the host under a plan that was authorised.
THEOREM ConsentHolds == ~GuardianWired => (Spec => []ConsentedWrites)
<1> SUFFICES ASSUME ~GuardianWired
             PROVE  Spec => []ConsentedWrites
  OBVIOUS
<1>1. Init => Consented
  BY NamesAssumption DEF Init, Consented, Authorised, PlanAction, StepId, Idle
<1>2. Typed /\ Consented /\ [Next]_vars => Consented'
  BY ConsentedStep
<1>3. Writes1 /\ Consented => ConsentedWrites
  <2> SUFFICES ASSUME Writes1, Consented, NEW s \in WriteStep, launches[s] > 0
               PROVE  s[1] \in consent
    BY DEF ConsentedWrites
  <2>1. step[s] \in Started
    BY DEF Writes1, Declared
  <2>2. step[s] # "absent" /\ s \in PlanAction
    BY <2>1, WritesAreActions DEF Started, OpenStatus, TerminalStep
  <2> QED
    BY <2>2 DEF Consented
<1> QED
  BY <1>1, <1>2, <1>3, TypedInvariant, WritesInvariant, PTL DEF Spec

-----------------------------------------------------------------------------
\* Plans, decisions on them, and where the owner of the Run may be.

\* A plan that is neither there nor open any more.
Closed(q) == step[q] \in TerminalStep \cup {"absent"}

\* A plan that waits for a person, or for the Guardian that took it.
Undecided(p) == \/ step[p] = "waiting_approval"
                \/ step[p] = "running" /\ note[p] = "pending"

WaitingOrExpired == \E p \in Plan : step[p] \in {"waiting_approval", "cancelled"}

\* The rows: one open plan; a review that began is of a plan that runs or has
\* ended; and a Run with an undecided plan is neither queued nor running.
OneOpen == \A p, q \in Plan : ~Closed(p) /\ ~Closed(q) => p = q
NotesFollow ==
  \A p \in Plan : note[p] = "pending" =>
                    step[p] \notin {"absent", "waiting_approval", "approved"}
PlansWait == \A s \in StepId : step[s] = "waiting_approval" => s \in Plan
AskedIsParked ==
  \A p \in Plan : Undecided(p) => status \notin {"queued", "running"}
PlanRows == OneOpen /\ NotesFollow /\ PlansWait /\ AskedIsParked

\* What the owner of the Run may rely on at each phase of its drive.
Expands(w) == /\ drive[w].pc \in {"expand", "begin", "launch", "remote"}
              /\ drive[w].cur.pending \in Plan
PlacedEnter(w) ==
  drive[w].pc = "enter" => status \in {"queued", "running", "recovering"}
PlacedExpand(w) == Expands(w) => step[drive[w].at[1]] # "waiting_approval"
PlacedReview(w) ==
  drive[w].pc = "review" /\ step[drive[w].at] = "running" =>
    note[drive[w].at] = "pending"
PlacedSettle(w) ==
  drive[w].pc = "settle" =>
    /\ status # "running"
    /\ status \in {"waiting_approval", "recovering"} => WaitingOrExpired
Placed(w) == /\ PlacedEnter(w) /\ PlacedExpand(w)
             /\ PlacedReview(w) /\ PlacedSettle(w)
OwnerPlaced == \A w \in Worker : Owns(w) => Placed(w)

\* A decision that can still commit: the plan it read as waiting has at most been
\* taken for review or expired since, no other plan is open, and the owner of
\* the Run has not begun to expand it.
Deciding(x, p) ==
  Fresh(x) /\ txn[x].op \in {"approve", "reject"} /\ txn[x].step = p
Apart(w, p) ==
  /\ drive[w].pc = "enter" => status = "recovering"
  /\ step[p] = "running" => \/ drive[w].pc \in {"idle", "enter"}
                            \/ drive[w].pc = "review" /\ drive[w].at = p
  /\ drive[w].pc = "expand" => drive[w].at[1] # p
DecisionOpen(p) ==
  /\ step[p] \in {"waiting_approval", "running", "cancelled"}
  /\ status # "queued"
  /\ \A q \in Plan \ {p} : Closed(q)
  /\ \A w \in Worker : Owns(w) => Apart(w, p)
DecisionsOpen == \A x \in Session, p \in Plan : Deciding(x, p) => DecisionOpen(p)

\* A draft has neither a lease nor a step, and whoever read it as a draft and can
\* still commit finds a draft.
Drafted ==
  /\ \A x \in Session :
       Fresh(x) /\ txn[x].op \in {"start", "expire_draft"} => status = "draft"
  /\ status = "draft" => lease = NoLease /\ \A s \in StepId : step[s] = "absent"

Plans1 == PlanRows /\ OwnerPlaced /\ DecisionsOpen /\ NoRunIsLost
Plans  == Typed /\ TxnPresent /\ Drafted /\ Plans1

-----------------------------------------------------------------------------
\* Drafts.

\* A worker writes no draft, and changes the status as the table allows.
LEMMA WorkerStatus ==
  ASSUME Typed, NEW w \in Worker, WorkerStep(w)
  PROVE  /\ txn' = txn \/ AppendEvent
         /\ status' = status \/ status' # "draft"
         /\ \/ step' = step /\ status' = status /\ lease' = lease
            \/ Owns(w)
            \/ Claim(w)
<1>1. ASSUME EnterStep(w) \/ SaveCheckpoint(w) \/ DurationExhausted(w)
             \/ EndStep(w) \/ AbandonDrive(w)
      PROVE  /\ txn' = txn \/ AppendEvent
             /\ status' = status \/ status' # "draft"
             /\ \/ step' = step /\ status' = status /\ lease' = lease
                \/ Owns(w)
                \/ Claim(w)
  BY <1>1
  DEF EnterStep, Claim, ConfirmCancel, RefuseRun, FailRun, SetRun, RunLegal,
      CheckpointUnavailable, EnterPaused, EndStep, Decide, FinalizeAttention,
      FinalizeQueued, Finalize, Finalizing, SaveCheckpoint, AbandonDrive,
      DurationExhausted, dbVars
<1>2. ASSUME ResolveStep(w)
      PROVE  /\ txn' = txn \/ AppendEvent
             /\ status' = status \/ status' # "draft"
             /\ Owns(w)
  BY <1>2
  DEF ResolveStep, ResolveFresh, ResolveResume, ResolveFinishedProbes,
      ResolveManyActions, ResolveInterruptedWrite, ResolveWaiting,
      ResolveApproved, ResolveProposed, ResolvePostAction, ResolveNoAction,
      WriteBoundary, Halt, Rescan, AtMostOneAction, Preflight, Resolving,
      BecomeRunning, SetRun, RunLegal, dbVars
<1>3. ASSUME PlanStep(w) \/ PolicyStep(w)
      PROVE  /\ txn' = txn \/ AppendEvent
             /\ status' = status \/ status' # "draft"
             /\ Owns(w)
  BY <1>3
  DEF PlanStep, ProposeProbe, ProposeVerification, ProposePlan, Finish, Planning,
      PlannerFails, FailRun, PolicyStep, PolicyAllow, PolicyNothing,
      PolicyAuthorised, PolicyAsk, GuardianClaim, GuardianAnswer, PolicyOnPlan,
      GuardianTooLate, Reviewing, PauseCheck, Settle, SetRun, RunLegal, dbVars
<1>4. ASSUME ExecuteNodeStep(w) \/ ExecutorStep(w)
      PROVE  /\ txn' = txn \/ AppendEvent
             /\ status' = status \/ status' # "draft"
             /\ \/ step' = step /\ status' = status /\ lease' = lease
                \/ Owns(w)
  BY <1>4
  DEF ExecuteNodeStep, SkipExecute, ExecuteStep, InvalidatePlan, StartPlan,
      ExpandAction, FailPlan, CompletePlan, Executing, WillExecute, Expanding,
      ExecutorStep, BeginStep, Launch, RecordNotStarted, RecordExit,
      RecordInterruptedWrite, RecordInterruptedRead, Outcome, StopForPerson,
      SetRun, RunLegal, dbVars
<1> QED
  BY <1>1, <1>2, <1>3, <1>4 DEF WorkerStep

\* An event leaves no session that can commit.
LEMMA EventEndsFresh ==
  ASSUME Typed, AppendEvent
  PROVE  \A x \in Session : ~Fresh(x)'
  BY DEF AppendEvent, Fresh, Typed, SessionsTyped, Txn

\* The commit of one session leaves none that can commit.
LEMMA CommitEndsFresh ==
  ASSUME Typed, NEW x \in Session, CommitWithEvent(x)
  PROVE  \A y \in Session : ~Fresh(y)'
  BY DEF CommitWithEvent, NoTxn, Fresh, Typed, SessionsTyped, Txn

LEMMA DraftedStep ==
  ASSUME Typed, TxnPresent, Drafted, [Next]_vars
  PROVE  Drafted'
<1>1. CASE UNCHANGED vars
  BY <1>1 DEF vars, dbVars, Drafted, Fresh
<1>2. CASE Environment
  BY <1>2 DEF Environment, ExpireLease, LoseCheckpoint, RemoteExit, dbVars,
              Drafted, Fresh, NoLease
<1>3. CASE RequestCancel
  <2>1. status' # "draft" \/ (status' = status /\ lease' = lease /\ step' = step)
    BY <1>3 DEF RequestCancel, SetRun
  <2> QED
    BY <1>3, <2>1, EventEndsFresh DEF RequestCancel, Drafted
<1>4. ASSUME NEW w \in Worker, WorkerStep(w)
      PROVE  Drafted'
  <2>1. CASE step' = step /\ status' = status /\ lease' = lease
    BY <1>4, <2>1, WorkerStatus, EventEndsFresh DEF Drafted, Fresh
  <2>2. CASE Owns(w) \/ Claim(w)
    <3>1. status # "draft"
      BY <2>2, NamesAssumption
      DEF Owns, Claim, Claimable, LeasedActive, Drafted, NoLease
    <3>2. status' # "draft"
      BY <1>4, <3>1, WorkerStatus
    <3> QED
      BY <1>4, <3>1, <3>2, WorkerStatus, EventEndsFresh DEF Drafted, Fresh
  <2> QED
    BY <1>4, <2>1, <2>2, WorkerStatus
<1>5. ASSUME NEW x \in Session, SessionStep(x)
      PROVE  Drafted'
  <2>1. CASE CommitDraft(x) \/ CommitExpiry(x) \/ CommitDecision(x)
    <3>1. status' # "draft" /\ CommitWithEvent(x)
      BY <2>1 DEF CommitDraft, CommitExpiry, CommitDecision, Requeue
    <3> QED
      BY <3>1, CommitEndsFresh DEF Drafted
  <2>2. CASE CommitStepExpiry(x)
    <3>1. status # "draft" /\ status' = status
      BY <2>2, NamesAssumption
      DEF CommitStepExpiry, Drafted, TxnPresent, Typed, SessionsTyped, TxnShape,
          StepId
    <3>2. \A y \in Session : Fresh(y)' => Fresh(y) /\ txn'[y] = txn[y]
      BY <2>2 DEF CommitStepExpiry, Fresh, NoTxn, Typed, SessionsTyped
    <3> QED
      BY <3>1, <3>2 DEF Drafted
  <2>3. ASSUME NEW op \in {"start", "expire_draft"}, ReadDraft(x, op)
        PROVE  Drafted'
    BY <2>3 DEF ReadDraft, Drafted, Fresh, dbVars, Typed, SessionsTyped
  <2>4. ASSUME \/ \E p \in Plan, op \in {"approve", "reject"} :
                    ReadDecision(x, p, op)
               \/ \E p \in Plan : ReadExpiry(x, p)
               \/ Rollback(x)
        PROVE  Drafted'
    BY <2>4 DEF ReadDecision, ReadExpiry, Rollback, Drafted, Fresh, dbVars,
                NoTxn, Typed, SessionsTyped
  <2> QED
    BY <1>5, <2>1, <2>2, <2>3, <2>4 DEF SessionStep
<1> QED
  BY <1>1, <1>2, <1>3, <1>4, <1>5 DEF Next

-----------------------------------------------------------------------------
\* Frames.

\* Rows and status that stay.
LEMMA RowsKept ==
  ASSUME PlanRows, step' = step, note' = note,
         status' = status \/ status' \notin {"queued", "running"}
  PROVE  PlanRows'
  BY DEF PlanRows, OneOpen, NotesFollow, PlansWait, AskedIsParked, Undecided,
         Closed

\* No session that can commit.
LEMMA DecidedByEvent ==
  ASSUME \A x \in Session : ~Fresh(x)'
  PROVE  DecisionsOpen'
  BY DEF DecisionsOpen, Deciding

\* The Run is let go of.
LEMMA ReleasedPlans ==
  ASSUME Typed, Plans1, ClearClaim, PlanRows',
         status' \notin {"running", "recovering"},
         status' = "waiting_approval" => WaitingOrExpired',
         \/ \A x \in Session : ~Fresh(x)'
         \/ /\ txn' = txn /\ (status' = status \/ status' # "queued")
            /\ \/ \A x \in Session, p \in Plan : ~Deciding(x, p)
               \/ step' = step
  PROVE  Plans1'
<1>1. \A w \in Worker : ~Owns(w)'
  BY NoLeaseNoOwner
<1>2. OwnerPlaced'
  BY <1>1 DEF OwnerPlaced
<1>3. DecisionsOpen'
  <2>1. CASE \A x \in Session : ~Fresh(x)'
    BY <2>1, DecidedByEvent
  <2>2. CASE /\ txn' = txn /\ (status' = status \/ status' # "queued")
             /\ step' = step
    BY <1>1, <2>2
    DEF Plans1, DecisionsOpen, Deciding, DecisionOpen, Closed, Fresh
  <2>3. CASE /\ txn' = txn
             /\ \A x \in Session, p \in Plan : ~Deciding(x, p)
    BY <2>3 DEF DecisionsOpen, Deciding, Fresh
  <2> QED
    BY <2>1, <2>2, <2>3
<1>4. NoRunIsLost'
  BY DEF NoRunIsLost, NoOrphanedRun, ParkedUnlessExpired, ClearClaim, NoLease,
         WaitingOrExpired, In
<1> QED
  BY <1>2, <1>3, <1>4 DEF Plans1

\* The owner moves on, and keeps the lease.
LEMMA OwnerMoves ==
  ASSUME Typed, Plans1, NEW w \in Worker, Owns(w), lease' = lease, PlanRows',
         Placed(w)',
         \/ AppendEvent
         \/ /\ txn' = txn
            /\ \A p \in Plan : DecisionOpen(p) =>
                 /\ step'[p] \in {"waiting_approval", "running", "cancelled"}
                 /\ status' # "queued"
                 /\ \A q \in Plan \ {p} : Closed(q)'
                 /\ Apart(w, p)'
  PROVE  Plans1'
<1>1. \A v \in Worker : Owns(v)' => v = w
  BY DEF Owns
<1>2. OwnerPlaced'
  BY <1>1 DEF OwnerPlaced
<1>3. DecisionsOpen'
  <2>1. CASE AppendEvent
    BY <2>1, EventEndsFresh, DecidedByEvent
  <2>2. CASE ~AppendEvent
    BY <1>1, <2>2 DEF Plans1, DecisionsOpen, Deciding, DecisionOpen, Fresh
  <2> QED
    BY <2>1, <2>2
<1>4. NoRunIsLost'
  BY NamesAssumption DEF NoRunIsLost, NoOrphanedRun, ParkedUnlessExpired, Owns
<1> QED
  BY <1>2, <1>3, <1>4 DEF Plans1

\* Nobody that owns the Run moves, and rows and status stay.
LEMMA OthersMove ==
  ASSUME Typed, Plans1, step' = step, note' = note, status' = status,
         lease'.holder = lease.holder,
         \A x \in Session, p \in Plan : Deciding(x, p)' => DecisionOpen(p),
         \A w \in Worker : Owns(w)' => Owns(w) /\ drive'[w] = drive[w]
  PROVE  Plans1'
<1>1. PlanRows'
  BY RowsKept DEF Plans1
<1>2. OwnerPlaced'
  BY DEF Plans1, OwnerPlaced, Placed, PlacedEnter, PlacedExpand, PlacedReview,
         PlacedSettle, Expands, WaitingOrExpired
<1>3. DecisionsOpen'
  BY DEF DecisionsOpen, DecisionOpen, Apart, Closed
<1>4. NoRunIsLost'
  BY DEF Plans1, NoRunIsLost, NoOrphanedRun, ParkedUnlessExpired, In
<1> QED
  BY <1>1, <1>2, <1>3, <1>4 DEF Plans1

\* A worker that stands in the graph, or nowhere, needs nothing.
LEMMA PlacedInGraph ==
  ASSUME NEW w \in Worker, drive'[w].pc \in {"idle", "graph", "rebuild"}
  PROVE  Placed(w)'
  BY DEF Placed, PlacedEnter, PlacedExpand, PlacedReview, PlacedSettle, Expands

-----------------------------------------------------------------------------
\* The environment and the sessions.

LEMMA EnvironmentPlans ==
  ASSUME Typed, Plans1, Environment
  PROVE  Plans1'
<1>1. lease \in [holder : Worker \cup {None}, live : BOOLEAN]
  BY DEF Typed, DatabaseTyped
<1>2. \A x \in Session, p \in Plan : Deciding(x, p)' => DecisionOpen(p)
  BY DEF Environment, ExpireLease, LoseCheckpoint, RemoteExit, dbVars,
         Plans1, DecisionsOpen, Deciding, Fresh
<1> QED
  BY <1>1, <1>2, OthersMove
  DEF Environment, ExpireLease, LoseCheckpoint, RemoteExit, dbVars, Owns

LEMMA RequestCancelPlans ==
  ASSUME Typed, Plans1, RequestCancel
  PROVE  Plans1'
<1>0. step \in [StepId -> StepStatus \cup {"absent"}]
  BY DEF Typed, DatabaseTyped
<1>1. CASE ForceCancel
  <2>1. status' = "cancelled" /\ note' = note /\ ClearClaim /\ AppendEvent
    BY <1>1 DEF RequestCancel, SetRun
  <2>2. \A s \in StepId :
          \/ step'[s] = step[s]
          \/ /\ step'[s] = "cancelled"
             /\ step[s] \in {"proposed", "waiting_approval", "approved"}
    BY <1>0, <1>1 DEF RequestCancel
  <2>3. PlanRows'
    BY <2>1, <2>2
    DEF Plans1, PlanRows, OneOpen, NotesFollow, PlansWait, AskedIsParked,
        Undecided, Closed, TerminalStep, StepId
  <2> QED
    BY <2>1, <2>3, EventEndsFresh, ReleasedPlans
<1>2. CASE ~ForceCancel
  <2>1. /\ step' = step /\ note' = note /\ status' = status
        /\ lease' = lease /\ drive' = drive /\ AppendEvent
    BY <1>2 DEF RequestCancel
  <2>2. PlanRows'
    BY <2>1, RowsKept DEF Plans1
  <2>3. OwnerPlaced'
    BY <2>1 DEF Plans1, OwnerPlaced, Placed, PlacedEnter, PlacedExpand,
                PlacedReview, PlacedSettle, Expands, WaitingOrExpired, Owns
  <2>4. DecisionsOpen'
    BY <2>1, EventEndsFresh, DecidedByEvent
  <2>5. NoRunIsLost'
    BY <2>1 DEF Plans1, NoRunIsLost, NoOrphanedRun, ParkedUnlessExpired, In
  <2> QED
    BY <2>2, <2>3, <2>4, <2>5 DEF Plans1
<1> QED
  BY <1>1, <1>2

\* A plan just read as waiting: no owner is about to start it.
LEMMA JustReadIsOpen ==
  ASSUME Typed, Plans1, NEW p \in Plan, step[p] = "waiting_approval",
         status = "waiting_approval"
  PROVE  DecisionOpen(p)
<1>1. \A q \in Plan \ {p} : Closed(q)
  BY DEF Plans1, PlanRows, OneOpen, Closed, TerminalStep
<1>2. ASSUME NEW w \in Worker, Owns(w)
      PROVE  Apart(w, p)
  BY <1>2 DEF Plans1, OwnerPlaced, Placed, PlacedEnter, PlacedExpand, Expands,
              Apart, Typed, DrivesTyped, DriveShape, WorkingOn
<1> QED
  BY <1>1, <1>2 DEF DecisionOpen

LEMMA CommitDraftPlans ==
  ASSUME Typed, Drafted, Plans1, NEW x \in Session, CommitDraft(x)
  PROVE  Plans1'
<1>1. status = "draft" /\ lease = NoLease /\ \A s \in StepId : step[s] = "absent"
  BY DEF CommitDraft, Drafted
<1>2. /\ step' = step /\ note' = note /\ lease' = NoLease
      /\ status' \in {"queued", "expired"} /\ CommitWithEvent(x)
  BY <1>1 DEF CommitDraft
<1>3. PlanRows'
  BY <1>1, <1>2 DEF Plans1, PlanRows, OneOpen, NotesFollow, PlansWait,
                    AskedIsParked, Undecided, Closed, StepId
<1> QED
  BY <1>2, <1>3, CommitEndsFresh, ReleasedPlans DEF ClearClaim

LEMMA CommitDecisionPlans ==
  ASSUME Typed, Plans1, NEW x \in Session, CommitDecision(x)
  PROVE  Plans1'
<1>1. PICK p \in Plan : p = txn[x].step /\ DecisionOpen(p)
  BY DEF CommitDecision, Typed, SessionsTyped, TxnShape, Plans1, DecisionsOpen,
         Deciding
<1>2. PICK to \in {"approved", "failed"} : step' = [step EXCEPT ![p] = to]
  BY <1>1 DEF CommitDecision
<1>3. /\ note' = [note EXCEPT ![p] = "none"] /\ status' = "queued"
      /\ lease' = lease /\ drive' = drive /\ CommitWithEvent(x)
  BY <1>1 DEF CommitDecision, Requeue
<1>4. /\ step'[p] = to /\ note'[p] = "none"
      /\ \A s \in StepId \ {p} : step'[s] = step[s]
      /\ \A q \in Plan \ {p} : note'[q] = note[q] /\ Closed(q)
  BY <1>1, <1>2, <1>3 DEF DecisionOpen, Typed, DatabaseTyped, StepId
<1>5. PlanRows'
  BY <1>4 DEF Plans1, PlanRows, OneOpen, NotesFollow, PlansWait,
              AskedIsParked, Undecided, Closed, StepId, TerminalStep
<1>6. ASSUME NEW w \in Worker, Owns(w)
      PROVE  Placed(w)'
  <2>1. PlacedEnter(w)' /\ PlacedSettle(w)'
    BY <1>3 DEF PlacedEnter, PlacedSettle
  <2>2. PlacedReview(w)'
    <3>1. drive[w].pc = "review" => drive[w].at \in Plan
      BY DEF Typed, DrivesTyped, DriveShape, WorkingOn
    <3>2. \A q \in Plan : step'[q] # "running"
      BY <1>4 DEF StepId, Closed, TerminalStep
    <3> QED
      BY <1>3, <3>1, <3>2 DEF PlacedReview
  <2>3. PlacedExpand(w)'
    <3>1. SUFFICES ASSUME Expands(w)
                   PROVE  step'[drive[w].at[1]] # "waiting_approval"
      BY <1>3 DEF PlacedExpand, Expands
    <3>2. drive[w].at[1] \in Plan
      BY <3>1 DEF Expands, Typed, DrivesTyped, DriveShape, WorkingOn, PlanAction
    <3> QED
      BY <1>4, <3>2 DEF StepId, Closed, TerminalStep
  <2> QED
    BY <2>1, <2>2, <2>3 DEF Placed
<1>7. OwnerPlaced'
  BY <1>3, <1>6 DEF OwnerPlaced, Owns
<1>8. DecisionsOpen'
  BY <1>3, CommitEndsFresh, DecidedByEvent
<1>9. NoRunIsLost'
  BY <1>3 DEF NoRunIsLost, NoOrphanedRun, ParkedUnlessExpired
<1> QED
  BY <1>5, <1>7, <1>8, <1>9 DEF Plans1

\* A waiting or otherwise undecided plan is cancelled.
LEMMA ExpiredRows ==
  ASSUME Typed, PlanRows, NEW p \in Plan, step' = [step EXCEPT ![p] = "cancelled"],
         note' = note, status' = status \/ status' \notin {"queued", "running"}
  PROVE  PlanRows'
<1>1. step'[p] = "cancelled" /\ \A s \in StepId \ {p} : step'[s] = step[s]
  BY DEF Typed, DatabaseTyped, StepId
<1> QED
  BY <1>1 DEF PlanRows, OneOpen, NotesFollow, PlansWait, AskedIsParked,
              Undecided, Closed, StepId, TerminalStep

LEMMA CommitStepExpiryPlans ==
  ASSUME Typed, Plans1, NEW x \in Session, CommitStepExpiry(x)
  PROVE  Plans1'
<1>1. PICK p \in Plan : step' = [step EXCEPT ![p] = "cancelled"]
  BY DEF CommitStepExpiry, Typed, SessionsTyped, TxnShape
<1>2. /\ note' = note /\ status' = status /\ lease' = lease /\ drive' = drive
      /\ txn' = [txn EXCEPT ![x] = NoTxn]
  BY DEF CommitStepExpiry
<1>3. step'[p] = "cancelled" /\ \A s \in StepId \ {p} : step'[s] = step[s]
  BY <1>1 DEF Typed, DatabaseTyped, StepId
<1>4. WaitingOrExpired'
  BY <1>3 DEF WaitingOrExpired
<1>5. OwnerPlaced'
  <2>1. ASSUME NEW w \in Worker, Owns(w)
        PROVE  Placed(w)'
    <3>1. Placed(w)
      BY <2>1 DEF Plans1, OwnerPlaced
    <3>2. PlacedEnter(w)' /\ PlacedSettle(w)'
      BY <1>2, <1>4, <3>1 DEF Placed, PlacedEnter, PlacedSettle
    <3>3. PlacedReview(w)'
      BY <1>2, <1>3, <3>1 DEF Typed, DrivesTyped, DriveShape, WorkingOn,
         Placed, PlacedReview, StepId
    <3>4. PlacedExpand(w)'
      <4>1. SUFFICES ASSUME Expands(w)
                     PROVE  step'[drive[w].at[1]] # "waiting_approval"
        BY <1>2 DEF PlacedExpand, Expands
      <4>2. drive[w].at[1] \in Plan
        BY <4>1 DEF Expands, Typed, DrivesTyped, DriveShape, WorkingOn, PlanAction
      <4> QED
        BY <1>3, <3>1, <4>1, <4>2 DEF StepId, Placed, PlacedExpand
    <3> QED
      BY <3>2, <3>3, <3>4 DEF Placed
  <2> QED
    BY <1>2, <2>1 DEF OwnerPlaced, Owns
<1>6. DecisionsOpen'
  <2>1. \A y \in Session, q \in Plan : Deciding(y, q)' => Deciding(y, q)
    BY <1>2 DEF Deciding, Fresh, NoTxn, Typed, SessionsTyped
  <2>2. ASSUME NEW q \in Plan, DecisionOpen(q)
        PROVE  DecisionOpen(q)'
    <3>1. ASSUME NEW w \in Worker, Owns(w)'
          PROVE  Apart(w, q)'
      BY <1>2, <1>3, <2>2, <3>1 DEF DecisionOpen, Apart, Owns, StepId
    <3> QED
      BY <1>2, <1>3, <2>2, <3>1 DEF DecisionOpen, Closed, TerminalStep, StepId
  <2> QED
    BY <2>1, <2>2 DEF Plans1, DecisionsOpen
<1>7. NoRunIsLost'
  BY <1>2, <1>4 DEF Plans1, NoRunIsLost, NoOrphanedRun, ParkedUnlessExpired,
                    WaitingOrExpired, In
<1> QED
  BY <1>1, <1>2, <1>5, <1>6, <1>7, ExpiredRows DEF Plans1

LEMMA SessionStepPlans ==
  ASSUME Typed, Drafted, Plans1, NEW x \in Session, SessionStep(x)
  PROVE  Plans1'
<1>1. CASE CommitExpiry(x)
  <2>1. txn[x].step \in Plan
    BY <1>1 DEF CommitExpiry, Typed, SessionsTyped, TxnShape
  <2>2. PlanRows'
    BY <1>1, <2>1, ExpiredRows DEF CommitExpiry, Plans1
  <2> QED
    BY <1>1, <2>2, CommitEndsFresh, ReleasedPlans DEF CommitExpiry
<1>2. ASSUME \/ \E op \in {"start", "expire_draft"} : ReadDraft(x, op)
             \/ \E p \in Plan, op \in {"approve", "reject"} : ReadDecision(x, p, op)
             \/ \E p \in Plan : ReadExpiry(x, p)
             \/ Rollback(x)
      PROVE  Plans1'
  <2>1. /\ step' = step /\ note' = note /\ status' = status /\ lease' = lease
        /\ drive' = drive
    BY <1>2 DEF ReadDraft, ReadDecision, ReadExpiry, Rollback, dbVars
  <2>2. ASSUME NEW y \in Session, NEW p \in Plan, Deciding(y, p)'
        PROVE  DecisionOpen(p)
    <3>1. CASE Deciding(y, p)
      BY <3>1 DEF Plans1, DecisionsOpen
    <3>2. CASE ~Deciding(y, p)
      <4>1. y = x /\ \E op \in {"approve", "reject"} : ReadDecision(x, p, op)
        BY <1>2, <2>2, <3>2 DEF ReadDraft, ReadDecision, ReadExpiry, Rollback,
           Deciding, Fresh, NoTxn, Typed, SessionsTyped
      <4> QED
        BY <4>1, JustReadIsOpen DEF ReadDecision
    <3> QED
      BY <3>1, <3>2
  <2> QED
    BY <2>1, <2>2, OthersMove DEF Owns
<1> QED
  BY <1>1, <1>2, CommitDraftPlans, CommitDecisionPlans, CommitStepExpiryPlans
  DEF SessionStep

-----------------------------------------------------------------------------
\* The workers: what lets go of the Run.

\* Whoever lets go of the Run without having touched a row.
LEMMA LetGoPlans ==
  ASSUME Typed, Plans1, ClearClaim, step' = step, note' = note,
         txn' = txn \/ AppendEvent,
         \/ status' = status /\ status \in TerminalRun \cup {"queued", "needs_attention"}
         \/ status' \in TerminalRun \cup {"needs_attention"}
  PROVE  Plans1'
<1>1. status' = status \/ status' \notin {"queued", "running"}
  BY DEF TerminalRun
<1>2. status' \notin {"running", "recovering", "waiting_approval"}
  BY DEF TerminalRun
<1>3. PlanRows'
  BY <1>1, RowsKept DEF Plans1
<1>4. status' = status \/ status' # "queued"
  BY <1>1
<1> QED
  BY <1>2, <1>3, <1>4, EventEndsFresh, ReleasedPlans

LEMMA FailRunPlans ==
  ASSUME Typed, Plans1, NEW w \in Worker, FailRun(w)
  PROVE  Plans1'
<1>1. /\ step' = step /\ note' = note /\ ClearClaim /\ (txn' = txn \/ AppendEvent)
      /\ \/ status' = status /\ status \in TerminalRun
         \/ status' = "failed"
  BY DEF FailRun, SetRun
<1> QED
  BY <1>1, LetGoPlans DEF TerminalRun

\* A worker comes to an end, or to a lease of its own.
LEMMA EnterStepPlans ==
  ASSUME Typed, Plans1, NEW w \in Worker, EnterStep(w), ~EnterPaused(w)
  PROVE  Plans1'
<1>1. CASE Claim(w)
  <2>1. /\ step' = step /\ note' = note /\ txn' = txn
        /\ lease'.holder = w /\ w # None
        /\ (status = "queued" /\ status' = "running") \/ status' = "recovering"
    BY <1>1, NamesAssumption DEF Claim
  <2>2. \A v \in Worker : Owns(v)' => v = w
    BY <2>1 DEF Owns
  <2>3. drive'[w].pc = "enter"
    BY <1>1 DEF Claim, Typed, DrivesTyped, Drive
  <2>4. PlanRows'
    BY <2>1 DEF Plans1, PlanRows, OneOpen, NotesFollow, PlansWait,
                AskedIsParked, Undecided, Closed
  <2>5. OwnerPlaced'
    BY <2>1, <2>2, <2>3 DEF OwnerPlaced, Placed, PlacedEnter, PlacedExpand,
       PlacedReview, PlacedSettle, Expands
  <2>6. DecisionsOpen'
    <3>1. SUFFICES ASSUME NEW x \in Session, NEW p \in Plan, Deciding(x, p)
                   PROVE  DecisionOpen(p)'
      BY <2>1 DEF DecisionsOpen, Deciding, Fresh
    <3>2. DecisionOpen(p)
      BY <3>1 DEF Plans1, DecisionsOpen
    <3>3. status' = "recovering"
      BY <2>1, <3>2 DEF DecisionOpen
    <3> QED
      BY <2>1, <2>2, <2>3, <3>2, <3>3 DEF DecisionOpen, Apart, Closed
  <2>7. NoRunIsLost'
    BY <2>1 DEF NoRunIsLost, NoOrphanedRun, ParkedUnlessExpired
  <2> QED
    BY <2>4, <2>5, <2>6, <2>7 DEF Plans1
<1>2. CASE ConfirmCancel(w) \/ CheckpointUnavailable(w)
  <2>1. /\ step' = step /\ note' = note /\ ClearClaim /\ AppendEvent
        /\ status' \in {"cancelled", "needs_attention"}
    BY <1>2 DEF ConfirmCancel, CheckpointUnavailable, SetRun
  <2> QED
    BY <2>1, LetGoPlans DEF TerminalRun
<1> QED
  BY <1>1, <1>2, FailRunPlans DEF EnterStep, RefuseRun

LEMMA EndStepPlans ==
  ASSUME Typed, Plans1, NEW w \in Worker, EndStep(w), ~Decide(w)
  PROVE  Plans1'
<1>1. /\ step' = step /\ note' = note /\ ClearClaim /\ (txn' = txn \/ AppendEvent)
      /\ \/ status' = status /\ status \in {"queued", "needs_attention"}
         \/ status' \in {"cancelled", "failed", "completed"}
  BY DEF EndStep, FinalizeAttention, FinalizeQueued, Requeued, Finalize, SetRun
<1> QED
  BY <1>1, LetGoPlans DEF TerminalRun

LEMMA DurationExhaustedPlans ==
  ASSUME Typed, Plans1, NEW w \in Worker, DurationExhausted(w)
  PROVE  Plans1'
<1>1. CASE FailRun(w)
  BY <1>1, FailRunPlans
<1>2. CASE ~FailRun(w)
  <2>1. /\ step' = step /\ note' = note /\ ClearClaim /\ txn' = txn
        /\ status' = status /\ status = "needs_attention"
    BY <1>2 DEF DurationExhausted
  <2> QED
    BY <2>1, LetGoPlans
<1> QED
  BY <1>1, <1>2

\* _settle_paused lets go of a Run that has a plan to decide on.
LEMMA SettlePlans ==
  ASSUME Typed, Plans1, NEW w \in Worker, Settle(w)
  PROVE  Plans1'
<1>1. /\ step' = step /\ note' = note /\ ClearClaim /\ txn' = txn
      /\ Owns(w) /\ drive[w].pc = "settle"
      /\ \/ status = "recovering" /\ status' = "waiting_approval"
         \/ status # "recovering" /\ status' = status
  BY DEF Settle, SetRun
<1>2. PlacedSettle(w)
  BY <1>1 DEF Plans1, OwnerPlaced, Placed
<1>3. PlanRows'
  BY <1>1, RowsKept DEF Plans1
<1>4. /\ status' \notin {"running", "recovering"}
      /\ status' = "waiting_approval" => WaitingOrExpired'
      /\ status' = status \/ status' # "queued"
  BY <1>1, <1>2 DEF PlacedSettle, WaitingOrExpired
<1> QED
  BY <1>1, <1>3, <1>4, ReleasedPlans

-----------------------------------------------------------------------------
\* The workers: moves that write no row.

\* The owner comes to a node of the graph, to the boundary or to the pause.
LEMMA MovesKept ==
  ASSUME Typed, Plans1, NEW w \in Worker, Owns(w), lease' = lease,
         step' = step, note' = note, status' = status,
         txn' = txn \/ AppendEvent,
         drive[w].pc # "idle",
         drive[w].pc = "enter" => status # "recovering",
         drive[w].pc = "review" => step[drive[w].at] # "running",
         drive'[w].pc \in {"graph", "rebuild", "settle"},
         Placed(w)'
  PROVE  Plans1'
<1>1. PlanRows'
  BY RowsKept DEF Plans1
<1>2. ASSUME NEW p \in Plan, DecisionOpen(p)
      PROVE  /\ step'[p] \in {"waiting_approval", "running", "cancelled"}
             /\ status' # "queued"
             /\ \A q \in Plan \ {p} : Closed(q)'
             /\ Apart(w, p)'
  BY <1>2 DEF DecisionOpen, Apart, Closed
<1> QED
  BY <1>1, <1>2, OwnerMoves

\* At the pause the driver settles only on a plan that waits, and only a Run that
\* is parked can have one.
LEMMA PlacedAfterPause ==
  ASSUME Typed, Plans1, NEW w \in Worker, NEW c \in Cursor, LeavePause(w, c),
         step' = step, note' = note, status' = status
  PROVE  /\ drive'[w].pc \in {"graph", "settle"}
         /\ Placed(w)'
<1>0. drive \in [Worker -> Drive]
  BY DEF Typed, DrivesTyped
<1>1. CASE StillWaiting(c)
  <2>1. drive'[w].pc = "settle"
    BY <1>0, <1>1 DEF LeavePause
  <2>2. c.pending \in Plan /\ step[c.pending] = "waiting_approval"
    BY <1>1 DEF StillWaiting, Cursor, Plans1, PlanRows, PlansWait
  <2>3. PlacedSettle(w)'
    BY <2>2 DEF PlacedSettle, WaitingOrExpired, Plans1, PlanRows,
                AskedIsParked, Undecided
  <2> QED
    BY <2>1, <2>3 DEF Placed, PlacedEnter, PlacedExpand, PlacedReview, Expands
<1>2. CASE ~StillWaiting(c)
  <2>1. drive'[w].pc = "graph"
    BY <1>0, <1>2 DEF LeavePause
  <2> QED
    BY <2>1, PlacedInGraph
<1> QED
  BY <1>1, <1>2

\* A Run whose drive has not begun is queued or running, unless it is recovered.
LEMMA EnterIsActive ==
  ASSUME Plans1, NEW w \in Worker, Owns(w), drive[w].pc = "enter",
         status # "recovering"
  PROVE  status \in {"queued", "running"}
  BY DEF Plans1, OwnerPlaced, Placed, PlacedEnter

LEMMA EnterPausedPlans ==
  ASSUME Typed, Plans1, NEW w \in Worker, EnterPaused(w)
  PROVE  Plans1'
<1>1. ckpt \in Cursor
  BY DEF EnterPaused, Typed, DrivesTyped
<1>2. /\ Owns(w) /\ drive[w].pc = "enter" /\ status # "recovering"
      /\ LeavePause(w, ckpt) /\ txn' = txn /\ lease' = lease
      /\ step' = step /\ note' = note /\ status' = status
  BY DEF EnterPaused, dbVars
<1>3. drive'[w].pc \in {"graph", "settle"} /\ Placed(w)'
  BY <1>1, <1>2, PlacedAfterPause
<1> QED
  BY <1>2, <1>3, MovesKept

\* The checkpoint is saved beside what the worker does.
LEMMA SaveCheckpointPlans ==
  ASSUME Typed, Plans1, NEW w \in Worker, SaveCheckpoint(w)
  PROVE  Plans1'
<1>0. drive[w] \in Drive /\ drive \in [Worker -> Drive]
  BY CursorTyped DEF Typed, DrivesTyped
<1>1. /\ Owns(w) /\ txn' = txn /\ lease' = lease
      /\ step' = step /\ note' = note /\ status' = status
  BY DEF SaveCheckpoint, dbVars
<1>2. /\ drive'[w].pc = drive[w].pc /\ drive'[w].at = drive[w].at
      /\ drive'[w].cur = drive[w].cur
  BY <1>0 DEF SaveCheckpoint, Drive
<1>3. PlanRows'
  BY <1>1, RowsKept DEF Plans1
<1>4. Placed(w)'
  BY <1>1, <1>2 DEF Plans1, OwnerPlaced, Placed, PlacedEnter, PlacedExpand,
                    PlacedReview, PlacedSettle, Expands, WaitingOrExpired
<1>5. \A p \in Plan : DecisionOpen(p) => DecisionOpen(p)'
  <2>1. ASSUME NEW p \in Plan, DecisionOpen(p), NEW v \in Worker, Owns(v)'
        PROVE  v = w /\ Apart(w, p)'
    BY <1>1, <1>2, <2>1 DEF DecisionOpen, Apart, Owns
  <2> QED
    BY <1>1, <2>1 DEF DecisionOpen, Closed
<1>6. Owns(w)'
  BY <1>1 DEF Owns
<1> QED
  BY <1>1, <1>3, <1>4, <1>5, <1>6, OwnerMoves DEF DecisionOpen

-----------------------------------------------------------------------------
\* The workers: recovery.

\* The scan sends what was running back to approved, and forgets its review.
LEMMA RescanRows ==
  ASSUME Typed, PlanRows, NEW S, S \subseteq Interrupted, Interrupted \cap Plan \subseteq S,
         \A p \in Plan : step'[p] = Retried(S)[p],
         \A s \in StepId : step'[s] = "waiting_approval" => s \in Plan,
         note' = NotesOfRetried(Interrupted),
         \/ status' \notin {"queued", "running"}
         \/ \A p \in Plan : step[p] # "waiting_approval"
  PROVE  PlanRows'
<1>1. ASSUME NEW p \in Plan
      PROVE  \/ step[p] = "running" /\ step'[p] = "approved" /\ note'[p] = "none"
             \/ step[p] # "running" /\ step'[p] = step[p] /\ note'[p] = note[p]
  BY <1>1 DEF Retried, NotesOfRetried, Interrupted, In, Present, StepId
<1> QED
  BY <1>1 DEF PlanRows, OneOpen, NotesFollow, PlansWait, AskedIsParked,
              Undecided, Closed, TerminalStep

LEMMA RescanPlanRows ==
  ASSUME Typed, PlanRows, NEW w \in Worker, Rescan(w),
         \/ status' \notin {"queued", "running"}
         \/ ScannedIn(Present, "waiting_approval") = {}
  PROVE  PlanRows'
<1>1. \A p \in Plan : step'[p] = Retried(Interrupted)[p]
  BY DEF Rescan, Scanned
<1>2. \A s \in StepId : step'[s] = "waiting_approval" => s \in Plan
  BY DEF Rescan, Scanned, Retried, PlanRows, PlansWait
<1>3. \/ status' \notin {"queued", "running"}
      \/ \A p \in Plan : step[p] # "waiting_approval"
  BY DEF ScannedIn, Scanned, Retried, Interrupted, In, Present, StepId
<1> QED
  BY <1>1, <1>2, <1>3, RescanRows DEF Rescan

LEMMA ResolveStepPlans ==
  ASSUME Typed, Plans1, NEW w \in Worker, ResolveStep(w)
  PROVE  Plans1'
<1>0. drive \in [Worker -> Drive]
  BY DEF Typed, DrivesTyped
<1>1. CASE ResolveFresh(w) \/ ResolveResume(w)
  <2>1. /\ Owns(w) /\ drive[w].pc = "enter" /\ status # "recovering"
        /\ lease' = lease /\ step' = step /\ note' = note /\ txn' = txn
        /\ status' = status \/ BecomeRunning
    BY <1>1 DEF ResolveFresh, ResolveResume, Resolving, NeedsPreflight, dbVars
  <2>2. status' = status
    BY <2>1, EnterIsActive DEF BecomeRunning
  <2>3. drive'[w].pc = "graph"
    BY <1>0, <1>1 DEF ResolveFresh, ResolveResume, MoveTo, Resume
  <2> QED
    BY <2>1, <2>2, <2>3, PlacedInGraph, MovesKept
<1>2. CASE ResolveFinishedProbes(w)
  <2>1. /\ Owns(w) /\ lease' = lease /\ step' = step /\ note' = note
        /\ AppendEvent /\ drive'[w].pc = "rebuild"
        /\ \A p \in Plan : step[p] = "absent"
    BY <1>0, <1>2 DEF ResolveFinishedProbes, Preflight, Resolving, Rebuild,
                      OnlyFinishedProbes, Present, StepId
  <2>2. PlanRows'
    BY <2>1 DEF Plans1, PlanRows, OneOpen, NotesFollow, PlansWait,
                AskedIsParked, Undecided, Closed
  <2> QED
    BY <2>1, <2>2, PlacedInGraph, OwnerMoves
<1>3. CASE ResolveManyActions(w)
  BY <1>3, LetGoPlans DEF ResolveManyActions, Halt, SetRun
<1>4. CASE ResolveInterruptedWrite(w)
  <2>1. PICK s \in InterruptedWrites :
          step' = [Retried(Interrupted \cap Plan) EXCEPT ![s] = "outcome_unknown"]
    BY <1>4 DEF ResolveInterruptedWrite
  <2>2. s \in WriteStep /\ s \notin Plan
    BY WritesAreActions DEF InterruptedWrites, Typed, DatabaseTyped
  <2>3. /\ note' = NotesOfRetried(Interrupted) /\ ClearClaim /\ AppendEvent
        /\ status' = "needs_attention"
    BY <1>4 DEF ResolveInterruptedWrite, Halt, SetRun
  <2>4. \A p \in Plan : step'[p] = Retried(Interrupted \cap Plan)[p]
    BY <2>1, <2>2 DEF Retried, StepId
  <2>5. \A x \in StepId : step'[x] = "waiting_approval" => x \in Plan
    BY <2>1 DEF Retried, Plans1, PlanRows, PlansWait
  <2>6. PlanRows'
    BY <2>3, <2>4, <2>5, RescanRows DEF Plans1
  <2> QED
    BY <2>3, <2>6, EventEndsFresh, ReleasedPlans
<1>5. CASE ResolvePostAction(w)
  <2>1. Rescan(w) /\ status' = "needs_attention" /\ ClearClaim /\ AppendEvent
    BY <1>5 DEF ResolvePostAction, Halt, SetRun
  <2>2. PlanRows'
    BY <2>1, RescanPlanRows DEF Plans1
  <2> QED
    BY <2>1, <2>2, EventEndsFresh, ReleasedPlans
<1>6. CASE ResolveWaiting(w) \/ ResolveApproved(w) \/ ResolveProposed(w)
  <2>1. Rescan(w) /\ AppendEvent /\ lease' = lease /\ drive'[w].pc = "rebuild"
    <3>1. \A c : Rebuild(w, c) => drive'[w].pc = "rebuild"
      BY <1>0 DEF Rebuild
    <3> QED
      BY <1>6, <3>1 DEF ResolveWaiting, ResolveApproved, ResolveProposed
  <2>2. Owns(w)
    BY <2>1 DEF Rescan, AtMostOneAction, Preflight, Resolving
  <2>3. \/ status' \notin {"queued", "running"}
        \/ ScannedIn(Present, "waiting_approval") = {}
    BY <1>6 DEF ResolveWaiting, ResolveApproved, ResolveProposed, SetRun
  <2>4. PlanRows'
    BY <2>1, <2>3, RescanPlanRows DEF Plans1
  <2> QED
    BY <2>1, <2>2, <2>4, PlacedInGraph, OwnerMoves
<1>7. CASE ResolveNoAction(w)
  <2>1. /\ Rescan(w) /\ lease' = lease /\ drive'[w].pc = "graph"
        /\ ScannedIn(Present, "waiting_approval") = {} /\ BecomeRunning
        /\ Interrupted # {} => AppendEvent
        /\ Interrupted = {} => txn' = txn
    BY <1>0, <1>7 DEF ResolveNoAction, Resume, MoveTo
  <2>2. Owns(w)
    BY <2>1 DEF Rescan, AtMostOneAction, Preflight, Resolving
  <2>3. PlanRows'
    BY <2>1, RescanPlanRows DEF Plans1
  <2>4. ASSUME Interrupted = {}, NEW p \in Plan, DecisionOpen(p)
        PROVE  /\ step'[p] \in {"waiting_approval", "running", "cancelled"}
               /\ status' # "queued"
               /\ \A q \in Plan \ {p} : Closed(q)'
               /\ Apart(w, p)'
    <3>1. \A s \in StepId : step'[s] = step[s]
      BY <2>1, <2>4 DEF Rescan, Scanned, Retried
    <3>2. step[p] # "running"
      BY <2>4 DEF Interrupted, In, Present, StepId
    <3>3. status' # "queued"
      BY <2>1, <2>4 DEF BecomeRunning, SetRun, DecisionOpen
    <3> QED
      BY <2>1, <2>4, <3>1, <3>2, <3>3 DEF DecisionOpen, Apart, Closed, StepId
  <2> QED
    BY <2>1, <2>2, <2>3, <2>4, PlacedInGraph, OwnerMoves
<1>8. CASE WriteBoundary(w)
  <2>1. /\ Owns(w) /\ drive[w].pc = "rebuild" /\ lease' = lease /\ txn' = txn
        /\ step' = step /\ note' = note /\ status' = status
    BY <1>8 DEF WriteBoundary, dbVars
  <2>2. CASE drive[w].cur.node = "pause"
    <3>1. drive[w].cur \in Cursor /\ LeavePause(w, drive[w].cur)
      BY <1>8, <2>2, CursorTyped DEF WriteBoundary, Typed, Drive
    <3>2. drive'[w].pc \in {"graph", "settle"} /\ Placed(w)'
      BY <2>1, <3>1, PlacedAfterPause
    <3> QED
      BY <2>1, <3>2, MovesKept
  <2>3. CASE drive[w].cur.node # "pause"
    <3>1. drive'[w].pc = "graph"
      BY <1>0, <1>8, <2>3 DEF WriteBoundary, Drive
    <3> QED
      BY <2>1, <3>1, PlacedInGraph, MovesKept
  <2> QED
    BY <2>2, <2>3
<1> QED
  BY <1>1, <1>2, <1>3, <1>4, <1>5, <1>6, <1>7, <1>8 DEF ResolveStep

-----------------------------------------------------------------------------
\* The workers: the planner and the policy.

\* A row that is not a plan's is written, and nobody is asked about it.
LEMMA OtherRow ==
  ASSUME Typed, PlanRows, NEW x, x \notin Plan, NEW to, to # "waiting_approval",
         step' = [step EXCEPT ![x] = to], note' = note,
         status' = status \/ status' \notin {"queued", "running"}
  PROVE  PlanRows'
<1>1. /\ \A p \in Plan : step'[p] = step[p]
      /\ \A s \in StepId : step'[s] = step[s] \/ step'[s] # "waiting_approval"
  BY DEF Typed, DatabaseTyped, StepId
<1> QED
  BY <1>1 DEF PlanRows, OneOpen, NotesFollow, PlansWait, AskedIsParked,
              Undecided, Closed

\* A row ends, or becomes unknown.
LEMMA RowEnds ==
  ASSUME Typed, PlanRows, NEW x, NEW to \in TerminalStep \cup {"outcome_unknown"},
         SetStep(x, to), note' = note \/ note' = [note EXCEPT ![x] = "none"],
         status' = status \/ status' \notin {"queued", "running"}
  PROVE  PlanRows'
<1>1. /\ x \in StepId => step'[x] = to /\ step[x] \notin TerminalStep \cup {"absent"}
      /\ \A s \in StepId : s # x => step'[s] = step[s]
      /\ \A p \in Plan : note'[p] = "pending" => note[p] = "pending"
      /\ \A p \in Plan : p # x => note'[p] = note[p]
  BY DEF SetStep, StepLegal, Typed, DatabaseTyped, TerminalStep
<1> QED
  BY <1>1 DEF PlanRows, OneOpen, NotesFollow, PlansWait, AskedIsParked,
              Undecided, Closed, TerminalStep, StepId

LEMMA MoveToPhase ==
  ASSUME Typed, NEW w \in Worker, NEW c, MoveTo(w, c)
  PROVE  drive'[w].pc = "graph" /\ Placed(w)'
<1>1. drive'[w].pc = "graph"
  BY DEF MoveTo, Typed, DrivesTyped
<1> QED
  BY <1>1, PlacedInGraph

LEMMA PlanStepPlans ==
  ASSUME Typed, Plans1, NEW w \in Worker, PlanStep(w)
  PROVE  Plans1'
<1>1. ASSUME NEW q, q \in Observation,
             ProposeProbe(w, q) \/ ProposeVerification(w, q)
      PROVE  Plans1'
  <2>1. /\ Owns(w) /\ lease' = lease /\ note' = note /\ status' = status
        /\ AppendEvent /\ step' = [step EXCEPT ![q] = "proposed"]
        /\ \E c : MoveTo(w, c)
    BY <1>1 DEF ProposeProbe, ProposeVerification, Planning, Planned
  <2>2. PlanRows'
    BY <1>1, <2>1, OtherRow, NamesAssumption DEF Plans1
  <2> QED
    BY <2>1, <2>2, MoveToPhase, OwnerMoves
<1>2. ASSUME NEW p \in Plan, ProposePlan(w, p)
      PROVE  Plans1'
  <2>1. /\ Owns(w) /\ lease' = lease /\ note' = note /\ AppendEvent
        /\ step[p] = "absent" /\ \A q \in Plan : Closed(q)
        /\ \E c : MoveTo(w, c)
    BY <1>2 DEF ProposePlan, Planning, Planned, Closed
  <2>2. \/ /\ step' = [step EXCEPT ![p] = "waiting_approval"]
           /\ status' = "waiting_approval"
        \/ step' = [step EXCEPT ![p] = "approved"] /\ status' = status
    BY <1>2 DEF ProposePlan, SetRun
  <2>3. /\ \A s \in StepId : s # p => step'[s] = step[s]
        /\ \/ step'[p] = "waiting_approval" /\ status' = "waiting_approval"
           \/ step'[p] = "approved" /\ status' = status
    BY <2>2 DEF Typed, DatabaseTyped, StepId
  <2>4. PlanRows'
    BY <2>1, <2>3 DEF Plans1, PlanRows, OneOpen, NotesFollow, PlansWait,
       AskedIsParked, Undecided, Closed, StepId, TerminalStep
  <2> QED
    BY <2>1, <2>4, MoveToPhase, OwnerMoves
<1>3. CASE Finish(w)
  <2>1. /\ Owns(w) /\ lease' = lease /\ note' = note /\ status' = status
        /\ AppendEvent /\ step' = step /\ drive[w].pc = "graph"
        /\ \E c : MoveTo(w, c)
    BY <1>3 DEF Finish, Planning, Planned, AtNode, dbVars
  <2> QED
    BY <2>1, MoveToPhase, MovesKept
<1>4. CASE PlannerFails(w)
  BY <1>4, FailRunPlans DEF PlannerFails
<1> QED
  BY <1>1, <1>2, <1>3, <1>4 DEF PlanStep, Observation

\* The Guardian takes the plan that waits: a decision on it may still commit.
LEMMA GuardianClaimPlans ==
  ASSUME Typed, Plans1, NEW w \in Worker, GuardianClaim(w)
  PROVE  Plans1'
<1>0. drive[w] \in Drive /\ drive \in [Worker -> Drive]
  BY CursorTyped DEF Typed, DrivesTyped
<1>1. PICK p \in Plan :
        /\ step[p] = "waiting_approval"
        /\ step' = [step EXCEPT ![p] = "running"]
        /\ note' = [note EXCEPT ![p] = "pending"]
        /\ drive' = [drive EXCEPT ![w].pc = "review", ![w].at = p]
  BY DEF GuardianClaim, OpenPlans, SetStep
<1>2. Owns(w) /\ lease' = lease /\ status' = status /\ txn' = txn
  BY DEF GuardianClaim, PolicyOnPlan
<1>3. /\ step'[p] = "running" /\ note'[p] = "pending"
      /\ \A s \in StepId : s # p => step'[s] = step[s]
      /\ \A q \in Plan : q # p => note'[q] = note[q]
      /\ drive'[w].pc = "review" /\ drive'[w].at = p
  BY <1>0, <1>1 DEF Typed, DatabaseTyped, StepId, Drive
<1>4. PlanRows'
  BY <1>1, <1>2, <1>3
  DEF Plans1, PlanRows, OneOpen, NotesFollow, PlansWait, AskedIsParked,
      Undecided, Closed, StepId, TerminalStep
<1>5. Placed(w)'
  BY <1>3 DEF Placed, PlacedEnter, PlacedExpand, PlacedReview, PlacedSettle,
              Expands
<1>6. ASSUME NEW q \in Plan, DecisionOpen(q)
      PROVE  /\ step'[q] \in {"waiting_approval", "running", "cancelled"}
             /\ status' # "queued"
             /\ \A r \in Plan \ {q} : Closed(r)'
             /\ Apart(w, q)'
  <2>1. q = p
    BY <1>1, <1>6 DEF DecisionOpen, Closed, TerminalStep
  <2> QED
    BY <1>2, <1>3, <1>6, <2>1 DEF DecisionOpen, Apart, Closed, StepId
<1> QED
  BY <1>2, <1>4, <1>5, <1>6, OwnerMoves

\* The Guardian answers on a plan that is still its own.
LEMMA GuardianAnswerPlans ==
  ASSUME Typed, Plans1, NEW w \in Worker,
         NEW verdict \in Verdicts,
         GuardianAnswer(w, verdict)
  PROVE  Plans1'
<1> DEFINE p == drive[w].at
<1>1. p \in Plan /\ Owns(w) /\ drive[w].pc = "review" /\ step[p] = "running"
  BY DEF GuardianAnswer, Reviewing, Typed, DrivesTyped, DriveShape, WorkingOn
<1>2. note[p] = "pending"
  BY <1>1 DEF Plans1, OwnerPlaced, Placed, PlacedReview
<1>3. PICK to \in {"approved", "failed", "waiting_approval"} :
        step' = [step EXCEPT ![p] = to] /\ (to = "waiting_approval" <=> verdict = "escalate")
  BY DEF GuardianAnswer, SetStep, Verdicts
<1>4. /\ note' = [note EXCEPT ![p] = "reviewed"] /\ lease' = lease /\ AppendEvent
      /\ \/ verdict = "escalate" /\ status' = status
         \/ verdict # "escalate" /\ status' = "queued"
  BY DEF GuardianAnswer, SetRun, Verdicts
<1>5. \E c : MoveTo(w, c)
  BY DEF GuardianAnswer, ToExecute, ToPause
<1>6. \A q \in Plan : q # p => Closed(q)
  BY <1>1 DEF Plans1, PlanRows, OneOpen, Closed, TerminalStep
<1>7. status \notin {"queued", "running"}
  BY <1>1, <1>2 DEF Plans1, PlanRows, AskedIsParked, Undecided
<1>8. PICK r \in Plan : r = p
  BY <1>1
<1>9. /\ step'[r] = to /\ note'[r] = "reviewed"
      /\ \A s \in StepId : s # r => step'[s] = step[s]
      /\ \A q \in Plan : q # r => note'[q] = note[q] /\ Closed(q)
  BY <1>3, <1>4, <1>6, <1>8 DEF Typed, DatabaseTyped, StepId
<1>10. PlanRows'
  BY <1>3, <1>4, <1>7, <1>9
  DEF Plans1, PlanRows, OneOpen, NotesFollow, PlansWait, AskedIsParked,
      Undecided, Closed, StepId, TerminalStep
<1> QED
  BY <1>1, <1>4, <1>5, <1>10, MoveToPhase, OwnerMoves

LEMMA PolicyStepPlans ==
  ASSUME Typed, Plans1, NEW w \in Worker, PolicyStep(w)
  PROVE  Plans1'
<1>1. CASE PolicyAllow(w)
  <2>1. PICK q \in Observation : step' = [step EXCEPT ![q] = "approved"]
    BY <1>1 DEF PolicyAllow, Proposed, In, SetStep
  <2>2. /\ Owns(w) /\ lease' = lease /\ note' = note /\ status' = status
        /\ AppendEvent /\ \E c : MoveTo(w, c)
    BY <1>1 DEF PolicyAllow, ToExecute
  <2>3. PlanRows'
    BY <2>1, <2>2, OtherRow, NamesAssumption DEF Plans1
  <2> QED
    BY <2>2, <2>3, MoveToPhase, OwnerMoves
<1>2. CASE PolicyNothing(w) \/ PolicyAuthorised(w) \/ PolicyAsk(w)
           \/ GuardianTooLate(w)
  <2>1. /\ Owns(w) /\ lease' = lease /\ step' = step /\ note' = note
        /\ status' = status /\ txn' = txn /\ \E c : MoveTo(w, c)
        /\ \/ drive[w].pc = "graph"
           \/ drive[w].pc = "review" /\ step[drive[w].at] # "running"
    BY <1>2 DEF PolicyNothing, PolicyAuthorised, PolicyAsk, GuardianTooLate,
                PolicyOnPlan, Reviewing, AtNode, ToExecute, ToPause, dbVars
  <2> QED
    BY <2>1, MoveToPhase, MovesKept
<1>3. CASE PauseCheck(w)
  <2>1. /\ Owns(w) /\ lease' = lease /\ step' = step /\ note' = note
        /\ status' = status /\ txn' = txn /\ drive[w].pc = "graph"
    BY <1>3 DEF PauseCheck, AtNode, dbVars
  <2>2. drive[w].cur \in Cursor
    BY CursorTyped DEF Typed
  <2>3. drive'[w].pc \in {"graph", "settle"} /\ Placed(w)'
    <3>1. CASE LeavePause(w, drive[w].cur)
      BY <2>1, <2>2, <3>1, PlacedAfterPause
    <3>2. CASE drive' = [drive EXCEPT ![w].cur.node = "end"]
      <4>1. drive'[w].pc = "graph"
        BY <2>1, <3>2, CursorTyped DEF Typed, DrivesTyped, Drive
      <4> QED
        BY <4>1, PlacedInGraph
    <3> QED
      BY <1>3, <3>1, <3>2 DEF PauseCheck
  <2> QED
    BY <2>1, <2>3, MovesKept
<1> QED
  BY <1>1, <1>2, <1>3, GuardianClaimPlans, GuardianAnswerPlans, SettlePlans
  DEF PolicyStep

-----------------------------------------------------------------------------
\* The workers: the execute node and the executor.

\* Only the open plan can be started, and no decision on it is open then.
LEMMA StartPlanPlans ==
  ASSUME Typed, Plans1, NEW w \in Worker, StartPlan(w)
  PROVE  Plans1'
<1>0. drive[w] \in Drive /\ drive \in [Worker -> Drive]
  BY CursorTyped DEF Typed, DrivesTyped
<1>1. PICK p \in Plan : p = Target(w)
  BY DEF StartPlan
<1>2. /\ Owns(w) /\ lease' = lease /\ note' = note /\ status' = status
      /\ txn' = txn /\ drive[w].pc = "graph" /\ step[p] \in {"approved", "running"}
  BY <1>1 DEF StartPlan, WillExecute, Executing, AtNode, Runnable
<1>3. /\ step'[p] = "running" /\ \A s \in StepId : s # p => step'[s] = step[s]
      /\ drive'[w].pc = "expand" /\ drive'[w].at[1] = p
  BY <1>0, <1>1 DEF StartPlan, Typed, DatabaseTyped, StepId, Drive
<1>4. PlanRows'
  BY <1>2, <1>3
  DEF Plans1, PlanRows, OneOpen, NotesFollow, PlansWait, AskedIsParked,
      Undecided, Closed, StepId, TerminalStep
<1>5. Placed(w)'
  BY <1>3 DEF Placed, PlacedEnter, PlacedExpand, PlacedReview, PlacedSettle,
              Expands
<1>6. \A q \in Plan : ~DecisionOpen(q)
  BY <1>2 DEF DecisionOpen, Apart, Closed, TerminalStep
<1> QED
  BY <1>2, <1>4, <1>5, <1>6, OwnerMoves

\* An action is inserted, taken up or passed over.
LEMMA ExpandActionPlans ==
  ASSUME Typed, Plans1, NEW w \in Worker, ExpandAction(w)
  PROVE  Plans1'
<1>0. drive[w] \in Drive /\ drive \in [Worker -> Drive]
  BY CursorTyped DEF Typed, DrivesTyped
<1>1. /\ Owns(w) /\ lease' = lease /\ note' = note /\ status' = status
      /\ drive[w].pc = "expand" /\ drive[w].cur.pending \in Plan
  BY DEF ExpandAction, Expanding, Typed, DrivesTyped, DriveShape, WorkingOn
<1>2. PICK a : a = drive[w].at
  OBVIOUS
<1>3. a \in PlanAction /\ a[1] \in Plan /\ a \notin Plan
  <2>1. a \in Plan \X (1 .. PlanLen + 1) /\ a[2] <= PlanLen
    BY <1>1, <1>2 DEF ExpandAction, HasAction, Typed, DrivesTyped, DriveShape,
                      WorkingOn
  <2>2. a = <<a[1], a[2]>> /\ a[1] \in Plan /\ a[2] \in 1 .. PlanLen
    BY <2>1, ConstantsAssumption
  <2> QED
    BY <2>2, NamesAssumption DEF PlanAction
<1>4. \/ step' = step /\ txn' = txn
      \/ step' = [step EXCEPT ![a] = "approved"] /\ AppendEvent
  BY <1>2 DEF ExpandAction
<1>5. PlanRows'
  BY <1>1, <1>3, <1>4, RowsKept, OtherRow DEF Plans1
<1>6. \A p \in Plan : step'[p] = step[p]
  BY <1>3, <1>4 DEF Typed, DatabaseTyped, StepId
<1>7. /\ drive'[w].pc \in {"begin", "expand"} /\ drive'[w].at[1] = a[1]
  <2>1. \/ drive' = [drive EXCEPT ![w].pc = "begin"]
        \/ drive' = [drive EXCEPT ![w].at = <<a[1], a[2] + 1>>]
    BY <1>2 DEF ExpandAction
  <2> QED
    BY <1>0, <1>1, <1>2, <2>1 DEF Drive
<1>8. Placed(w)'
  <2>1. PlacedExpand(w)
    BY <1>1 DEF Plans1, OwnerPlaced, Placed
  <2>2. step'[drive'[w].at[1]] # "waiting_approval"
    BY <1>1, <1>2, <1>3, <1>6, <1>7, <2>1 DEF PlacedExpand, Expands
  <2> QED
    BY <1>7, <2>2 DEF Placed, PlacedEnter, PlacedExpand, PlacedReview,
                      PlacedSettle
<1>9. ASSUME NEW p \in Plan, DecisionOpen(p)
      PROVE  /\ step'[p] \in {"waiting_approval", "running", "cancelled"}
             /\ status' # "queued"
             /\ \A q \in Plan \ {p} : Closed(q)'
             /\ Apart(w, p)'
  BY <1>1, <1>2, <1>6, <1>7, <1>9 DEF DecisionOpen, Apart, Closed
<1> QED
  BY <1>1, <1>4, <1>5, <1>8, <1>9, OwnerMoves

\* A plan that fails on the way does so without an event.
LEMMA FailPlanPlans ==
  ASSUME Typed, Plans1, NEW w \in Worker, FailPlan(w)
  PROVE  Plans1'
<1>1. PICK p \in Plan : p = drive[w].at[1]
  BY DEF FailPlan, Expanding, Typed, DrivesTyped, DriveShape, WorkingOn
<1>2. /\ Owns(w) /\ lease' = lease /\ note' = note /\ status' = status
      /\ txn' = txn /\ drive[w].pc = "expand" /\ \E c : MoveTo(w, c)
      /\ step' = step \/ SetStep(p, "failed")
  BY <1>1 DEF FailPlan, Expanding, ToDecide
<1>3. PlanRows'
  BY <1>2, RowsKept, RowEnds DEF Plans1, TerminalStep
<1>4. /\ \A q \in Plan : q # p => step'[q] = step[q]
      /\ step'[p] = step[p] \/ step'[p] = "failed"
  BY <1>2 DEF SetStep, Typed, DatabaseTyped, StepId
<1>5. drive'[w].pc = "graph" /\ Placed(w)'
  BY <1>2, MoveToPhase
<1>6. ASSUME NEW q \in Plan, DecisionOpen(q)
      PROVE  /\ step'[q] \in {"waiting_approval", "running", "cancelled"}
             /\ status' # "queued"
             /\ \A r \in Plan \ {q} : Closed(r)'
             /\ Apart(w, q)'
  BY <1>1, <1>2, <1>4, <1>5, <1>6 DEF DecisionOpen, Apart, Closed, TerminalStep
<1> QED
  BY <1>2, <1>3, <1>5, <1>6, OwnerMoves

LEMMA ExecuteNodeStepPlans ==
  ASSUME Typed, Plans1, NEW w \in Worker, ExecuteNodeStep(w)
  PROVE  Plans1'
<1>1. CASE SkipExecute(w)
  <2>1. /\ Owns(w) /\ lease' = lease /\ step' = step /\ note' = note
        /\ status' = status /\ txn' = txn /\ \E c : MoveTo(w, c)
        /\ drive[w].pc = "graph"
    BY <1>1 DEF SkipExecute, Executing, AtNode, ToDecide, dbVars
  <2> QED
    BY <2>1, MoveToPhase, MovesKept
<1>2. CASE ExecuteStep(w)
  <2>0. drive[w] \in Drive /\ drive \in [Worker -> Drive]
    BY CursorTyped DEF Typed, DrivesTyped
  <2>1. /\ Owns(w) /\ lease' = lease /\ step' = step /\ note' = note
        /\ status' = status /\ txn' = txn /\ drive[w].pc = "graph"
    BY <1>2 DEF ExecuteStep, WillExecute, Executing, AtNode, dbVars
  <2>2. drive'[w].pc = "begin" /\ drive'[w].cur.pending \notin Plan
    BY <1>2, <2>0 DEF ExecuteStep, Target, Drive
  <2>3. PlanRows'
    BY <2>1, RowsKept DEF Plans1
  <2>4. Placed(w)'
    BY <2>2 DEF Placed, PlacedEnter, PlacedExpand, PlacedReview, PlacedSettle,
                Expands
  <2>5. ASSUME NEW p \in Plan, DecisionOpen(p)
        PROVE  /\ step'[p] \in {"waiting_approval", "running", "cancelled"}
               /\ status' # "queued"
               /\ \A q \in Plan \ {p} : Closed(q)'
               /\ Apart(w, p)'
    BY <2>1, <2>2, <2>5 DEF DecisionOpen, Apart, Closed
  <2> QED
    BY <2>1, <2>3, <2>4, <2>5, OwnerMoves
<1>3. CASE InvalidatePlan(w)
  <2>1. /\ Owns(w) /\ lease' = lease /\ status' = status /\ AppendEvent
        /\ note' = [note EXCEPT ![Target(w)] = "none"]
        /\ SetStep(Target(w), "failed") /\ \E c : MoveTo(w, c)
    BY <1>3 DEF InvalidatePlan, WillExecute, Executing, ToDecide
  <2>2. PlanRows'
    BY <2>1, RowEnds DEF Plans1, TerminalStep
  <2> QED
    BY <2>1, <2>2, MoveToPhase, OwnerMoves
<1>4. CASE CompletePlan(w)
  <2>1. /\ Owns(w) /\ lease' = lease /\ status' = status /\ AppendEvent
        /\ note' = note /\ SetStep(drive[w].at[1], "succeeded")
        /\ \E c : MoveTo(w, c)
    BY <1>4 DEF CompletePlan, Expanding, ToDecide
  <2>2. PlanRows'
    BY <2>1, RowEnds DEF Plans1, TerminalStep
  <2> QED
    BY <2>1, <2>2, MoveToPhase, OwnerMoves
<1> QED
  BY <1>1, <1>2, <1>3, <1>4, StartPlanPlans, ExpandActionPlans, FailPlanPlans
  DEF ExecuteNodeStep

\* A step begins only in a Run that is not parked.
LEMMA BeginStepPlans ==
  ASSUME Typed, Plans1, NEW w \in Worker, BeginStep(w)
  PROVE  Plans1'
<1>0. drive[w] \in Drive /\ drive \in [Worker -> Drive]
  BY CursorTyped DEF Typed, DrivesTyped
<1>1. PICK a : a = drive[w].at
  OBVIOUS
<1>2. /\ Owns(w) /\ lease' = lease /\ note' = note /\ status' = "running"
      /\ status \in {"queued", "running"} /\ AppendEvent
      /\ drive[w].pc = "begin" /\ step[a] = "approved"
      /\ step' = [step EXCEPT ![a] = "running"]
  BY <1>1 DEF BeginStep, MayBegin
<1>3. /\ \A s \in StepId : s # a => step'[s] = step[s]
      /\ a \in StepId => step'[a] = "running"
  BY <1>2 DEF Typed, DatabaseTyped
<1>4. PlanRows'
  BY <1>2, <1>3
  DEF Plans1, PlanRows, OneOpen, NotesFollow, PlansWait, AskedIsParked,
      Undecided, Closed, StepId, TerminalStep
<1>5. drive'[w].pc = "launch" /\ drive'[w].at = a /\ drive'[w].cur = drive[w].cur
  BY <1>0, <1>1 DEF BeginStep, Drive
<1>6. Placed(w)'
  <2>1. ASSUME drive[w].cur.pending \in Plan
        PROVE  step'[a[1]] # "waiting_approval"
    <3>1. a[1] \in Plan
      BY <1>1, <1>2, <2>1 DEF Typed, DrivesTyped, DriveShape, WorkingOn, PlanAction
    <3>2. step[a[1]] # "waiting_approval"
      BY <1>1, <1>2, <2>1 DEF Plans1, OwnerPlaced, Placed, PlacedExpand, Expands
    <3> QED
      BY <1>3, <3>1, <3>2 DEF StepId
  <2> QED
    BY <1>5, <2>1 DEF Placed, PlacedEnter, PlacedExpand, PlacedReview,
                      PlacedSettle, Expands
<1> QED
  BY <1>2, <1>4, <1>6, OwnerMoves

\* The command leaves, whether or not the claim still holds.
LEMMA LaunchPlans ==
  ASSUME Typed, Plans1, NEW w \in Worker, Launch(w)
  PROVE  Plans1'
<1>0. drive[w] \in Drive /\ drive \in [Worker -> Drive]
  BY CursorTyped DEF Typed, DrivesTyped
<1>1. /\ lease' = lease /\ step' = step /\ note' = note /\ status' = status
      /\ txn' = txn /\ drive[w].pc = "launch"
  BY DEF Launch, dbVars
<1>2. /\ drive'[w].pc = "remote" /\ drive'[w].at = drive[w].at
      /\ drive'[w].cur = drive[w].cur
      /\ \A v \in Worker : v # w => drive'[v] = drive[v]
  BY <1>0 DEF Launch, Drive
<1>3. CASE Owns(w)
  <2>1. PlanRows'
    BY <1>1, RowsKept DEF Plans1
  <2>2. Placed(w)'
    BY <1>1, <1>2, <1>3
    DEF Plans1, OwnerPlaced, Placed, PlacedEnter, PlacedExpand, PlacedReview,
        PlacedSettle, Expands
  <2>3. ASSUME NEW p \in Plan, DecisionOpen(p)
        PROVE  /\ step'[p] \in {"waiting_approval", "running", "cancelled"}
               /\ status' # "queued"
               /\ \A q \in Plan \ {p} : Closed(q)'
               /\ Apart(w, p)'
    BY <1>1, <1>2, <1>3, <2>3 DEF DecisionOpen, Apart, Closed
  <2> QED
    BY <1>1, <1>3, <2>1, <2>2, <2>3, OwnerMoves
<1>4. CASE ~Owns(w)
  <2>1. \A v \in Worker : Owns(v)' => Owns(v) /\ drive'[v] = drive[v]
    BY <1>1, <1>2, <1>4 DEF Owns
  <2>2. \A x \in Session, p \in Plan : Deciding(x, p)' => DecisionOpen(p)
    BY <1>1 DEF Plans1, DecisionsOpen, Deciding, Fresh
  <2> QED
    BY <1>1, <2>1, <2>2, OthersMove
<1> QED
  BY <1>3, <1>4

\* The outcome of a step is recorded, with an event.
LEMMA OutcomePlans ==
  ASSUME Typed, Plans1, NEW w \in Worker, NEW pc \in AtHost,
         NEW to \in TerminalStep \cup {"outcome_unknown"}, Outcome(w, pc, to),
         lease' = lease, note' = note,
         status' = status \/ status' \in {"needs_attention", "failed"}
  PROVE  Plans1'
<1>0. drive[w] \in Drive /\ drive \in [Worker -> Drive]
  BY CursorTyped DEF Typed, DrivesTyped
<1>1. PICK a : a = drive[w].at
  OBVIOUS
<1>2. Owns(w) /\ SetStep(a, to) /\ AppendEvent /\ drive[w].pc = pc
  BY <1>1 DEF Outcome
<1>3. PlanRows'
  BY <1>2, RowEnds DEF Plans1
<1>4. Placed(w)'
  <2>1. CASE drive[w].cur.pending \notin Plan
    BY <2>1, MoveToPhase DEF Outcome, AfterStep, ToDecide
  <2>2. CASE drive[w].cur.pending \in Plan
    <3>1. a[1] \in Plan /\ a \notin Plan
      BY <1>1, <1>2, <2>2, NamesAssumption
      DEF Typed, DrivesTyped, DriveShape, WorkingOn, PlanAction
    <3>2. step[a[1]] # "waiting_approval"
      BY <1>1, <1>2, <2>2 DEF Plans1, OwnerPlaced, Placed, PlacedExpand, Expands
    <3>3. step'[a[1]] # "waiting_approval"
      BY <1>2, <3>1, <3>2 DEF SetStep, Typed, DatabaseTyped, StepId
    <3>4. PICK x : x[1] = a[1]
                   /\ drive' = [drive EXCEPT ![w].pc = "expand", ![w].at = x]
      BY <1>1, <2>2 DEF Outcome, AfterStep
    <3>5. drive'[w].pc = "expand" /\ drive'[w].at[1] = a[1]
      BY <1>0, <3>4 DEF Drive
    <3> QED
      BY <3>3, <3>5 DEF Placed, PlacedEnter, PlacedExpand, PlacedReview,
                        PlacedSettle
  <2> QED
    BY <2>1, <2>2
<1> QED
  BY <1>2, <1>3, <1>4, OwnerMoves

LEMMA ExecutorStepPlans ==
  ASSUME Typed, Plans1, NEW w \in Worker, ExecutorStep(w)
  PROVE  Plans1'
<1>1. "launch" \in AtHost /\ "remote" \in AtHost
  OBVIOUS
<1>2. ASSUME ~BeginStep(w), ~Launch(w)
      PROVE  /\ lease' = lease /\ note' = note
             /\ status' = status \/ status' \in {"needs_attention", "failed"}
             /\ \E pc \in AtHost, to \in TerminalStep \cup {"outcome_unknown"} :
                  Outcome(w, pc, to)
  BY <1>1, <1>2 DEF ExecutorStep, RecordNotStarted, RecordExit,
                    RecordInterruptedWrite, RecordInterruptedRead,
                    StopForPerson, SetRun, TerminalStep
<1> QED
  BY <1>2, BeginStepPlans, LaunchPlans, OutcomePlans

\* A worker that dies or gives up keeps its lease and writes nothing.
LEMMA AbandonDrivePlans ==
  ASSUME Typed, Plans1, NEW w \in Worker, AbandonDrive(w)
  PROVE  Plans1'
<1>1. /\ lease' = lease /\ step' = step /\ note' = note /\ status' = status
      /\ txn' = txn
  BY DEF AbandonDrive, dbVars
<1>2. /\ drive'[w].pc = "idle"
      /\ \A v \in Worker : v # w => drive'[v] = drive[v]
  BY DEF AbandonDrive, StopDriving, Idle, Typed, DrivesTyped
<1>3. CASE Owns(w)
  <2>1. PlanRows'
    BY <1>1, RowsKept DEF Plans1
  <2>2. Placed(w)'
    BY <1>2, PlacedInGraph
  <2>3. ASSUME NEW p \in Plan, DecisionOpen(p)
        PROVE  /\ step'[p] \in {"waiting_approval", "running", "cancelled"}
               /\ status' # "queued"
               /\ \A q \in Plan \ {p} : Closed(q)'
               /\ Apart(w, p)'
    BY <1>1, <1>2, <2>3 DEF DecisionOpen, Apart, Closed
  <2> QED
    BY <1>1, <1>3, <2>1, <2>2, <2>3, OwnerMoves
<1>4. CASE ~Owns(w)
  <2>1. \A v \in Worker : Owns(v)' => Owns(v) /\ drive'[v] = drive[v]
    BY <1>1, <1>2, <1>4 DEF Owns
  <2>2. \A x \in Session, p \in Plan : Deciding(x, p)' => DecisionOpen(p)
    BY <1>1 DEF Plans1, DecisionsOpen, Deciding, Fresh
  <2> QED
    BY <1>1, <2>1, <2>2, OthersMove
<1> QED
  BY <1>3, <1>4

LEMMA WorkerStepPlans ==
  ASSUME Typed, Plans1, NEW w \in Worker, WorkerStep(w)
  PROVE  Plans1'
<1>1. CASE Decide(w)
  <2>1. /\ Owns(w) /\ lease' = lease /\ step' = step /\ note' = note
        /\ status' = status /\ txn' = txn /\ \E c : MoveTo(w, c)
        /\ drive[w].pc = "graph"
    BY <1>1 DEF Decide, AtNode, dbVars
  <2> QED
    BY <2>1, MoveToPhase, MovesKept
<1> QED
  BY <1>1, EnterPausedPlans, EnterStepPlans, ResolveStepPlans,
     SaveCheckpointPlans, DurationExhaustedPlans, PlanStepPlans, PolicyStepPlans,
     ExecuteNodeStepPlans, ExecutorStepPlans, EndStepPlans, AbandonDrivePlans
  DEF WorkerStep

-----------------------------------------------------------------------------
\* The invariant, and what follows from it.

LEMMA PlansStep ==
  ASSUME Plans, [Next]_vars
  PROVE  Plans'
<1> USE DEF Plans
<1>1. CASE UNCHANGED vars
  <2>1. \A w \in Worker : Owns(w)' => Owns(w) /\ drive'[w] = drive[w]
    BY <1>1 DEF vars, dbVars, Owns
  <2>2. \A x \in Session, p \in Plan : Deciding(x, p)' => DecisionOpen(p)
    BY <1>1 DEF vars, Plans1, DecisionsOpen, Deciding, Fresh
  <2>3. Plans1'
    BY <1>1, <2>1, <2>2, OthersMove DEF vars, dbVars
  <2> QED
    BY <2>3, TypedStep, TxnPresentStep, DraftedStep
<1>2. CASE Next
  BY <1>2, TypedStep, TxnPresentStep, DraftedStep, EnvironmentPlans,
     RequestCancelPlans, SessionStepPlans, WorkerStepPlans DEF Next
<1> QED
  BY <1>1, <1>2

LEMMA PlansInit == Typed /\ Init => Plans
<1> SUFFICES ASSUME Typed, Init
             PROVE  Plans
  OBVIOUS
<1>1. TxnPresent /\ Drafted
  BY DEF Init, TxnPresent, Drafted, NoTxn, Fresh
<1>2. PlanRows
  BY DEF Init, PlanRows, OneOpen, NotesFollow, PlansWait, AskedIsParked,
         Undecided, Closed, StepId
<1>3. OwnerPlaced /\ DecisionsOpen /\ NoRunIsLost
  BY DEF Init, OwnerPlaced, Owns, NoLease, DecisionsOpen, Deciding, Fresh, NoTxn,
         NoRunIsLost, NoOrphanedRun, ParkedUnlessExpired
<1> QED
  BY <1>1, <1>2, <1>3 DEF Plans, Plans1

LEMMA PlansInvariant == Spec => []Plans
<1>1. Typed /\ Init => Plans
  BY PlansInit
<1>2. Plans /\ [Next]_vars => Plans'
  BY PlansStep
<1> QED
  BY <1>1, <1>2, TypedInvariant, PTL DEF Spec

\* An active Run is always in somebody's reach: one that runs or is recovered has
\* a lease, and one that is parked without a lease has a plan that waits, or one
\* that a late expiry has cancelled.
THEOREM RunsAreNotLost == Spec => []NoRunIsLost
<1>1. Plans => NoRunIsLost
  BY DEF Plans, Plans1
<1> QED
  BY <1>1, PlansInvariant, PTL

\* A plan that was rejected or invalidated never becomes executable again, though
\* an approval read before the Guardian took the plan may still commit.
THEOREM RejectedStayRejected == Spec => RejectedNeverRuns
<1>1. ASSUME Plans, [Next]_vars, NEW p \in Plan, step[p] = "failed"
      PROVE  step'[p] \in {"failed", "cancelled"}
  <2>1. p \in StepId
    BY DEF StepId
  <2>2. LegalRow(p) => step'[p] = "failed"
    BY <1>1, TerminalHasNoSuccessor DEF TerminalStep
  <2>3. \A x \in Session : ~(CommitDecision(x) /\ p = txn[x].step)
    BY <1>1 DEF CommitDecision, Plans, Plans1, DecisionsOpen, Deciding,
                DecisionOpen
  <2> QED
    BY <1>1, <2>1, <2>2, <2>3, NextRows DEF Plans, Overwrites
<1>2. Plans /\ [Next]_vars =>
        [\A p \in Plan : step[p] = "failed" =>
           step'[p] \in {"failed", "cancelled"}]_vars
  BY <1>1
<1> QED
  BY <1>2, PlansInvariant, PTL DEF Spec, RejectedNeverRuns

-----------------------------------------------------------------------------
\* A Run is only called cancelled, or about to be, when somebody asked.
AskedIn(c) == c.why = "cancelled" => cancel
AskedFirst ==
  /\ status = "cancelled" => cancel
  /\ \A w \in Worker : AskedIn(drive[w].cur)
  /\ ckpt # None => AskedIn(ckpt)

\* Why a cursor that w comes to hold is to end the Run: the reason is the one w
\* held, or the checkpoint's, or it is no cancel, or the cancel was asked for.
EndsBecause(w, y) ==
  \/ y = drive[w].cur.why
  \/ ckpt # None /\ y = ckpt.why
  \/ y # "cancelled"
  \/ cancel'

\* A step in which w alone moves, with such a cursor, and the checkpoint is kept,
\* lost or taken from the cursor of w.
OnlyMoves(w) ==
  /\ \A v \in Worker \ {w} : drive'[v] = drive[v]
  /\ EndsBecause(w, drive'[w].cur.why)
  /\ ckpt' \in {None, ckpt, drive[w].cur}

\* What w holds is written at once.
LEMMA ReasonOfNew ==
  ASSUME Typed, NEW w \in Worker, NEW d, drive' = [drive EXCEPT ![w] = d],
         EndsBecause(w, d.cur.why), ckpt' \in {None, ckpt, drive[w].cur}
  PROVE  OnlyMoves(w)
  BY DEF OnlyMoves, Typed, DrivesTyped

\* The moves of a worker.
LEMMA ReasonOfMove ==
  ASSUME Typed, NEW w \in Worker, ckpt' \in {None, ckpt, drive[w].cur},
         \/ drive' = drive
         \/ StopDriving(w)
         \/ \E d \in Drive : /\ drive' = [drive EXCEPT ![w] = d]
                             /\ d.cur.why = drive[w].cur.why
         \/ \E c : (MoveTo(w, c) \/ Rebuild(w, c)) /\ EndsBecause(w, c.why)
         \/ \E c \in Cursor : LeavePause(w, c) /\ EndsBecause(w, c.why)
         \/ Resume(w) /\ ckpt # None
  PROVE  OnlyMoves(w)
<1>0. drive[w].cur \in Cursor
  BY CursorTyped DEF Typed, DrivesTyped
<1>1. CASE drive' = drive
  BY <1>1 DEF OnlyMoves, EndsBecause
<1>2. CASE StopDriving(w)
  <2>1. drive' = [drive EXCEPT ![w] = Idle] /\ Idle.cur.why = "none"
    BY <1>2 DEF StopDriving, Idle, FreshCursor
  <2> QED
    BY <2>1, ReasonOfNew DEF EndsBecause
<1>3. CASE \E d \in Drive : /\ drive' = [drive EXCEPT ![w] = d]
                            /\ d.cur.why = drive[w].cur.why
  BY <1>3, ReasonOfNew DEF EndsBecause
<1>4. ASSUME NEW c, MoveTo(w, c), EndsBecause(w, c.why)
      PROVE  OnlyMoves(w)
  <2> DEFINE d == [pc |-> "graph", cur |-> c, saved |-> FALSE, at |-> None]
  <2>1. drive' = [drive EXCEPT ![w] = d] /\ d.cur = c
    BY <1>4 DEF MoveTo
  <2> QED
    BY <1>4, <2>1, ReasonOfNew
<1>5. ASSUME NEW c, Rebuild(w, c), EndsBecause(w, c.why)
      PROVE  OnlyMoves(w)
  <2> DEFINE d == [pc |-> "rebuild", cur |-> c, saved |-> FALSE, at |-> None]
  <2>1. drive' = [drive EXCEPT ![w] = d] /\ d.cur = c
    BY <1>5 DEF Rebuild
  <2> QED
    BY <1>5, <2>1, ReasonOfNew
<1>6. CASE Resume(w) /\ ckpt # None
  <2> DEFINE d == [pc |-> "graph", cur |-> ckpt, saved |-> TRUE, at |-> None]
  <2>1. drive' = [drive EXCEPT ![w] = d] /\ d.cur = ckpt
    BY <1>6 DEF Resume
  <2> QED
    BY <1>6, <2>1, ReasonOfNew DEF EndsBecause
<1>7. ASSUME NEW c \in Cursor, LeavePause(w, c), EndsBecause(w, c.why)
      PROVE  OnlyMoves(w)
  <2> DEFINE e == [c EXCEPT !.node = "execute", !.skip = ~Decided(c)]
             d1 == [pc |-> "settle", cur |-> c, saved |-> TRUE, at |-> None]
             d2 == [pc |-> "graph", saved |-> FALSE, at |-> None, cur |-> e]
  <2>1. d1.cur.why = c.why /\ d2.cur.why = c.why
    BY DEF Cursor
  <2>2. drive' = [drive EXCEPT ![w] = d1] \/ drive' = [drive EXCEPT ![w] = d2]
    BY <1>7 DEF LeavePause
  <2> HIDE DEF d1, d2
  <2> QED
    BY <1>7, <2>1, <2>2, ReasonOfNew
<1> QED
  BY <1>1, <1>2, <1>3, <1>4, <1>5, <1>6, <1>7

\* A worker that stays with its cursor: only where it stands changes.
LEMMA ReasonWhereItStands ==
  ASSUME Typed, Typed', NEW w \in Worker, ckpt' \in {None, ckpt, drive[w].cur},
         \/ \E n : drive' = [drive EXCEPT ![w].pc = n]
         \/ \E n, a : drive' = [drive EXCEPT ![w].pc = n, ![w].at = a]
         \/ \E a : drive' = [drive EXCEPT ![w].at = a]
         \/ \E b : drive' = [drive EXCEPT ![w].saved = b]
         \/ \E n, b : drive' = [drive EXCEPT ![w].pc = n, ![w].saved = b]
  PROVE  OnlyMoves(w)
<1>0. /\ drive[w] \in Drive /\ drive \in [Worker -> Drive]
  BY CursorTyped DEF Typed, DrivesTyped
<1> QED
  BY <1>0 DEF OnlyMoves, EndsBecause, Drive

\* The prologue of a drive, and what may happen at any node.
LEMMA EnterStepReason ==
  ASSUME Typed, Typed', NEW w \in Worker,
         \/ EnterStep(w) \/ SaveCheckpoint(w) \/ DurationExhausted(w)
         \/ AbandonDrive(w)
  PROVE  OnlyMoves(w)
<1>1. CASE EnterPaused(w)
  <2>1. ckpt \in Cursor /\ LeavePause(w, ckpt) /\ ckpt # None /\ ckpt' = ckpt
    BY <1>1 DEF EnterPaused, Typed, DatabaseTyped, DrivesTyped
  <2> QED
    BY <2>1, ReasonOfMove DEF EndsBecause
<1>2. CASE Claim(w)
  BY <1>2, ReasonWhereItStands DEF Claim
<1>3. CASE SaveCheckpoint(w)
  BY <1>3, ReasonWhereItStands DEF SaveCheckpoint
<1>4. CASE ConfirmCancel(w) \/ RefuseRun(w) \/ CheckpointUnavailable(w)
           \/ DurationExhausted(w) \/ AbandonDrive(w)
  <2>1. StopDriving(w) /\ ckpt' = ckpt
    BY <1>4 DEF ConfirmCancel, RefuseRun, FailRun, CheckpointUnavailable,
                DurationExhausted, AbandonDrive
  <2> QED
    BY <2>1, ReasonOfMove
<1> QED
  BY <1>1, <1>2, <1>3, <1>4 DEF EnterStep

\* Recovery: the cursors it builds are fresh ones.
LEMMA ResolveStepReason ==
  ASSUME Typed, Typed', NEW w \in Worker, ResolveStep(w)
  PROVE  OnlyMoves(w)
<1>0. FreshCursor.why = "none" /\ FreshCursor \in Cursor
      /\ drive[w] \in Drive /\ drive[w].cur \in Cursor
  BY FreshCursorTyped, CursorTyped DEF FreshCursor, Typed, DrivesTyped
<1>1. CASE WriteBoundary(w)
  <2>1. CASE LeavePause(w, drive[w].cur)
    BY <1>0, <1>1, <2>1, ReasonOfMove DEF WriteBoundary, EndsBecause
  <2>2. CASE drive' = [drive EXCEPT ![w].pc = "graph", ![w].saved = TRUE]
    BY <1>1, <2>2, ReasonWhereItStands DEF WriteBoundary
  <2> QED
    BY <1>1, <2>1, <2>2 DEF WriteBoundary
<1>2. CASE ResolveManyActions(w) \/ ResolveInterruptedWrite(w)
           \/ ResolvePostAction(w)
  <2>1. StopDriving(w) /\ ckpt' = ckpt
    BY <1>2 DEF ResolveManyActions, ResolveInterruptedWrite, ResolvePostAction,
                Halt
  <2> QED
    BY <2>1, ReasonOfMove
<1>3. CASE ResolveFresh(w)
  BY <1>0, <1>3, ReasonOfMove DEF ResolveFresh, EndsBecause
<1>4. CASE ResolveResume(w)
  BY <1>4, ReasonOfMove DEF ResolveResume
<1>5. CASE ResolveNoAction(w)
  BY <1>0, <1>5, ReasonOfMove DEF ResolveNoAction, EndsBecause
<1>6. \A l : [FreshCursor EXCEPT !.loops = l].why = "none"
  BY DEF FreshCursor
<1>7. \A l : [FreshCursor EXCEPT !.node = "policy", !.loops = l].why = "none"
  BY DEF FreshCursor
<1>8. \A s : [FreshCursor EXCEPT !.node = "pause", !.pending = s].why = "none"
  BY DEF FreshCursor
<1>9. CASE ResolveFinishedProbes(w) \/ ResolveWaiting(w) \/ ResolveApproved(w)
           \/ ResolveProposed(w)
  <2>1. ckpt' = ckpt /\ \E c : Rebuild(w, c) /\ c.why = "none"
    BY <1>6, <1>7, <1>8, <1>9
    DEF ResolveFinishedProbes, ResolveWaiting, ResolveApproved, ResolveProposed
  <2> QED
    BY <2>1, ReasonOfMove DEF EndsBecause
<1> QED
  BY <1>1, <1>2, <1>3, <1>4, <1>5, <1>9 DEF ResolveStep

\* The nodes of the graph change where the cursor is, not why it ends the Run.
LEMMA NodeKeepsReason ==
  ASSUME NEW c \in Cursor, NEW n, NEW s, NEW k, NEW m
  PROVE  /\ [c EXCEPT !.node = n].why = c.why
         /\ [c EXCEPT !.node = n, !.more = m].why = c.why
         /\ [c EXCEPT !.node = n, !.pending = s, !.skip = k].why = c.why
  BY DEF Cursor

\* The plan and policy nodes, a review and the pause.
LEMMA GraphStepReason ==
  ASSUME Typed, Typed', NEW w \in Worker, PlanStep(w) \/ PolicyStep(w)
  PROVE  OnlyMoves(w)
<1>0. /\ drive[w] \in Drive /\ drive[w].cur \in Cursor
      /\ drive \in [Worker -> Drive]
  BY CursorTyped DEF Typed, DrivesTyped
<1> DEFINE c == drive[w].cur
<1>1. ASSUME NEW k, ckpt' = ckpt, MoveTo(w, k), k.why = c.why
      PROVE  OnlyMoves(w)
  BY <1>1, ReasonOfMove DEF EndsBecause
<1>2. ASSUME NEW m, ckpt' = ckpt, Planned(w, m)
      PROVE  OnlyMoves(w)
  <2> DEFINE k == [c EXCEPT !.node = "policy", !.more = m]
  <2>1. MoveTo(w, k)
    BY <1>2 DEF Planned
  <2>2. k.why = c.why
    BY <1>0, NodeKeepsReason
  <2> QED
    BY <1>1, <1>2, <2>1, <2>2
<1>3. ASSUME NEW s, ckpt' = ckpt, ToExecute(w, s)
      PROVE  OnlyMoves(w)
  <2> DEFINE k == [c EXCEPT !.node = "execute", !.pending = s, !.skip = FALSE]
  <2>1. MoveTo(w, k)
    BY <1>3 DEF ToExecute
  <2>2. k.why = c.why
    BY <1>0, NodeKeepsReason
  <2> QED
    BY <1>1, <1>3, <2>1, <2>2
<1>4. ASSUME NEW s, ckpt' = ckpt, ToPause(w, s)
       PROVE  OnlyMoves(w)
  <2> DEFINE k == [c EXCEPT !.node = "pause", !.pending = s, !.skip = FALSE]
  <2>1. MoveTo(w, k)
    BY <1>4 DEF ToPause
  <2>2. k.why = c.why
    BY <1>0, NodeKeepsReason
  <2> QED
    BY <1>1, <1>4, <2>1, <2>2
<1>5. CASE PlannerFails(w) \/ Settle(w)
  <2>1. StopDriving(w) /\ ckpt' = ckpt
    BY <1>5 DEF PlannerFails, FailRun, Settle
  <2> QED
    BY <2>1, ReasonOfMove
<1>6. CASE PlanStep(w) /\ ~PlannerFails(w)
  BY <1>2, <1>6 DEF PlanStep, ProposeProbe, ProposeVerification, ProposePlan,
                    Finish
<1>7. CASE GuardianClaim(w)
  BY <1>7, ReasonWhereItStands DEF GuardianClaim
<1>8. CASE PauseCheck(w)
  <2>1. CASE LeavePause(w, drive[w].cur)
    BY <1>0, <1>8, <2>1, ReasonOfMove DEF PauseCheck, EndsBecause
  <2>2. CASE drive' = [drive EXCEPT ![w].cur.node = "end"]
    <3>1. /\ drive'[w].cur = [drive[w].cur EXCEPT !.node = "end"]
          /\ \A v \in Worker \ {w} : drive'[v] = drive[v]
      BY <1>0, <2>2 DEF Drive
    <3>2. drive'[w].cur.why = drive[w].cur.why
      BY <1>0, <3>1, NodeKeepsReason
    <3> QED
      BY <1>8, <3>1, <3>2 DEF PauseCheck, OnlyMoves, EndsBecause
  <2> QED
    BY <1>8, <2>1, <2>2 DEF PauseCheck
<1>9. CASE GuardianAnswer(w, "approve") \/ GuardianAnswer(w, "reject")
           \/ GuardianAnswer(w, "escalate")
  BY <1>3, <1>4, <1>9 DEF GuardianAnswer
<1>10. CASE PolicyAllow(w) \/ PolicyNothing(w) \/ PolicyAuthorised(w)
            \/ PolicyAsk(w) \/ GuardianTooLate(w)
  BY <1>3, <1>4, <1>10
  DEF PolicyAllow, PolicyNothing, PolicyAuthorised, PolicyAsk, GuardianTooLate
<1> QED
  BY <1>5, <1>6, <1>7, <1>8, <1>9, <1>10 DEF PolicyStep, Verdicts

\* The execute node and the executor.
LEMMA ExecutionReason ==
  ASSUME Typed, Typed', NEW w \in Worker, ExecuteNodeStep(w) \/ ExecutorStep(w)
  PROVE  OnlyMoves(w)
<1>0. drive[w] \in Drive /\ drive[w].cur \in Cursor
  BY CursorTyped DEF Typed, DrivesTyped
<1>1. ASSUME ckpt' = ckpt, ToDecide(w)
      PROVE  OnlyMoves(w)
  <2>1. \E c : MoveTo(w, c) /\ c.why = drive[w].cur.why
    BY <1>0, <1>1, NodeKeepsReason DEF ToDecide
  <2> QED
    BY <1>1, <2>1, ReasonOfMove DEF EndsBecause
<1>2. CASE SkipExecute(w) \/ InvalidatePlan(w) \/ FailPlan(w) \/ CompletePlan(w)
  BY <1>1, <1>2 DEF SkipExecute, InvalidatePlan, FailPlan, CompletePlan
<1>3. CASE ExecuteStep(w) \/ StartPlan(w) \/ ExpandAction(w) \/ BeginStep(w)
           \/ Launch(w)
  BY <1>3, ReasonWhereItStands
  DEF ExecuteStep, StartPlan, ExpandAction, BeginStep, Launch, dbVars
<1>4. ASSUME NEW pc, NEW to, Outcome(w, pc, to), ckpt' = ckpt
      PROVE  OnlyMoves(w)
  <2>1. \/ ToDecide(w)
        \/ \E n, a : drive' = [drive EXCEPT ![w].pc = n, ![w].at = a]
    BY <1>0, <1>4, CursorTyped DEF Outcome, AfterStep, Typed, DrivesTyped, Drive
  <2> QED
    BY <1>1, <1>4, <2>1, ReasonWhereItStands
<1>5. CASE ExecutorStep(w) /\ ~BeginStep(w) /\ ~Launch(w)
  BY <1>4, <1>5 DEF ExecutorStep, RecordNotStarted, RecordExit,
                    RecordInterruptedWrite, RecordInterruptedRead
<1> QED
  BY <1>2, <1>3, <1>5 DEF ExecuteNodeStep, ExecutorStep

\* decide closes the cursor as cancelled only if it has seen the request.
LEMMA EndStepReason ==
  ASSUME Typed, Typed', NEW w \in Worker, EndStep(w)
  PROVE  OnlyMoves(w)
<1>0. drive[w] \in Drive /\ drive[w].cur \in Cursor
  BY CursorTyped DEF Typed, DrivesTyped
<1>1. CASE FinalizeAttention(w) \/ FinalizeQueued(w) \/ Finalize(w)
  <2>1. StopDriving(w) /\ ckpt' = ckpt
    BY <1>1 DEF FinalizeAttention, FinalizeQueued, Finalize
  <2> QED
    BY <2>1, ReasonOfMove
<1>2. CASE Decide(w)
  <2> DEFINE c == drive[w].cur
             done(why) == [c EXCEPT !.node = "end", !.loops = @ + 1,
                                    !.why = why, !.pending = None,
                                    !.skip = FALSE]
             again == [FreshCursor EXCEPT !.loops = c.loops + 1]
  <2>1. \A why : done(why).why = why
    BY <1>0 DEF Cursor
  <2>2. again.why = "none"
    BY DEF FreshCursor
  <2>3. cancel' = cancel /\ ckpt' = ckpt
    BY <1>2 DEF Decide, dbVars
  <2>4. \/ cancel /\ MoveTo(w, done("cancelled"))
        \/ MoveTo(w, done("budget_exhausted"))
        \/ MoveTo(w, done("exhausted"))
        \/ MoveTo(w, again)
    BY <1>2 DEF Decide
  <2> HIDE DEF done, again
  <2>5. \E k : MoveTo(w, k) /\ EndsBecause(w, k.why)
    BY <2>1, <2>2, <2>3, <2>4 DEF EndsBecause
  <2> QED
    BY <2>3, <2>5, ReasonOfMove
<1> QED
  BY <1>1, <1>2 DEF EndStep

\* Every step of a worker.
LEMMA WorkerStepReason ==
  ASSUME Typed, Typed', NEW w \in Worker, WorkerStep(w)
  PROVE  OnlyMoves(w)
  BY EnterStepReason, ResolveStepReason, GraphStepReason, ExecutionReason,
     EndStepReason DEF WorkerStep

\* A request to cancel is not taken back.
LEMMA CancelStays ==
  ASSUME Typed, [Next]_vars
  PROVE  \/ cancel' = cancel
         \/ RequestCancel
<1>1. ASSUME NEW w \in Worker, WorkerStep(w)
      PROVE  cancel' = cancel
  <2>1. CASE EnterStep(w) \/ EndStep(w) \/ SaveCheckpoint(w) \/ AbandonDrive(w)
             \/ DurationExhausted(w)
    BY <2>1
    DEF EnterStep, Claim, ConfirmCancel, RefuseRun, FailRun,
        CheckpointUnavailable, EnterPaused, EndStep, Decide, FinalizeAttention,
        FinalizeQueued, Finalize, SaveCheckpoint, AbandonDrive,
        DurationExhausted, dbVars
  <2>2. CASE ResolveStep(w)
    BY <2>2
    DEF ResolveStep, ResolveFresh, ResolveResume, ResolveFinishedProbes,
        ResolveManyActions, ResolveInterruptedWrite, ResolveWaiting,
        ResolveApproved, ResolveProposed, ResolvePostAction, ResolveNoAction,
        WriteBoundary, dbVars
  <2>3. CASE PlanStep(w) \/ PolicyStep(w)
    BY <2>3
    DEF PlanStep, ProposeProbe, ProposeVerification, ProposePlan, Finish,
        PlannerFails, FailRun, PolicyStep, PolicyAllow, PolicyNothing,
        PolicyAuthorised, PolicyAsk, GuardianClaim, GuardianAnswer,
        GuardianTooLate, PauseCheck, Settle, dbVars
  <2>4. CASE ExecuteNodeStep(w) \/ ExecutorStep(w)
    BY <2>4
    DEF ExecuteNodeStep, SkipExecute, ExecuteStep, InvalidatePlan, StartPlan,
        ExpandAction, FailPlan, CompletePlan, ExecutorStep, BeginStep, Launch,
        RecordNotStarted, RecordExit, RecordInterruptedWrite,
        RecordInterruptedRead, dbVars
  <2> QED
    BY <1>1, <2>1, <2>2, <2>3, <2>4 DEF WorkerStep
<1>2. ASSUME NEW x \in Session, SessionStep(x)
      PROVE  cancel' = cancel
  BY <1>2 DEF SessionStep, ReadDraft, CommitDraft, ReadDecision, CommitDecision,
              ReadExpiry, CommitExpiry, CommitStepExpiry, Rollback, dbVars
<1>3. CASE Environment \/ UNCHANGED vars
  BY <1>3 DEF Environment, ExpireLease, LoseCheckpoint, RemoteExit, vars, dbVars
<1> QED
  BY <1>1, <1>2, <1>3 DEF Next

\* How a worker ends a Run: completed only while it runs, cancelled only when
\* somebody asked, and never expired.
LEMMA WorkerEnds ==
  ASSUME AskedFirst, NEW w \in Worker, WorkerStep(w), status' # status
  PROVE  /\ status' = "completed" => status = "running"
         /\ status' = "cancelled" => cancel
         /\ status' # "expired"
<1>1. CASE EnterStep(w) \/ SaveCheckpoint(w) \/ DurationExhausted(w)
           \/ AbandonDrive(w)
  BY <1>1
  DEF EnterStep, Claim, ConfirmCancel, RefuseRun, FailRun, SetRun, RunLegal,
      CheckpointUnavailable, EnterPaused, SaveCheckpoint, AbandonDrive,
      DurationExhausted, dbVars
<1>2. CASE EndStep(w)
  <2>1. CASE Finalize(w)
    BY <2>1 DEF Finalize, SetRun, RunLegal, AskedFirst, AskedIn
  <2> QED
    BY <1>2, <2>1 DEF EndStep, Decide, FinalizeAttention, FinalizeQueued, dbVars
<1>3. CASE ResolveStep(w)
  BY <1>3
  DEF ResolveStep, ResolveFresh, ResolveResume, ResolveFinishedProbes,
      ResolveManyActions, ResolveInterruptedWrite, ResolveWaiting,
      ResolveApproved, ResolveProposed, ResolvePostAction, ResolveNoAction,
      WriteBoundary, Halt, BecomeRunning, SetRun, dbVars
<1>4. CASE PlanStep(w) \/ PolicyStep(w)
  BY <1>4
  DEF PlanStep, ProposeProbe, ProposeVerification, ProposePlan, Finish,
      PlannerFails, FailRun, PolicyStep, PolicyAllow, PolicyNothing,
      PolicyAuthorised, PolicyAsk, GuardianClaim, GuardianAnswer,
      GuardianTooLate, PauseCheck, Settle, SetRun, dbVars
<1>5. CASE ExecuteNodeStep(w) \/ ExecutorStep(w)
  BY <1>5
  DEF ExecuteNodeStep, SkipExecute, ExecuteStep, InvalidatePlan, StartPlan,
      ExpandAction, FailPlan, CompletePlan, ExecutorStep, BeginStep, Launch,
      RecordNotStarted, RecordExit, RecordInterruptedWrite,
      RecordInterruptedRead, StopForPerson, SetRun, dbVars
<1> QED
  BY <1>1, <1>2, <1>3, <1>4, <1>5 DEF WorkerStep

\* The unlocked sessions: a commit never completes or cancels a Run.
LEMMA SessionEnds ==
  ASSUME NEW x \in Session, SessionStep(x), status' # status
  PROVE  MayCommit(x) /\ status' \in {"queued", "expired"}
  BY DEF SessionStep, ReadDraft, CommitDraft, ReadDecision, CommitDecision,
         Requeue, ReadExpiry, CommitExpiry, CommitStepExpiry, Rollback, dbVars,
         MayCommit, Fresh

\* AskedFirst is inductive.
LEMMA AskedFirstStep ==
  ASSUME Typed, Typed', AskedFirst, [Next]_vars
  PROVE  AskedFirst'
<1>1. cancel => cancel'
  BY CancelStays DEF RequestCancel
<1>2. ASSUME NEW w \in Worker, WorkerStep(w)
      PROVE  AskedFirst'
  <2>1. OnlyMoves(w)
    BY <1>2, WorkerStepReason
  <2>2. AskedIn(drive[w].cur)' /\ \A v \in Worker \ {w} : AskedIn(drive[v].cur)'
    BY <1>1, <2>1 DEF OnlyMoves, EndsBecause, AskedFirst, AskedIn
  <2>3. ckpt' # None => AskedIn(ckpt)'
    BY <1>1, <2>1 DEF OnlyMoves, AskedFirst, AskedIn
  <2>4. status' = "cancelled" => cancel'
    BY <1>1, <1>2, WorkerEnds DEF AskedFirst
  <2> QED
    BY <2>2, <2>3, <2>4 DEF AskedFirst
<1>3. ASSUME drive' = drive, ckpt' \in {None, ckpt},
             status' = status \/ status' # "cancelled" \/ cancel'
      PROVE  AskedFirst'
  BY <1>1, <1>3 DEF AskedFirst, AskedIn
<1>4. ASSUME NEW x \in Session, SessionStep(x)
      PROVE  AskedFirst'
  <2>1. drive' = drive /\ ckpt' = ckpt
    BY <1>4 DEF SessionStep, ReadDraft, CommitDraft, ReadDecision,
                CommitDecision, ReadExpiry, CommitExpiry, CommitStepExpiry,
                Rollback
  <2> QED
    BY <1>3, <1>4, <2>1, SessionEnds
<1>5. CASE RequestCancel
  BY <1>3, <1>5 DEF RequestCancel
<1>6. CASE Environment \/ UNCHANGED vars
  BY <1>3, <1>6 DEF Environment, ExpireLease, LoseCheckpoint, RemoteExit, vars,
                    dbVars
<1> QED
  BY <1>2, <1>4, <1>5, <1>6 DEF Next

LEMMA AskedFirstInvariant == Spec => []AskedFirst
<1>1. Init => AskedFirst
  BY DEF Init, AskedFirst, AskedIn, Idle, FreshCursor
<1>2. Typed /\ Typed' /\ AskedFirst /\ [Next]_vars => AskedFirst'
  BY AskedFirstStep
<1> QED
  BY <1>1, <1>2, TypedInvariant, PTL DEF Spec

-----------------------------------------------------------------------------
\* What happens to an open write and to the status of its Run.

\* The write stays open and the Run goes on, or to a person, or ends badly.
StaysOpen(s) ==
  /\ step'[s] = step[s]
  /\ \/ status' = status
     \/ status \in {"running", "recovering"} /\ status' = "recovering"
     \/ status' \in WithPerson /\ status' # status
\* Its outcome is unknown: it goes to a person with the Run.
IsLost(s) ==
  /\ status \in {"running", "recovering"} /\ status' = "needs_attention"
  /\ step[s] = "running" /\ step'[s] = "outcome_unknown"
  /\ cancel' = cancel
\* Its outcome is on record.
IsSettled(s) ==
  /\ status = "running" /\ status' \in {"running", "failed"}
  /\ step[s] = "running" /\ step'[s] \in TerminalStep
  /\ cancel' = cancel

\* Recovery halts over an open write, and marks it if it is the only action.
LEMMA ResolveOpen ==
  ASSUME Writes2, NEW s \in OpenWrites, NEW w \in Worker, ResolveStep(w)
  PROVE  StaysOpen(s) \/ IsLost(s)
<1>0. Writes1 /\ Single /\ Guarded(s)
  BY DEF Writes2, Watched
<1>1. /\ status = "recovering" /\ s \in InterruptedWrites
      /\ Halt(w) /\ ~Rescan(w)
  BY <1>0, ResolveStepGuarded
<1>2. status' = "needs_attention"
  BY <1>1 DEF Halt, SetRun
<1>3. ResolveManyActions(w) \/ ResolveInterruptedWrite(w)
  BY <1>1, <1>2
  DEF ResolveStep, ResolveFresh, ResolveResume, ResolveFinishedProbes,
      ResolveWaiting, ResolveApproved, ResolveProposed, ResolvePostAction,
      ResolveNoAction, WriteBoundary, BecomeRunning, SetRun, dbVars
<1>4. step[s] = "running" /\ s \in StepId
  BY <1>1 DEF InterruptedWrites, Interrupted, In, Present
<1>5. CASE ResolveManyActions(w)
  BY <1>2, <1>1, <1>5 DEF ResolveManyActions, StaysOpen, WithPerson
<1>6. CASE ResolveInterruptedWrite(w)
  <2>1. PICK t \in InterruptedWrites :
          step' = [Retried(Interrupted \cap Plan)
                     EXCEPT ![t] = "outcome_unknown"]
    BY <1>6 DEF ResolveInterruptedWrite
  <2>2. InterruptedWrites \subseteq OpenWrites
    BY <1>0 DEF Writes1, Typed, DatabaseTyped, InterruptedWrites, Interrupted,
                In, OpenWrites, OpenStatus
  <2>3. t = s
    BY <1>0, <1>1, <2>2 DEF Single
  <2>4. step'[s] = "outcome_unknown"
    BY <1>4, <2>1, <2>3 DEF Retried
  <2> QED
    BY <1>1, <1>2, <1>4, <1>6, <2>4 DEF IsLost, ResolveInterruptedWrite
<1> QED
  BY <1>3, <1>5, <1>6

\* A worker learns the outcome of the write in its hand, or that it never will.
LEMMA RecordOpen ==
  ASSUME Writes2, NEW s \in OpenWrites, NEW w \in Worker,
         \/ \E r : RecordNotStarted(w, r)
         \/ \E ok : RecordExit(w, ok)
         \/ \E r, stopped : RecordInterruptedWrite(w, r, stopped)
         \/ \E r, stopped : RecordInterruptedRead(w, r, stopped)
  PROVE  IsLost(s) \/ IsSettled(s)
<1>0. Writes1 /\ Guarded(s)
  BY DEF Writes2, Watched
<1>1. drive[w].pc \in AtHost /\ Owns(w)
  BY DEF RecordNotStarted, RecordExit, RecordInterruptedWrite,
         RecordInterruptedRead, Outcome
<1>2. drive[w].at = s /\ status = "running" /\ step[s] = "running"
  BY <1>0, <1>1 DEF Guarded, Holding, WithPerson, OpenWrites, OpenStatus
<1>3. /\ step \in [StepId -> StepStatus \cup {"absent"}]
      /\ s \in StepId /\ s \in WriteStep
  BY <1>0, WritesAreActions DEF Writes1, Typed, DatabaseTyped, OpenWrites
<1>4. ASSUME NEW pc, NEW to, Outcome(w, pc, to)
      PROVE  step'[s] = to
  BY <1>2, <1>3, <1>4 DEF Outcome, SetStep
<1>5. ASSUME NEW r, RecordNotStarted(w, r)
      PROVE  IsSettled(s)
  BY <1>2, <1>4, <1>5 DEF RecordNotStarted, SetRun, IsSettled, TerminalStep
<1>6. ASSUME NEW ok, RecordExit(w, ok)
      PROVE  IsSettled(s)
  BY <1>2, <1>4, <1>6 DEF RecordExit, IsSettled, TerminalStep
<1>7. ASSUME NEW r, NEW stopped, RecordInterruptedWrite(w, r, stopped)
      PROVE  IsLost(s)
  BY <1>2, <1>4, <1>7 DEF RecordInterruptedWrite, StopForPerson, SetRun, IsLost
<1> QED
  BY <1>2, <1>3, <1>5, <1>6, <1>7 DEF RecordInterruptedRead

\* Everything else that a worker does leaves an open write as it is.
LEMMA WorkerOpen ==
  ASSUME Writes2, NEW s \in OpenWrites, NEW w \in Worker, WorkerStep(w),
         ~Launch(w)
  PROVE  StaysOpen(s) \/ IsLost(s) \/ IsSettled(s)
<1>0. Writes1 /\ Guarded(s)
  BY DEF Writes2, Watched
<1>1. step \in [StepId -> StepStatus \cup {"absent"}] /\ s \in StepId
      /\ s \notin Plan
  BY <1>0, WritesAreActions DEF Writes1, Typed, DatabaseTyped, OpenWrites
<1>2. CASE FailRun(w)
  BY <1>2 DEF FailRun, SetRun, StaysOpen, WithPerson
<1>3. CASE EnterStep(w)
  <2>1. ~EnterPaused(w)
    BY <1>0 DEF EnterPaused, Guarded, Holding
  <2>2. CASE Claim(w)
    BY <1>0, <2>2 DEF Claim, Claimable, LeasedActive, Guarded, WithPerson,
                      StaysOpen
  <2>3. CASE ConfirmCancel(w) \/ CheckpointUnavailable(w)
    BY <2>3 DEF ConfirmCancel, CheckpointUnavailable, SetRun, StaysOpen,
                WithPerson
  <2> QED
    BY <1>2, <1>3, <2>1, <2>2, <2>3 DEF EnterStep, RefuseRun
<1>4. CASE SaveCheckpoint(w) \/ DurationExhausted(w) \/ AbandonDrive(w)
  BY <1>2, <1>4 DEF SaveCheckpoint, DurationExhausted, AbandonDrive, dbVars,
                    StaysOpen
<1>5. CASE PlanStep(w)
  BY <1>0, <1>2, <1>5, PlanStepGuarded DEF PlannerFails
<1>6. CASE ExecuteNodeStep(w)
  <2>1. FailPlan(w)
    BY <1>0, <1>6, ExecuteNodeStepGuarded
  <2>2. drive[w].at[1] \in Plan
    BY <1>0, <2>1, CursorTyped
    DEF FailPlan, Expanding, Writes1, Typed, DrivesTyped, DriveShape, WorkingOn
  <2> QED
    BY <1>1, <2>1, <2>2 DEF FailPlan, SetStep, StaysOpen
<1>7. CASE ExecutorStep(w)
  BY <1>0, <1>7, NothingBegins, RecordOpen DEF ExecutorStep
<1>8. CASE EndStep(w)
  <2>1. Owns(w) /\ (AtNode(w, "decide") \/ AtNode(w, "end")) =>
          status = "needs_attention"
    BY <1>0 DEF AtNode, Guarded, Holding
  <2>2. FinalizeAttention(w) \/ Decide(w)
    BY <1>8, <2>1 DEF EndStep, FinalizeQueued, Finalize, Finalizing, Requeued
  <2> QED
    BY <2>2 DEF FinalizeAttention, Decide, dbVars, StaysOpen
<1> QED
  BY <1>0, <1>3, <1>4, <1>5, <1>6, <1>7, <1>8, ResolveOpen, PolicyStepGuarded
  DEF WorkerStep

\* Everything that can happen to an open write.
LEMMA OpenMoves ==
  ASSUME Writes2, NEW s \in OpenWrites, [Next]_vars,
         \A w \in Worker : ~Launch(w)
  PROVE  StaysOpen(s) \/ IsLost(s) \/ IsSettled(s)
<1>0. Writes1 /\ Guarded(s) /\ Typed
  BY DEF Writes2, Writes1, Watched
<1>1. s \in StepId /\ s \notin Plan
  BY WritesAreActions DEF OpenWrites
<1>2. ASSUME NEW x \in Session, SessionStep(x)
      PROVE  StaysOpen(s)
  <2>1. status' = status
    BY <1>0, <1>2, SessionEnds DEF Guarded
  <2>2. step'[s] = step[s]
    BY <1>0, <1>1, <1>2, SessionStepRows DEF Overwrites
  <2> QED
    BY <2>1, <2>2 DEF StaysOpen
<1>3. CASE RequestCancel
  BY <1>1, <1>3 DEF RequestCancel, SetRun, OpenWrites, OpenStatus, StaysOpen,
                    WithPerson
<1>4. CASE Environment \/ UNCHANGED vars
  BY <1>4
  DEF Environment, ExpireLease, LoseCheckpoint, RemoteExit, vars, dbVars,
      StaysOpen
<1> QED
  BY <1>2, <1>3, <1>4, WorkerOpen DEF Next

-----------------------------------------------------------------------------
\* A Run that is with a person.  Whatever hands it over appends an event, and a
\* drive has no way back: it enters only a Run that is queued, running or in
\* recovery.

LeftToPerson ==
  status = "needs_attention" => \A x \in Session : ~MayCommit(x)

\* A worker can only end such a Run.
LEMMA WorkerLeavesToPerson ==
  ASSUME Plans, NEW w \in Worker, WorkerStep(w)
  PROVE  /\ status = "needs_attention" => status' \in WithPerson
         /\ status' = "needs_attention" => status' = status \/ AppendEvent
<1>0. Owns(w) /\ drive[w].pc = "enter" => status # "needs_attention"
  BY DEF Plans, Plans1, OwnerPlaced, Placed, PlacedEnter
<1>1. CASE EnterStep(w) \/ SaveCheckpoint(w) \/ DurationExhausted(w)
           \/ EndStep(w) \/ AbandonDrive(w)
  BY <1>1
  DEF EnterStep, Claim, Claimable, LeasedActive, ConfirmCancel, RefuseRun,
      FailRun, SetRun, RunLegal, CheckpointUnavailable, EnterPaused, EndStep,
      Decide, FinalizeAttention, FinalizeQueued, Finalize, Finalizing,
      SaveCheckpoint, AbandonDrive, DurationExhausted, WithPerson, dbVars
<1>2. CASE ResolveStep(w)
  <2>1. WriteBoundary(w) \/ (Owns(w) /\ drive[w].pc = "enter")
    BY <1>2
    DEF ResolveStep, ResolveFresh, ResolveResume, ResolveFinishedProbes,
        ResolveManyActions, ResolveInterruptedWrite, ResolveWaiting,
        ResolveApproved, ResolveProposed, ResolvePostAction, ResolveNoAction,
        Rescan, AtMostOneAction, Preflight, Resolving
  <2> QED
    BY <1>0, <1>2, <2>1
    DEF ResolveStep, ResolveFresh, ResolveResume, ResolveFinishedProbes,
        ResolveManyActions, ResolveInterruptedWrite, ResolveWaiting,
        ResolveApproved, ResolveProposed, ResolvePostAction, ResolveNoAction,
        WriteBoundary, Halt, BecomeRunning, SetRun, WithPerson, dbVars
<1>3. CASE PlanStep(w) \/ PolicyStep(w)
  BY <1>3
  DEF PlanStep, ProposeProbe, ProposeVerification, ProposePlan, Finish, Planning,
      PlannerFails, FailRun, PolicyStep, PolicyAllow, PolicyNothing,
      PolicyAuthorised, PolicyAsk, GuardianClaim, GuardianAnswer,
      GuardianTooLate, PauseCheck, Settle, SetRun, RunLegal, WithPerson, dbVars
<1>4. CASE ExecuteNodeStep(w) \/ ExecutorStep(w)
  BY <1>4
  DEF ExecuteNodeStep, SkipExecute, ExecuteStep, InvalidatePlan, StartPlan,
      ExpandAction, FailPlan, CompletePlan, ExecutorStep, BeginStep, MayBegin,
      Launch, RecordNotStarted, RecordExit, RecordInterruptedWrite,
      RecordInterruptedRead, Outcome, StopForPerson, SetRun, RunLegal,
      WithPerson, dbVars
<1> QED
  BY <1>1, <1>2, <1>3, <1>4 DEF WorkerStep

\* A session that could not commit cannot after a step of a session either,
\* unless it has just read a Run that is a draft or waits.
LEMMA SessionsStayUnable ==
  ASSUME Typed, NEW x \in Session, SessionStep(x), NEW y \in Session,
         ~MayCommit(y), status \notin {"draft", "waiting_approval"}
  PROVE  ~MayCommit(y)'
<1>1. txn \in [Session -> Txn]
  BY DEF Typed, SessionsTyped
<1>2. CASE CommitDraft(x) \/ CommitDecision(x) \/ CommitExpiry(x)
  BY <1>1, <1>2 DEF CommitDraft, CommitDecision, CommitExpiry, CommitWithEvent,
                    MayCommit, Fresh, NoTxn, Txn
<1>3. CASE \/ CommitStepExpiry(x) \/ Rollback(x)
           \/ \E p \in Plan : ReadExpiry(x, p)
  BY <1>1, <1>3 DEF CommitStepExpiry, Rollback, ReadExpiry, MayCommit, Fresh,
                    NoTxn
<1> QED
  BY <1>2, <1>3 DEF SessionStep, ReadDraft, ReadDecision

\* LeftToPerson is inductive, and nothing makes such a Run active again.
LEMMA LeftToPersonStep ==
  ASSUME Plans, LeftToPerson, [Next]_vars
  PROVE  /\ LeftToPerson'
         /\ status = "needs_attention" => status' \in WithPerson
<1>0. Typed
  BY DEF Plans
<1>1. ASSUME NEW w \in Worker, WorkerStep(w)
      PROVE  /\ LeftToPerson'
             /\ status = "needs_attention" => status' \in WithPerson
  <2>1. txn' = txn \/ AppendEvent
    BY <1>0, <1>1, WorkerStatus
  <2> QED
    BY <1>0, <1>1, <2>1, WorkerLeavesToPerson, EventStopsSessions
    DEF LeftToPerson, MayCommit, Fresh
<1>2. ASSUME NEW x \in Session, SessionStep(x)
      PROVE  /\ LeftToPerson'
             /\ status = "needs_attention" => status' \in WithPerson
  BY <1>0, <1>2, SessionEnds, SessionsStayUnable DEF LeftToPerson, WithPerson
<1>3. CASE RequestCancel
  BY <1>0, <1>3, EventStopsSessions
  DEF RequestCancel, SetRun, LeftToPerson, WithPerson
<1>4. CASE Environment \/ UNCHANGED vars
  BY <1>4 DEF Environment, ExpireLease, LoseCheckpoint, RemoteExit, vars, dbVars,
              LeftToPerson, MayCommit, Fresh, WithPerson
<1> QED
  BY <1>1, <1>2, <1>3, <1>4 DEF Next

LEMMA LeftToPersonInvariant == Spec => []LeftToPerson
<1>1. Init => LeftToPerson
  BY DEF Init, LeftToPerson
<1>2. Plans /\ LeftToPerson /\ [Next]_vars => LeftToPerson'
  BY LeftToPersonStep
<1> QED
  BY <1>1, <1>2, PlansInvariant, PTL DEF Spec

-----------------------------------------------------------------------------
\* The refinement.

\* What the promise calls unsettled are the open writes.
LEMMA UnsettledAreOpen ==
  ASSUME Writes1
  PROVE  Promise!Unsettled = OpenWrites
  BY DEF Writes1, Declared, Promise!Unsettled, Outcomes, OpenWrites, OpenStatus

\* What is on record of the writes changes only where an open write does.
LEMMA RecordKept ==
  ASSUME Writes1, Aside, NEW s \in WriteStep,
         s \in OpenWrites => step'[s] = step[s]
  PROVE  Outcomes'[s] = Outcomes[s]
<1>1. intent' = intent /\ MovesAside(s)
  BY DEF Aside
<1>2. s \in intent => step[s] \in Started
  BY DEF Writes1, Declared
<1> QED
  BY <1>1, <1>2 DEF MovesAside, Outcomes, Started, OpenWrites

\* The record of one write changes.
LEMMA RecordChanged ==
  ASSUME NEW s \in WriteStep, NEW v, Outcomes'[s] = v,
         \A t \in WriteStep \ {s} : Outcomes'[t] = Outcomes[t]
  PROVE  Outcomes' = [Outcomes EXCEPT ![s] = v]
<1> DEFINE f == Outcomes
           g == Outcomes'
<1>1. /\ f = [t \in WriteStep |-> f[t]]
      /\ g = [t \in WriteStep |-> g[t]]
  BY DEF Outcomes
<1> HIDE DEF f, g
<1>2. g[s] = v /\ \A t \in WriteStep \ {s} : g[t] = f[t]
  BY DEF f, g
<1>3. g = [f EXCEPT ![s] = v]
  BY <1>1, <1>2
<1> QED
  BY <1>3 DEF f, g

\* What the mapping rests on.
RunInv == /\ Writes2 /\ Plans /\ OpenTxnsMeetActiveRun
          /\ AskedFirst /\ LeftToPerson

\* The status of a Run with no open write, and that of an open write's Run that
\* is not lost or settled, move as the promise allows.
LEMMA FateMoves ==
  ASSUME RunInv, RunInv', [Next]_vars, Outcomes' = Outcomes,
         launches' = launches,
         \A s \in OpenWrites : StaysOpen(s)
  PROVE  [Promise!Next]_(Promise!vars)
<1>0. Writes1 /\ Active /\ AskedFirst
  BY DEF RunInv, Writes2, Writes1, Active
<1>1. Promise!Unsettled = OpenWrites
  BY <1>0, UnsettledAreOpen
<1>2. status \in RunStatus /\ status' \in RunStatus /\ cancel \in BOOLEAN
      /\ cancel' \in BOOLEAN
  BY DEF RunInv, Writes2, Writes1, Typed, DatabaseTyped
<1>3. status \in TerminalRun => status' = status
  BY <1>0, NextKept DEF StatusKept
<1>4. status = "needs_attention" => status' \in WithPerson
  BY LeftToPersonStep DEF RunInv
<1>5. CASE RequestCancel /\ ~cancel
  <2>1. /\ status \notin TerminalRun /\ cancel'
        /\ status' \in {status, "cancelled"}
    BY <1>5 DEF RequestCancel, SetRun
  <2>2. Fate \notin Promise!Ended /\ Fate' \in {Fate, "cancelled"}
    BY <1>2, <2>1 DEF Fate, RunStatus, TerminalRun, Promise!Ended
  <2> QED
    BY <1>5, <2>1, <2>2 DEF Promise!Next, Promise!Cancel
<1>6. CASE ~RequestCancel \/ cancel
  <2>0. cancel' = cancel
    BY <1>0, <1>6, CancelStays DEF RequestCancel, Active
  <2>1. CASE status' = status
    BY <2>0, <2>1 DEF Promise!vars, Fate
  <2>2. CASE status' \in TerminalRun /\ status' # status
    <3>1. /\ Fate \notin Promise!Ended /\ Fate' = status'
          /\ status' \in Promise!Ended
      BY <1>2, <1>3, <2>2 DEF Fate, RunStatus, TerminalRun, Promise!Ended
    <3>2. status' = "cancelled" => cancel
      BY <2>0 DEF RunInv, AskedFirst
    <3>3. /\ status' = "completed" => status = "running"
          /\ status' = "expired" => \E x \in Session : MayCommit(x)
      BY <1>0, <1>6, <2>2, WorkerEnds, SessionEnds
      DEF Next, RequestCancel, SetRun, Environment, ExpireLease, LoseCheckpoint,
          RemoteExit, vars, dbVars
    <3>4. status' \in {"completed", "expired"} => Fate = "active"
      BY <1>4, <2>2, <3>1 DEF Fate, WithPerson, TerminalRun, Promise!Ended
    <3>5. status' \in {"completed", "expired"} => OpenWrites = {}
      BY <2>2 DEF StaysOpen, WithPerson
    <3> QED
      BY <1>1, <2>0, <3>1, <3>2, <3>4, <3>5 DEF Promise!Next, Promise!End
  <2>3. CASE status' \notin TerminalRun /\ status' # status
    <3>1. status \notin TerminalRun /\ Fate \in {"active", "attention"}
          /\ Fate' \in {"active", "attention"}
      BY <1>3, <2>3 DEF Fate
    <3>2. Fate = "attention" => Fate' = "attention"
      BY <1>4, <2>3 DEF Fate, WithPerson, TerminalRun
    <3> QED
      BY <2>0, <3>1, <3>2 DEF Promise!Next, Promise!Attend, Promise!vars
  <2> QED
    BY <2>1, <2>2, <2>3
<1> QED
  BY <1>5, <1>6

\* One write is lost or settled.
LEMMA OpenEnds ==
  ASSUME RunInv, Aside, NEW s \in OpenWrites, IsLost(s) \/ IsSettled(s)
  PROVE  Promise!Next
<1>0. Writes1 /\ Single
  BY DEF RunInv, Writes2
<1>1. s \in WriteStep /\ s \in intent
  BY <1>0 DEF Writes1, Declared, OpenWrites
<1>2. /\ intent' = intent /\ launches' = launches
  BY DEF Aside
<1>3. \A t \in WriteStep \ {s} : Outcomes'[t] = Outcomes[t]
  BY <1>0, RecordKept DEF Single
<1>4. CASE IsLost(s)
  <2>1. Outcomes[s] = "open" /\ Outcomes'[s] = "unknown"
    BY <1>1, <1>2, <1>4 DEF IsLost, Outcomes
  <2>2. Outcomes' = [Outcomes EXCEPT ![s] = "unknown"]
    BY <1>1, <1>3, <2>1, RecordChanged
  <2>3. Fate = "active" /\ Fate' = "attention" /\ cancel' = cancel
    BY <1>4 DEF IsLost, Fate, TerminalRun
  <2> QED
    BY <1>1, <1>2, <2>1, <2>2, <2>3 DEF Promise!Next, Promise!Lose
<1>5. CASE IsSettled(s)
  <2>1. Outcomes[s] = "open" /\ Outcomes'[s] = "known"
    BY <1>1, <1>2, <1>5 DEF IsSettled, Outcomes, TerminalStep
  <2>2. Outcomes' = [Outcomes EXCEPT ![s] = "known"]
    BY <1>1, <1>3, <2>1, RecordChanged
  <2>3. Fate = "active" /\ Fate' \in {"active", "failed"} /\ cancel' = cancel
    BY <1>5 DEF IsSettled, Fate, TerminalRun
  <2> QED
    BY <1>1, <1>2, <2>1, <2>2, <2>3 DEF Promise!Next, Promise!Settle
<1> QED
  BY <1>4, <1>5

\* A step that begins is a declaration if it is a write, else a stutter.
LEMMA BeginIsDeclared ==
  ASSUME RunInv, NEW w \in Worker, BeginStep(w)
  PROVE  [Promise!Next]_(Promise!vars)
<1> DEFINE a == drive[w].at
<1>0. /\ Writes1 /\ OpenWrites = {}
      /\ step \in [StepId -> StepStatus \cup {"absent"}]
      /\ intent \subseteq WriteStep
  BY NothingBegins DEF RunInv, Writes2, Watched, Writes1, Typed, DatabaseTyped
<1>1. /\ step[a] = "approved" /\ step' = [step EXCEPT ![a] = "running"]
      /\ intent' = intent \cup ({a} \cap WriteStep)
      /\ launches' = launches /\ ~cancel /\ cancel' = cancel
      /\ status \in {"queued", "running"} /\ status' = "running"
  BY DEF BeginStep, MayBegin, WriteIntent, ghosts
<1>2. Fate = "active" /\ Fate' = "active"
  BY <1>1 DEF Fate, TerminalRun
<1>3. a \notin intent
  BY <1>0, <1>1 DEF Writes1, Declared, Started, OpenStatus, TerminalStep
<1>4. \A t \in WriteStep \ {a} : Outcomes'[t] = Outcomes[t]
  BY <1>0, <1>1, WritesAreActions DEF Outcomes
<1>5. CASE a \in WriteStep
  <2>1. Outcomes[a] = "none" /\ Outcomes'[a] = "open"
    BY <1>0, <1>1, <1>3, <1>5, WritesAreActions DEF Outcomes
  <2>2. Outcomes' = [Outcomes EXCEPT ![a] = "open"]
    BY <1>4, <1>5, <2>1, RecordChanged
  <2> HIDE DEF a
  <2> QED
    BY <1>0, <1>1, <1>2, <1>5, <2>1, <2>2, UnsettledAreOpen
    DEF Promise!Next, Promise!Declare
<1>6. CASE a \notin WriteStep
  <2>1. Outcomes' = Outcomes
    BY <1>4, <1>6 DEF Outcomes
  <2> QED
    BY <1>1, <1>2, <2>1 DEF Promise!vars
<1> QED
  BY <1>5, <1>6

\* A launch, by whichever worker, is a start if it is of a write.
LEMMA LaunchIsStart ==
  ASSUME RunInv, NEW w \in Worker, Launch(w)
  PROVE  [Promise!Next]_(Promise!vars)
<1> DEFINE a == drive[w].at
<1>0. Writes1 /\ launches \in [WriteStep -> 0 .. 2]
  BY DEF RunInv, Writes2, Writes1, Typed, DatabaseTyped
<1>1. /\ status' = status /\ cancel' = cancel /\ Outcomes' = Outcomes
      /\ launches' = [s \in WriteStep |->
                        IF s # a THEN launches[s]
                        ELSE IF launches[s] = 0 THEN 1 ELSE 2]
      /\ drive[w].pc = "launch"
  BY DEF Launch, dbVars, Outcomes
<1>2. CASE a \in WriteStep
  <2>1. launches[a] = 0 /\ a \in OpenWrites
    BY <1>0, <1>1, <1>2 DEF Writes1, InHand, Launching, OpenWrites
  <2>2. launches' = [launches EXCEPT ![a] = 1]
    BY <1>0, <1>1, <2>1
  <2> HIDE DEF a
  <2> QED
    BY <1>0, <1>1, <1>2, <2>1, <2>2, UnsettledAreOpen
    DEF Promise!Next, Promise!Start, Fate
<1>3. CASE a \notin WriteStep
  <2>1. launches' = launches
    BY <1>0, <1>1, <1>3
  <2> QED
    BY <1>1, <2>1 DEF Promise!vars, Fate
<1> QED
  BY <1>2, <1>3

\* Every step of the system is one of the promise or a stutter.
LEMMA RunStepsKeepPromise ==
  ASSUME RunInv, RunInv', [Next]_vars
  PROVE  [Promise!Next]_(Promise!vars)
<1>1. CASE \E w \in Worker : BeginStep(w) \/ Launch(w)
  BY <1>1, BeginIsDeclared, LaunchIsStart
<1>2. CASE \A w \in Worker : ~BeginStep(w) /\ ~Launch(w)
  <2>0. Writes1 /\ Aside
    BY <1>2, NextAside DEF RunInv, Writes2
  <2>1. ASSUME NEW s \in OpenWrites
        PROVE  StaysOpen(s) \/ IsLost(s) \/ IsSettled(s)
    BY <1>2, OpenMoves DEF RunInv
  <2>2. CASE \E s \in OpenWrites : IsLost(s) \/ IsSettled(s)
    BY <2>0, <2>2, OpenEnds
  <2>3. CASE \A s \in OpenWrites : StaysOpen(s)
    <3>1. \A s \in WriteStep : Outcomes'[s] = Outcomes[s]
      BY <2>0, <2>3, RecordKept DEF StaysOpen
    <3>2. Outcomes' = Outcomes
      BY <3>1 DEF Outcomes
    <3> QED
      BY <2>0, <2>3, <3>2, FateMoves DEF Aside
  <2> QED
    BY <2>1, <2>2, <2>3
<1> QED
  BY <1>1, <1>2

\* A Run keeps the promise it makes to its owner: AutonomyRun implements
\* RunPromise, for any workers, sessions, probes, plans and lengths of plans.
THEOREM RunKeepsItsPromise == Spec => KeepsRunPromise
<1>1. Init => Promise!Init
  <2> SUFFICES ASSUME Init PROVE Promise!Init
    OBVIOUS
  <2>1. Outcomes = [s \in WriteStep |-> "none"]
    BY DEF Init, Outcomes
  <2>2. Fate = "active" /\ ~cancel /\ launches = [s \in WriteStep |-> 0]
    BY DEF Init, Fate, TerminalRun
  <2> QED
    BY <2>1, <2>2 DEF Promise!Init
<1>2. RunInv /\ RunInv' /\ [Next]_vars => [Promise!Next]_(Promise!vars)
  BY RunStepsKeepPromise
<1>3. Spec => []RunInv
  BY Writes2Invariant, OpenTxnsMeetActiveRunInvariant, AskedFirstInvariant,
     PlansInvariant, LeftToPersonInvariant, PTL DEF RunInv
<1> QED
  BY <1>1, <1>2, <1>3, PTL DEF Spec, KeepsRunPromise, Promise!Spec
=============================================================================
