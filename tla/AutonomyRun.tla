----------------------------- MODULE AutonomyRun -----------------------------
(***************************************************************************)
(* One autonomous Run of backend/app/ai/autonomy: its MySQL row and steps, *)
(* the Redis graph checkpoint, the Celery workers that claim and drive it, *)
(* and the web and sweeper sessions that start, decide, cancel and expire  *)
(* it.                                                                     *)
(*                                                                         *)
(*  - Worker code writes under SELECT ... FOR UPDATE with the exact claim  *)
(*    (owner, token, unexpired) re-checked: such an action is atomic and   *)
(*    guarded by Owns.                                                     *)
(*  - start, decide and the expiry sweep read, compute and write without   *)
(*    a lock.  What rejects a stale write is the unique key on             *)
(*    t_ai_autonomous_event (run_id, sequence): a transaction that appends *)
(*    an event rolls back if another event was appended since its read.    *)
(*    They are a Read and a Commit action joined by txn[s].                *)
(*  - A drive holds a graph cursor in memory; its checkpoint write may lag *)
(*    behind the nodes already executed.                                   *)
(***************************************************************************)
EXTENDS AutonomyStates, Naturals, FiniteSets

CONSTANTS
  Worker,         \* drive slots (a prefork child driving the Run)
  Session,        \* concurrent web or sweeper database sessions
  Probe,          \* ids the planner may give to proposed probes
  Verification,   \* ids the planner may give to verification probes
  Plan,           \* ids the planner may give to plans
  PlanLen,        \* number of ordered actions in a plan
  Writes,         \* the positions of a plan that hold write actions
  MaxLoops,       \* budget.max_loops
  GuardianWired,  \* mode ai_review with a Guardian configured
  None

PlanAction == Plan \X (1 .. PlanLen)
WriteStep  == Plan \X Writes
Observation == Probe \cup Verification
StepId     == Observation \cup Plan \cup PlanAction

\* In no mode does the policy allow a write unasked.
NeedsAsk   == Writes # {}

ASSUME ConstantsAssumption ==
  /\ PlanLen \in Nat \ {0}
  /\ Writes \subseteq 1 .. PlanLen
  /\ MaxLoops \in Nat \ {0}
  /\ GuardianWired \in BOOLEAN

\* budget.max_actions and max_loops bound what one Run can propose.
ASSUME FinitenessAssumption ==
  IsFiniteSet(Probe) /\ IsFiniteSet(Verification) /\ IsFiniteSet(Plan)

ASSUME NamesAssumption ==
  /\ None \notin Worker
  /\ None \notin StepId
  /\ Observation \cap Plan = {}
  /\ Observation \cap PlanAction = {}
  /\ Plan \cap PlanAction = {}
  /\ Probe \cap Verification = {}

VARIABLES
  status,    \* t_ai_autonomous_run.status
  cancel,    \* t_ai_autonomous_run.cancel_requested
  lease,     \* lease_owner/token and whether lease_expires_at is in the future
  step,      \* status of every step row, "absent" when there is none
  note,      \* what a plan's note says of a Guardian review
  intent,    \* steps with a durable write_intent event
  txn,       \* unlocked read-modify-write transactions, one per session
  ckpt,      \* the Redis checkpoint of the graph thread, None when absent
  drive,     \* what each worker holds in memory
  remote,    \* write steps whose command is running on the managed host
  launches,  \* ghost: how often each write was started (saturates at 2)
  consent,   \* ghost: plans authorised by policy, a human or the Guardian
  silent     \* history: writes recorded as failed with exit_code=-1

dbVars == <<status, cancel, lease, step, note, intent>>
ghosts == <<launches, consent, silent>>
vars   == <<dbVars, txn, ckpt, drive, remote, ghosts>>

-----------------------------------------------------------------------------
\* Types and small helpers.

Node == {"plan", "policy", "pause", "execute", "decide", "end"}
Cursor == [node : Node, pending : StepId \cup {None}, skip : BOOLEAN,
           more : BOOLEAN, loops : Nat,
           why : {"none", "cancelled", "budget_exhausted", "exhausted"}]

\* The entry dict of a Run that has never been planned.
FreshCursor == [node |-> "plan", pending |-> None, skip |-> FALSE,
                more |-> FALSE, loops |-> 0, why |-> "none"]

Phase == {"idle", "enter", "rebuild", "graph", "review", "expand", "begin",
          "launch", "remote", "settle"}
Drive == [pc : Phase, cur : Cursor, saved : BOOLEAN,
          at : StepId \cup (Plan \X (1 .. PlanLen + 1)) \cup {None}]
Idle  == [pc |-> "idle", cur |-> FreshCursor, saved |-> TRUE, at |-> None]

NoLease == [holder |-> None, live |-> FALSE]
NoTxn   == [op |-> "none", step |-> None, seen |-> "draft", fresh |-> FALSE]
Txn == [op : {"none", "start", "expire_draft", "approve", "reject", "expire"},
        step : Plan \cup {None}, seen : RunStatus, fresh : BOOLEAN]

\* The claim fence: this exact claim still owns persistence.
Owns(w) == lease.holder = w /\ lease.live

\* An appended event takes the sequence number that every open unlocked
\* transaction has computed for its own event.
AppendEvent == txn' = [s \in Session |-> [txn[s] EXCEPT !.fresh = FALSE]]

\* The event of this transaction can still take the number it computed.
StaleToo(s) == TRUE  \* mutant: no unique key rejects the stale event
Fresh(s)    == txn[s].fresh

\* Commit the transaction of s, whose event makes every other one stale.
CommitWithEvent(s) ==
  txn' = [t \in Session |-> IF t = s THEN NoTxn
                            ELSE [txn[t] EXCEPT !.fresh = FALSE]]

Present     == {s \in StepId : step[s] # "absent"}
ActionSteps == Present \cap (Probe \cup PlanAction)
In(S, st)   == {s \in S : step[s] = st}

SetRun(to)      == RunLegal(status, to) /\ status' = to
SetStep(s, to)  == StepLegal(step[s], to) /\ step' = [step EXCEPT ![s] = to]
ClearClaim      == lease' = NoLease
StopDriving(w)  == drive' = [drive EXCEPT ![w] = Idle]

\* The node finished: the cursor moves on and its checkpoint is not yet saved.
MoveTo(w, c) ==
  drive' = [drive EXCEPT ![w] = [pc |-> "graph", cur |-> c,
                                 saved |-> FALSE, at |-> None]]
AtNode(w, n) == drive[w].pc = "graph" /\ drive[w].cur.node = n

Init ==
  /\ status = "draft"
  /\ cancel = FALSE
  /\ lease = NoLease
  /\ step = [s \in StepId |-> "absent"]
  /\ note = [p \in Plan |-> "none"]
  /\ intent = {}
  /\ txn = [s \in Session |-> NoTxn]
  /\ ckpt = None
  /\ drive = [w \in Worker |-> Idle]
  /\ remote = {}
  /\ launches = [s \in WriteStep |-> 0]
  /\ consent = {}
  /\ silent = {}

-----------------------------------------------------------------------------
\* Web and sweeper sessions.

\* start_run and the sweep of drafts: read the draft and see whether it is
\* stale, without a lock.
ReadDraft(s, op) ==
  /\ txn[s].op = "none"
  /\ status = "draft"
  /\ op \in {"start", "expire_draft"}
  /\ txn' = [txn EXCEPT ![s] = [op |-> op, step |-> None, seen |-> status,
                                fresh |-> TRUE]]
  /\ UNCHANGED <<dbVars, ckpt, drive, remote, ghosts>>

\* The commit of start_run, or of _expire_run_row on a draft.
CommitDraft(s) ==
  /\ txn[s].op \in {"start", "expire_draft"}
  /\ Fresh(s)
  /\ LET to == IF txn[s].op = "start" THEN "queued" ELSE "expired" IN
     /\ RunLegal(txn[s].seen, to)
     /\ status' = to
     /\ lease' = IF to = "expired" THEN NoLease ELSE lease
  /\ CommitWithEvent(s)
  /\ UNCHANGED <<cancel, step, note, intent, ckpt, drive, remote, ghosts>>

\* decide: the operation must be one allowed_operations returns.
ReadDecision(s, p, op) ==
  /\ txn[s].op = "none"
  /\ status = "waiting_approval"
  /\ step[p] = "waiting_approval"
  /\ op \in {"approve", "reject"}
  /\ txn' = [txn EXCEPT ![s] = [op |-> op, step |-> p, seen |-> status,
                                fresh |-> TRUE]]
  /\ UNCHANGED <<dbVars, ckpt, drive, remote, ghosts>>

\* A decision puts the Run back in the queue.
Requeue(s) == RunLegal(txn[s].seen, "queued") /\ status' = "queued"

\* decide's commit overwrites the step and the run by primary key; only the
\* event it appends can collide.
CommitDecision(s) ==
  /\ txn[s].op \in {"approve", "reject"}
  /\ Fresh(s)
  /\ LET p == txn[s].step
         approved == txn[s].op = "approve" IN
     /\ step' = [step EXCEPT ![p] = IF approved THEN "approved" ELSE "failed"]
     /\ note' = [note EXCEPT ![p] = "none"]
     /\ consent' = IF approved THEN consent \cup {p} ELSE consent
  /\ Requeue(s)
  /\ CommitWithEvent(s)
  /\ UNCHANGED <<cancel, lease, intent, ckpt, drive, remote, launches, silent>>

\* A waiting step outlived the approval window: read by sweep_expired_runs or
\* by decide's lazy expiry, whatever the status of the Run.
ReadExpiry(s, p) ==
  /\ txn[s].op = "none"
  /\ step[p] = "waiting_approval"
  /\ txn' = [txn EXCEPT ![s] = [op |-> "expire", step |-> p, seen |-> status,
                                fresh |-> TRUE]]
  /\ UNCHANGED <<dbVars, ckpt, drive, remote, ghosts>>

\* The Run was waiting: the step is cancelled and the Run expires.
CommitExpiry(s) ==
  /\ txn[s].op = "expire"
  /\ txn[s].seen = "waiting_approval"
  /\ Fresh(s)
  /\ step' = [step EXCEPT ![txn[s].step] = "cancelled"]
  /\ status' = "expired"
  /\ ClearClaim
  /\ CommitWithEvent(s)
  /\ UNCHANGED <<cancel, note, intent, ckpt, drive, remote, ghosts>>

\* The Run was not waiting: only the step is cancelled, and no event is
\* appended that could collide with anything.
CommitStepExpiry(s) ==
  /\ txn[s].op = "expire"
  /\ txn[s].seen # "waiting_approval"
  /\ step' = [step EXCEPT ![txn[s].step] = "cancelled"]
  /\ txn' = [txn EXCEPT ![s] = NoTxn]
  /\ UNCHANGED <<status, cancel, lease, note, intent, ckpt, drive, remote,
                 ghosts>>

\* The event's sequence number is taken: IntegrityError, nothing is written.
Rollback(s) ==
  /\ txn[s].op # "none"
  /\ ~Fresh(s)
  /\ txn' = [txn EXCEPT ![s] = NoTxn]
  /\ UNCHANGED <<dbVars, ckpt, drive, remote, ghosts>>

\* request_cancel: locked, so atomic.  Idle states and leased states whose
\* lease has expired are cancelled at once, the others only get the request.
CancelWithoutStop == {"draft", "queued", "waiting_approval", "needs_attention"}
ForceCancel ==
  \/ status \in CancelWithoutStop
  \/ /\ status \in {"running", "recovering"}
     /\ lease.holder # None
     /\ ~lease.live

RequestCancel ==
  /\ status \notin TerminalRun
  /\ ForceCancel \/ ~cancel
  /\ cancel' = TRUE
  /\ IF ForceCancel
     THEN /\ SetRun("cancelled")
          /\ step' = [s \in StepId |->
                        IF step[s] \in {"proposed", "waiting_approval",
                                        "approved"}
                        THEN "cancelled" ELSE step[s]]
          /\ ClearClaim
     ELSE UNCHANGED <<status, step, lease>>
  /\ AppendEvent
  /\ UNCHANGED <<note, intent, ckpt, drive, remote, ghosts>>

-----------------------------------------------------------------------------
\* The lease, crashes and the environment.

Claimable ==
  \/ status = "queued" /\ ~lease.live
  \/ status \in LeasedActive /\ lease.holder # None /\ ~lease.live

\* claim_run, then the start of drive.  The update appends no event.
Claim(w) ==
  /\ drive[w].pc = "idle"
  /\ Claimable
  /\ status' = IF status = "queued" THEN "running" ELSE "recovering"
  /\ lease' = [holder |-> w, live |-> TRUE]
  /\ drive' = [drive EXCEPT ![w].pc = "enter"]
  /\ UNCHANGED <<cancel, step, note, intent, txn, ckpt, remote, ghosts>>

\* The heartbeat did not renew in time.
ExpireLease ==
  /\ lease.live
  /\ lease' = [lease EXCEPT !.live = FALSE]
  /\ UNCHANGED <<status, cancel, step, note, intent, txn, ckpt, drive, remote,
                 ghosts>>

\* The worker is killed, loses its claim (DriveAbort), or an unexpected error,
\* an illegal transition among them, ends the drive: the lease is kept and
\* nothing else is written.
AbandonDrive(w) ==
  /\ drive[w].pc # "idle"
  /\ StopDriving(w)
  /\ UNCHANGED <<dbVars, txn, ckpt, remote, ghosts>>

\* Redis loses the thread.
LoseCheckpoint ==
  /\ ckpt # None
  /\ ckpt' = None
  /\ UNCHANGED <<dbVars, txn, drive, remote, ghosts>>

\* A command no worker listens to any more ends on the host.
RemoteExit(s) ==
  /\ s \in remote
  /\ \A w \in Worker : ~(drive[w].pc = "remote" /\ drive[w].at = s)
  /\ remote' = remote \ {s}
  /\ UNCHANGED <<dbVars, txn, ckpt, drive, ghosts>>

-----------------------------------------------------------------------------
\* The prologue of a drive.

\* Cancel seen before anything ran in this drive.
ConfirmCancel(w) ==
  /\ drive[w].pc = "enter"
  /\ Owns(w)
  /\ cancel
  /\ SetRun("cancelled")
  /\ ClearClaim
  /\ AppendEvent
  /\ StopDriving(w)
  /\ UNCHANGED <<cancel, step, note, intent, ckpt, remote, ghosts>>

\* _fail_run: idempotent on a terminal Run, otherwise failed with an event.
FailRun(w) ==
  /\ Owns(w)
  /\ IF status \in TerminalRun
     THEN UNCHANGED <<status, txn>>
     ELSE SetRun("failed") /\ AppendEvent
  /\ ClearClaim
  /\ StopDriving(w)
  /\ UNCHANGED <<cancel, step, note, intent, ckpt, remote, ghosts>>

\* The owner lost the role, the duration budget is spent, or the graph
\* version is unknown.
RefuseRun(w) == drive[w].pc = "enter" /\ ~cancel /\ FailRun(w)

\* The checkpoint store cannot be created, read or written.
CheckpointUnavailable(w) ==
  /\ \/ drive[w].pc = "enter" /\ ~cancel
     \/ drive[w].pc \in {"rebuild", "graph"}
  /\ Owns(w)
  /\ \/ status = "needs_attention" /\ UNCHANGED status
     \/ SetRun("needs_attention")
  /\ AppendEvent
  /\ ClearClaim
  /\ StopDriving(w)
  /\ UNCHANGED <<cancel, step, note, intent, ckpt, remote, ghosts>>

\* _pending_decision, from the step's row: a waiting step keeps the Run
\* paused, a decided one resumes execute, anything else resumes and skips.
Decided(c) == c.pending # None /\ step[c.pending] \in {"approved", "failed"}
StillWaiting(c) == c.pending # None /\ step[c.pending] = "waiting_approval"

LeavePause(w, c) ==
  drive' = [drive EXCEPT ![w] =
    IF StillWaiting(c)
    THEN [pc |-> "settle", cur |-> c, saved |-> TRUE, at |-> None]
    ELSE [pc |-> "graph", saved |-> FALSE, at |-> None,
          cur |-> [c EXCEPT !.node = "execute", !.skip = ~Decided(c)]]]

\* A healthy paused thread of a Run that was queued by a decision.
EnterPaused(w) ==
  /\ drive[w].pc = "enter"
  /\ Owns(w)
  /\ ~cancel
  /\ status \notin TerminalRun \cup {"recovering"}
  /\ ckpt # None /\ ckpt.node = "pause"
  /\ LeavePause(w, ckpt)
  /\ UNCHANGED <<dbVars, txn, ckpt, remote, ghosts>>

-----------------------------------------------------------------------------
\* RecoveryService.resolve: one locked transaction that decides how the graph
\* is entered.  Its cases are disjoint; each returns the mode it documents.

Resolving(w) ==
  /\ drive[w].pc = "enter"
  /\ Owns(w)
  /\ ~cancel
  /\ status \notin TerminalRun
  /\ ~(ckpt # None /\ ckpt.node = "pause" /\ status # "recovering")

NeedsPreflight == status = "recovering" \/ (ckpt = None /\ ActionSteps # {})

\* _transition_running: queued and running are left as they are.
BecomeRunning ==
  \/ status \in {"queued", "running"} /\ UNCHANGED status
  \/ status \notin {"queued", "running"} /\ SetRun("running")

Rebuild(w, c) ==
  drive' = [drive EXCEPT ![w] = [pc |-> "rebuild", cur |-> c,
                                 saved |-> FALSE, at |-> None]]
Resume(w) ==
  drive' = [drive EXCEPT ![w] = [pc |-> "graph", cur |-> ckpt,
                                 saved |-> TRUE, at |-> None]]

\* MODE_HALT: needs_attention with an event, then the lease is released.
Halt(w) ==
  /\ SetRun("needs_attention")
  /\ AppendEvent
  /\ ClearClaim
  /\ StopDriving(w)

\* No preflight: a new Run starts at plan, a healthy checkpoint is resumed.
ResolveFresh(w) ==
  /\ Resolving(w) /\ ~NeedsPreflight /\ ckpt = None
  /\ BecomeRunning
  /\ MoveTo(w, FreshCursor)
  /\ UNCHANGED <<cancel, lease, step, note, intent, txn, ckpt, remote, ghosts>>

ResolveResume(w) ==
  /\ Resolving(w) /\ ~NeedsPreflight /\ ckpt # None
  /\ Resume(w)
  /\ UNCHANGED <<dbVars, txn, ckpt, remote, ghosts>>

Preflight(w) == Resolving(w) /\ NeedsPreflight

\* An action of unknown outcome halts recovery.  No claim meets one (see
\* UnknownWriteStopsRun), so that case is a guard of the others.
UnknownActions == In(ActionSteps, "outcome_unknown")

\* Only finished probes and no plan: the planner may continue from them.
OnlyFinishedProbes ==
  /\ ckpt = None
  /\ Present \cap Plan = {}
  /\ ActionSteps # {}
  /\ \A s \in ActionSteps : s \in Probe /\ step[s] \in {"succeeded", "failed"}

ResolveFinishedProbes(w) ==
  /\ Preflight(w)
  /\ UnknownActions = {} /\ OnlyFinishedProbes
  /\ BecomeRunning
  /\ AppendEvent
  /\ Rebuild(w, [FreshCursor EXCEPT !.loops = Cardinality(ActionSteps)])
  /\ UNCHANGED <<cancel, lease, step, note, intent, ckpt, remote, ghosts>>

\* Several action steps: no durable cursor orders them.
ResolveManyActions(w) ==
  /\ Preflight(w)
  /\ UnknownActions = {} /\ ~OnlyFinishedProbes
  /\ Cardinality(ActionSteps) > 1
  /\ Halt(w)
  /\ UNCHANGED <<cancel, step, note, intent, ckpt, remote, ghosts>>

AtMostOneAction(w) ==
  /\ Preflight(w)
  /\ UnknownActions = {} /\ ~OnlyFinishedProbes
  /\ Cardinality(ActionSteps) <= 1

\* The scan of running steps, of every kind, in order of seq: a step without
\* write intent goes back to approved.  A plan precedes its actions.
InterruptedOrFailed == \* mutant: failed steps are retried too
  In(Present, "running") \cup In(Present, "failed")
Unfinished ==          \* mutant: whatever has not finished was interrupted
  {s \in Present : step[s] \notin TerminalStep}
Interrupted == In(Present, "running")

IntentIgnored     == {}  \* mutant: the write_intent event is not looked up
InterruptedWrites == Interrupted \cap intent

Retried(S) == [s \in StepId |-> IF s \in S THEN "approved" ELSE step[s]]
NotesOfRetried(S) == [p \in Plan |-> IF p \in S THEN "none" ELSE note[p]]

\* A running write with a durable intent: outcome unknown, never replayed.
ResolveInterruptedWrite(w) ==
  /\ AtMostOneAction(w)
  /\ \E s \in InterruptedWrites :
       step' = [Retried(Interrupted \cap Plan) EXCEPT ![s] = "outcome_unknown"]
  /\ note' = NotesOfRetried(Interrupted)
  /\ Halt(w)
  /\ UNCHANGED <<cancel, intent, ckpt, remote, ghosts>>

\* The step statuses the remaining cases read, after the scan.
Scanned == Retried(Interrupted)
ScannedIn(S, st) == {s \in S : Scanned[s] = st}
Rescan(w) ==
  /\ AtMostOneAction(w)
  /\ InterruptedWrites = {}
  /\ step' = Scanned
  /\ note' = NotesOfRetried(Interrupted)

\* A step still awaits its decision: rebuild the pause.
ResolveWaiting(w) ==
  /\ Rescan(w)
  /\ \E s \in ScannedIn(Present, "waiting_approval") :
       Rebuild(w, [FreshCursor EXCEPT !.node = "pause", !.pending = s])
  /\ IF status \in {"queued", "running", "recovering"}
     THEN SetRun("waiting_approval") ELSE UNCHANGED status
  /\ AppendEvent
  /\ UNCHANGED <<cancel, lease, intent, ckpt, remote, ghosts>>

\* An approved action: re-enter just before execute, one closing round.
ResolveApproved(w) ==
  /\ Rescan(w)
  /\ ScannedIn(Present, "waiting_approval") = {}
  /\ \E s \in ScannedIn(ActionSteps, "approved") :
       Rebuild(w, [FreshCursor EXCEPT !.node = "pause", !.pending = s])
  /\ BecomeRunning
  /\ AppendEvent
  /\ UNCHANGED <<cancel, lease, intent, ckpt, remote, ghosts>>

\* A proposed action: re-enter at policy, one closing round.
ResolveProposed(w) ==
  /\ Rescan(w)
  /\ ScannedIn(Present, "waiting_approval") = {}
  /\ ScannedIn(ActionSteps, "proposed") # {}
  /\ Rebuild(w, [FreshCursor EXCEPT !.node = "policy",
                                    !.loops = Cardinality(ActionSteps)])
  /\ BecomeRunning
  /\ AppendEvent
  /\ UNCHANGED <<cancel, lease, intent, ckpt, remote, ghosts>>

\* A finished action but no cursor that says what follows it.
ResolvePostAction(w) ==
  /\ Rescan(w)
  /\ ScannedIn(Present, "waiting_approval") = {}
  /\ \E s \in ActionSteps : Scanned[s] \in TerminalStep
  /\ Halt(w)
  /\ UNCHANGED <<cancel, intent, ckpt, remote, ghosts>>

\* No action step at all: resume the checkpoint, or plan from the start.
ResolveNoAction(w) ==
  /\ Rescan(w)
  /\ ScannedIn(Present, "waiting_approval") = {}
  /\ ActionSteps = {}
  /\ BecomeRunning
  /\ IF ckpt # None THEN Resume(w) ELSE MoveTo(w, FreshCursor)
  /\ IF Interrupted # {} THEN AppendEvent ELSE UNCHANGED txn
  /\ UNCHANGED <<cancel, lease, intent, ckpt, remote, ghosts>>

\* update_state writes the rebuilt cursor under the claim fence; at the pause
\* the decision is then derived from MySQL.
WriteBoundary(w) ==
  /\ drive[w].pc = "rebuild"
  /\ Owns(w)
  /\ LET c == drive[w].cur IN
     /\ ckpt' = c
     /\ IF c.node = "pause" THEN LeavePause(w, c)
        ELSE drive' = [drive EXCEPT ![w].pc = "graph", ![w].saved = TRUE]
  /\ UNCHANGED <<dbVars, txn, remote, ghosts>>

-----------------------------------------------------------------------------
\* The graph.  Moves that only read are guarded by Owns too: without the claim
\* a drive can write nothing more and ends by AbandonDrive.

\* The saver, behind the claim fence, stores the checkpoint of the last node
\* that finished; later nodes may already be running.
SaveCheckpoint(w) ==
  /\ drive[w].pc \in {"graph", "review", "expand", "begin", "launch", "remote"}
  /\ ~drive[w].saved
  /\ Owns(w)
  /\ ckpt' = drive[w].cur
  /\ drive' = [drive EXCEPT ![w].saved = TRUE]
  /\ UNCHANGED <<dbVars, txn, remote, ghosts>>

\* The duration budget is spent at a node boundary or before an execution.
DurationExhausted(w) ==
  /\ \/ drive[w].pc = "graph" /\ drive[w].cur.node \notin {"pause", "end"}
     \/ drive[w].pc \in {"expand", "begin"}
  /\ \/ /\ status = "needs_attention"
        /\ Owns(w)
        /\ ClearClaim
        /\ StopDriving(w)
        /\ UNCHANGED <<status, cancel, step, note, intent, txn, ckpt, remote,
                       ghosts>>
     \/ status # "needs_attention" /\ FailRun(w)

\* plan node: one proposal per turn, through the claim-fenced repository.
Planned(w, more) ==
  MoveTo(w, [drive[w].cur EXCEPT !.node = "policy", !.more = more])
Planning(w) == AtNode(w, "plan") /\ Owns(w)

ProposeProbe(w, q) ==
  /\ Planning(w)
  /\ status \in Proposable
  /\ q \in Probe /\ step[q] = "absent"
  /\ step' = [step EXCEPT ![q] = "proposed"]
  /\ AppendEvent
  /\ Planned(w, TRUE)
  /\ UNCHANGED <<status, cancel, lease, note, intent, ckpt, remote, ghosts>>

\* A verification needs a write that succeeded.
ProposeVerification(w, q) ==
  /\ Planning(w)
  /\ status \in Proposable
  /\ q \in Verification /\ step[q] = "absent"
  /\ In(WriteStep, "succeeded") # {}
  /\ step' = [step EXCEPT ![q] = "proposed"]
  /\ AppendEvent
  /\ Planned(w, TRUE)
  /\ UNCHANGED <<status, cancel, lease, note, intent, ckpt, remote, ghosts>>

\* One undecided plan at a time.  When the policy asks, the Run waits.
ProposePlan(w, p) ==
  /\ Planning(w)
  /\ status \in Proposable
  /\ step[p] = "absent"
  /\ \A q \in Plan : step[q] \in TerminalStep \cup {"absent"}
  /\ step' = [step EXCEPT ![p] = IF NeedsAsk THEN "waiting_approval"
                                 ELSE "approved"]
  /\ IF NeedsAsk /\ status # "waiting_approval"
     THEN SetRun("waiting_approval") ELSE UNCHANGED status
  /\ consent' = IF NeedsAsk THEN consent ELSE consent \cup {p}
  /\ AppendEvent
  /\ Planned(w, TRUE)
  /\ UNCHANGED <<cancel, lease, note, intent, ckpt, remote, launches, silent>>

\* finish: conclude_run accepts a conclusion that cites evidence.
Finish(w) ==
  /\ Planning(w)
  /\ status \in Proposable
  /\ \E s \in Observation \cup PlanAction :
       step[s] \in {"succeeded", "failed", "outcome_unknown"}
  /\ AppendEvent
  /\ Planned(w, FALSE)
  /\ UNCHANGED <<dbVars, ckpt, remote, ghosts>>

\* The proposal is malformed, conflicts with the Run's state, or no planner is
\* wired: PlannerProposalError or PlannerUnavailable, then _fail_run.
PlannerFails(w) == AtNode(w, "plan") /\ FailRun(w)

\* policy node: a proposed observation is read only and always allowed.
Proposed == In(Observation, "proposed")
ToExecute(w, s) ==
  MoveTo(w, [drive[w].cur EXCEPT !.node = "execute", !.pending = s,
                                 !.skip = FALSE])
ToPause(w, s) ==
  MoveTo(w, [drive[w].cur EXCEPT !.node = "pause", !.pending = s,
                                 !.skip = FALSE])

PolicyAllow(w) ==
  /\ AtNode(w, "policy") /\ Owns(w)
  /\ \E s \in Proposed : SetStep(s, "approved") /\ ToExecute(w, s)
  /\ AppendEvent
  /\ UNCHANGED <<status, cancel, lease, note, intent, ckpt, remote, ghosts>>

\* _policy_plan_pending: no proposed observation, so look at the open plan.
PolicyOnPlan(w) == AtNode(w, "policy") /\ Owns(w) /\ Proposed = {}
OpenPlans == {p \in Plan : step[p] \in {"waiting_approval", "approved",
                                        "running"}}

PolicyNothing(w) ==
  /\ PolicyOnPlan(w)
  /\ OpenPlans = {}
  /\ ToExecute(w, None)
  /\ UNCHANGED <<dbVars, txn, ckpt, remote, ghosts>>

PolicyAuthorised(w) ==
  /\ PolicyOnPlan(w)
  /\ \E p \in OpenPlans : /\ step[p] # "waiting_approval"
                          /\ note[p] # "pending"
                          /\ ToExecute(w, p)
  /\ UNCHANGED <<dbVars, txn, ckpt, remote, ghosts>>

PolicyAsk(w) ==
  /\ PolicyOnPlan(w)
  /\ \E p \in OpenPlans : /\ step[p] = "waiting_approval"
                          /\ GuardianWired => note[p] = "reviewed"
                          /\ ToPause(w, p)
  /\ UNCHANGED <<dbVars, txn, ckpt, remote, ghosts>>

\* _claim_guardian_review: the mark is durable before the model is called.
GuardianClaim(w) ==
  /\ PolicyOnPlan(w)
  /\ GuardianWired
  /\ \E p \in OpenPlans :
       /\ step[p] = "waiting_approval" /\ note[p] = "none"
       /\ SetStep(p, "running")
       /\ note' = [note EXCEPT ![p] = "pending"]
       /\ drive' = [drive EXCEPT ![w].pc = "review", ![w].at = p]
  /\ UNCHANGED <<status, cancel, lease, intent, txn, ckpt, remote, ghosts>>

\* The Guardian's answer; a failed, cut or malformed one counts as escalate.
Verdicts == {"approve", "reject", "escalate"}

\* _maybe_guardian_review: the model is called in between, on no lock.
Reviewing(w) == drive[w].pc = "review" /\ Owns(w)

\* The answer is written only if the plan is still running.
GuardianAnswer(w, verdict) ==
  /\ Reviewing(w)
  /\ LET p == drive[w].at
         to == CASE verdict = "approve" -> "approved"
                 [] verdict = "reject" -> "failed"
                 [] OTHER -> "waiting_approval" IN
     /\ step[p] = "running"
     /\ SetStep(p, to)
     /\ note' = [note EXCEPT ![p] = "reviewed"]
     /\ IF verdict = "escalate" THEN UNCHANGED status ELSE SetRun("queued")
     /\ consent' = IF verdict = "approve" THEN consent \cup {p} ELSE consent
     /\ CASE verdict = "approve" -> ToExecute(w, p)
          [] verdict = "reject" -> ToExecute(w, None)
          [] OTHER -> ToPause(w, p)
  /\ AppendEvent
  /\ UNCHANGED <<cancel, lease, intent, ckpt, remote, launches, silent>>

\* The plan was decided meanwhile: the answer is dropped and the graph asks.
GuardianTooLate(w) ==
  /\ Reviewing(w)
  /\ step[drive[w].at] # "running"
  /\ ToPause(w, drive[w].at)
  /\ UNCHANGED <<dbVars, txn, ckpt, remote, ghosts>>

\* invoke returned at the interrupt, its checkpoints all written.  If Redis has
\* lost the thread the driver no longer sees a pause and finalizes.
PauseCheck(w) ==
  /\ AtNode(w, "pause") /\ Owns(w)
  /\ drive[w].saved
  /\ IF ckpt = None
     THEN drive' = [drive EXCEPT ![w].cur.node = "end"]
     ELSE LeavePause(w, drive[w].cur)
  /\ UNCHANGED <<dbVars, txn, ckpt, remote, ghosts>>

\* _settle_paused: the claim is cleared whatever the decision is by now.
Settle(w) ==
  /\ drive[w].pc = "settle"
  /\ Owns(w)
  /\ IF status = "recovering" THEN SetRun("waiting_approval")
     ELSE UNCHANGED status
  /\ ClearClaim
  /\ StopDriving(w)
  /\ UNCHANGED <<cancel, step, note, intent, txn, ckpt, remote, ghosts>>

-----------------------------------------------------------------------------
\* execute node.

Executing(w) == AtNode(w, "execute") /\ Owns(w)
Target(w)    == drive[w].cur.pending
ToDecide(w)  == MoveTo(w, [drive[w].cur EXCEPT !.node = "decide"])

\* What the execute node is willing to run.
Runnable(s) == step[s] = "approved" \/ (s \in Plan /\ step[s] = "running")

SkipExecute(w) ==
  /\ Executing(w)
  /\ \/ Target(w) = None
     \/ drive[w].cur.skip
     \/ cancel
     \/ Target(w) \in StepId /\ ~Runnable(Target(w))
  /\ ToDecide(w)
  /\ UNCHANGED <<dbVars, txn, ckpt, remote, ghosts>>

WillExecute(w) ==
  /\ Executing(w)
  /\ ~drive[w].cur.skip
  /\ ~cancel
  /\ Target(w) # None
  /\ Runnable(Target(w))

ExecuteStep(w) ==
  /\ WillExecute(w)
  /\ Target(w) \notin Plan
  /\ drive' = [drive EXCEPT ![w].pc = "begin", ![w].at = Target(w)]
  /\ UNCHANGED <<dbVars, txn, ckpt, remote, ghosts>>

\* The plan's digest, expiry, binding or budget no longer holds.
InvalidatePlan(w) ==
  /\ WillExecute(w)
  /\ Target(w) \in Plan
  /\ SetStep(Target(w), "failed")
  /\ note' = [note EXCEPT ![Target(w)] = "none"]
  /\ AppendEvent
  /\ ToDecide(w)
  /\ UNCHANGED <<status, cancel, lease, intent, ckpt, remote, ghosts>>

\* The plan is marked running, without an event, and expanded in order.
StartPlan(w) ==
  /\ WillExecute(w)
  /\ Target(w) \in Plan
  /\ step' = [step EXCEPT ![Target(w)] = "running"]
  /\ drive' = [drive EXCEPT ![w].pc = "expand", ![w].at = <<Target(w), 1>>]
  /\ UNCHANGED <<status, cancel, lease, note, intent, txn, ckpt, remote, ghosts>>

\* The head of the expansion loop at the action drive[w].at.
Expanding(w) == drive[w].pc = "expand" /\ Owns(w)
HasAction(w) == drive[w].at[2] <= PlanLen

ExpandAction(w) ==
  /\ Expanding(w) /\ HasAction(w) /\ ~cancel
  /\ LET s == drive[w].at IN
     \/ /\ step[s] = "absent"              \* _ensure_plan_action_step
        /\ step' = [step EXCEPT ![s] = "approved"]
        /\ AppendEvent
        /\ drive' = [drive EXCEPT ![w].pc = "begin"]
     \/ /\ step[s] \in {"approved", "running"}
        /\ drive' = [drive EXCEPT ![w].pc = "begin"]
        /\ UNCHANGED <<step, txn>>
     \/ /\ step[s] \in {"succeeded", "skipped"}
        /\ drive' = [drive EXCEPT ![w].at = <<@[1], @[2] + 1>>]
        /\ UNCHANGED <<step, txn>>
  /\ UNCHANGED <<status, cancel, lease, note, intent, ckpt, remote, ghosts>>

\* Cancelled, or an action did not succeed: the plan fails without an event.
FailPlan(w) ==
  /\ Expanding(w) /\ HasAction(w)
  /\ cancel \/ step[drive[w].at] \in {"failed", "outcome_unknown", "cancelled"}
  /\ LET p == drive[w].at[1] IN
     \/ step[p] \in {"failed", "succeeded"} /\ UNCHANGED step
     \/ SetStep(p, "failed")
  /\ ToDecide(w)
  /\ UNCHANGED <<status, cancel, lease, note, intent, txn, ckpt, remote, ghosts>>

CompletePlan(w) ==
  /\ Expanding(w) /\ ~HasAction(w)
  /\ SetStep(drive[w].at[1], "succeeded")
  /\ AppendEvent
  /\ ToDecide(w)
  /\ UNCHANGED <<status, cancel, lease, note, intent, ckpt, remote, ghosts>>

-----------------------------------------------------------------------------
\* execute_step of the executor.

MayBeginCancelled ==   \* mutant: the request to cancel is not re-checked
  status \in {"queued", "running"}
MayBegin ==
  /\ ~cancel
  /\ status \in {"queued", "running"}

\* The write_intent event is appended before a write, never before a read.
AnyIntent(s)   == {s}  \* mutant: reads leave a write intent too
WriteIntent(s) == {s} \cap WriteStep

\* Everything is re-checked under the lock; the step, the Run and the write
\* intent are durable before the command leaves.  A failed check raises.
BeginStep(w) ==
  /\ drive[w].pc = "begin"
  /\ Owns(w)
  /\ MayBegin
  /\ LET s == drive[w].at IN
     /\ step[s] = "approved"
     /\ step' = [step EXCEPT ![s] = "running"]
     /\ intent' = intent \cup WriteIntent(s)
  /\ status' = "running"
  /\ AppendEvent
  /\ drive' = [drive EXCEPT ![w].pc = "launch"]
  /\ UNCHANGED <<cancel, lease, note, ckpt, remote, ghosts>>

\* exec_command on the managed host.  The claim may have been lost since.
Launch(w) ==
  /\ drive[w].pc = "launch"
  /\ remote' = remote \cup ({drive[w].at} \cap WriteStep)
  /\ launches' = [s \in WriteStep |->
                    IF s # drive[w].at THEN launches[s]
                    ELSE IF launches[s] = 0 THEN 1 ELSE 2]
  /\ drive' = [drive EXCEPT ![w].pc = "remote"]
  /\ UNCHANGED <<dbVars, txn, ckpt, consent, silent>>

\* The worker goes on after a step: to the next action of the plan it expands,
\* or out of the execute node.
AfterStep(w, ok) ==
  IF drive[w].cur.pending \in Plan
  THEN drive' = [drive EXCEPT ![w].pc = "expand",
                              ![w].at = IF ok THEN <<@[1], @[2] + 1>> ELSE @]
  ELSE ToDecide(w)

Outcome(w, pc, to) ==
  /\ drive[w].pc = pc
  /\ Owns(w)
  /\ SetStep(drive[w].at, to)
  /\ AfterStep(w, to = "succeeded")
  /\ AppendEvent

\* The control probe's reason: a cancel needs the request.
Reason(r) == r = "cancelled" => cancel

\* The command provably never started: an ordinary failure, a confirmed cancel,
\* or a revoked authorisation that fails the Run and keeps its lease.
RecordNotStarted(w, r) ==
  /\ Reason(r)
  /\ Outcome(w, "launch", IF r = "cancelled" THEN "cancelled" ELSE "failed")
  /\ IF r = "revoked" THEN SetRun("failed") ELSE UNCHANGED status
  /\ UNCHANGED <<cancel, lease, note, intent, ckpt, remote, ghosts>>

RecordExitOrTimeout(w, ok) ==  \* mutant: a timeout is taken for an exit
  /\ Outcome(w, "remote", IF ok THEN "succeeded" ELSE "failed")
  /\ UNCHANGED <<status, cancel, lease, note, intent, ckpt, remote, ghosts>>

\* run_ssh_command answered "exited": the command has ended and its code was
\* read, or the transport died and the code is -1, which is a failure like any
\* other although the command may still be running.
RecordExit(w, ok) ==
  /\ Outcome(w, "remote", IF ok THEN "succeeded" ELSE "failed")
  /\ \/ remote' = remote \ {drive[w].at} /\ silent' = silent
     \/ /\ ~ok
        /\ remote' = remote
        /\ silent' = silent \cup ({drive[w].at} \cap WriteStep)
  /\ UNCHANGED <<status, cancel, lease, note, intent, ckpt, launches, consent>>

\* An unclear outcome stops the Run until a person has looked.
CarryOn        == UNCHANGED status  \* mutant: the Run stays running
StopForPerson == SetRun("needs_attention")

\* The command was interrupted: transport error or timeout, a failure of the SSH
\* adapter itself, cancel, or revoked authorisation; stopped says whether the
\* process group is known to be gone.  An interrupted write is never known to
\* have had no effect.
RecordInterruptedWrite(w, r, stopped) ==
  /\ drive[w].at \in WriteStep
  /\ Reason(r)
  /\ Outcome(w, "remote", "outcome_unknown")
  /\ StopForPerson
  /\ remote' = IF stopped THEN remote \ {drive[w].at} ELSE remote
  /\ UNCHANGED <<cancel, lease, note, intent, ckpt, ghosts>>

RecordInterruptedRead(w, r, stopped) ==
  /\ drive[w].at \notin WriteStep
  /\ Reason(r)
  /\ Outcome(w, "remote", IF r = "cancelled" /\ stopped THEN "cancelled"
                          ELSE "failed")
  /\ IF ~stopped /\ r # "adapter" THEN StopForPerson
     ELSE IF r = "revoked" THEN SetRun("failed")
     ELSE UNCHANGED status
  /\ UNCHANGED <<cancel, lease, note, intent, ckpt, remote, ghosts>>

-----------------------------------------------------------------------------
\* observe and verify leave the modelled state alone; then decide and the end.

Decide(w) ==
  /\ AtNode(w, "decide") /\ Owns(w)
  /\ LET c == drive[w].cur
         done(why) == [c EXCEPT !.node = "end", !.loops = @ + 1, !.why = why,
                                !.pending = None, !.skip = FALSE]
     IN MoveTo(w, IF cancel THEN done("cancelled")
                  ELSE IF c.loops + 1 >= MaxLoops THEN done("budget_exhausted")
                  ELSE IF ~c.more THEN done("exhausted")
                  ELSE [FreshCursor EXCEPT !.loops = c.loops + 1])
  /\ UNCHANGED <<dbVars, txn, ckpt, remote, ghosts>>

\* _finalize: status and lease in one transaction.
Finalizing(w) == AtNode(w, "end") /\ drive[w].saved /\ Owns(w)

\* needs_attention stays, whatever was requested meanwhile.
FinalizeAttention(w) ==
  /\ Finalizing(w)
  /\ status = "needs_attention"
  /\ ClearClaim /\ StopDriving(w)
  /\ UNCHANGED <<status, cancel, step, note, intent, txn, ckpt, remote, ghosts>>

RequeuedOrRunning == status \in {"queued", "running"}  \* mutant: lets go of a running Run
Requeued          == status = "queued"

\* Back in the queue after a Guardian or human decision: only let go.
FinalizeQueued(w) ==
  /\ Finalizing(w)
  /\ Requeued /\ ~cancel
  /\ drive[w].cur.why \notin {"cancelled", "budget_exhausted"}
  /\ ClearClaim /\ StopDriving(w)
  /\ UNCHANGED <<status, cancel, step, note, intent, txn, ckpt, remote, ghosts>>

Finalize(w) ==
  /\ Finalizing(w)
  /\ status # "needs_attention"
  /\ LET why == drive[w].cur.why IN
     \/ (why = "cancelled" \/ cancel) /\ SetRun("cancelled")
     \/ why = "budget_exhausted" /\ ~cancel /\ SetRun("failed")
     \/ /\ why \notin {"cancelled", "budget_exhausted"} /\ ~cancel
        /\ status # "queued"
        /\ SetRun("completed")
  /\ ClearClaim /\ StopDriving(w)
  /\ AppendEvent
  /\ UNCHANGED <<cancel, step, note, intent, ckpt, remote, ghosts>>

-----------------------------------------------------------------------------
SessionStep(s) ==
  \/ \E op \in {"start", "expire_draft"} : ReadDraft(s, op)
  \/ CommitDraft(s)
  \/ \E p \in Plan, op \in {"approve", "reject"} : ReadDecision(s, p, op)
  \/ CommitDecision(s)
  \/ \E p \in Plan : ReadExpiry(s, p)
  \/ CommitExpiry(s)
  \/ CommitStepExpiry(s)
  \/ Rollback(s)

Environment ==
  \/ ExpireLease
  \/ LoseCheckpoint
  \/ \E s \in WriteStep : RemoteExit(s)

EnterStep(w) ==
  \/ Claim(w)
  \/ ConfirmCancel(w)
  \/ RefuseRun(w)
  \/ CheckpointUnavailable(w)
  \/ EnterPaused(w)

ResolveStep(w) ==
  \/ ResolveFresh(w)
  \/ ResolveResume(w)
  \/ ResolveFinishedProbes(w)
  \/ ResolveManyActions(w)
  \/ ResolveInterruptedWrite(w)
  \/ ResolveWaiting(w)
  \/ ResolveApproved(w)
  \/ ResolveProposed(w)
  \/ ResolvePostAction(w)
  \/ ResolveNoAction(w)
  \/ WriteBoundary(w)

PlanStep(w) ==
  \/ \E q \in Probe : ProposeProbe(w, q)
  \/ \E q \in Verification : ProposeVerification(w, q)
  \/ \E p \in Plan : ProposePlan(w, p)
  \/ Finish(w)
  \/ PlannerFails(w)

PolicyStep(w) ==
  \/ PolicyAllow(w)
  \/ PolicyNothing(w)
  \/ PolicyAuthorised(w)
  \/ PolicyAsk(w)
  \/ GuardianClaim(w)
  \/ \E verdict \in Verdicts : GuardianAnswer(w, verdict)
  \/ GuardianTooLate(w)
  \/ PauseCheck(w)
  \/ Settle(w)

ExecuteNodeStep(w) ==
  \/ SkipExecute(w)
  \/ ExecuteStep(w)
  \/ InvalidatePlan(w)
  \/ StartPlan(w)
  \/ ExpandAction(w)
  \/ FailPlan(w)
  \/ CompletePlan(w)

ExecutorStep(w) ==
  \/ BeginStep(w)
  \/ Launch(w)
  \/ \E r \in {"error", "cancelled", "revoked"} : RecordNotStarted(w, r)
  \/ \E ok \in BOOLEAN : RecordExit(w, ok)
  \/ \E r \in {"error", "adapter", "cancelled", "revoked"}, stopped \in BOOLEAN :
       \/ RecordInterruptedWrite(w, r, stopped)
       \/ RecordInterruptedRead(w, r, stopped)

EndStep(w) ==
  \/ Decide(w)
  \/ FinalizeAttention(w)
  \/ FinalizeQueued(w)
  \/ Finalize(w)

WorkerStep(w) ==
  \/ EnterStep(w)
  \/ ResolveStep(w)
  \/ SaveCheckpoint(w)
  \/ DurationExhausted(w)
  \/ PlanStep(w)
  \/ PolicyStep(w)
  \/ ExecuteNodeStep(w)
  \/ ExecutorStep(w)
  \/ EndStep(w)
  \/ AbandonDrive(w)

Next ==
  \/ \E s \in Session : SessionStep(s)
  \/ RequestCancel
  \/ Environment
  \/ \E w \in Worker : WorkerStep(w)

Spec == Init /\ [][Next]_vars

-----------------------------------------------------------------------------
\* Properties.

\* Every variable keeps its type (the rows, the checkpoint, what workers and
\* sessions hold in memory).
TypeOK ==
  /\ status \in RunStatus
  /\ cancel \in BOOLEAN
  /\ lease \in [holder : Worker \cup {None}, live : BOOLEAN]
  /\ step \in [StepId -> StepStatus \cup {"absent"}]
  /\ note \in [Plan -> {"none", "pending", "reviewed"}]
  /\ intent \subseteq WriteStep
  /\ txn \in [Session -> Txn]
  /\ ckpt \in Cursor \cup {None}
  /\ drive \in [Worker -> Drive]
  /\ remote \subseteq WriteStep
  /\ launches \in [WriteStep -> 0 .. 2]
  /\ consent \subseteq Plan
  /\ silent \subseteq WriteStep

\* What a drive works on: a plan under review, an action or the end of the plan it
\* expands, or the step it executes.
WorkingOn(d) ==
  /\ d.pc = "review" => d.at \in Plan
  /\ d.pc = "expand" => /\ d.cur.pending \in Plan
                        /\ d.at \in Plan \X (1 .. PlanLen + 1)
  /\ d.pc \in {"begin", "launch", "remote"} =>
       IF d.cur.pending \in Plan THEN d.at \in PlanAction ELSE d.at \in StepId
DriveShape == \A w \in Worker : WorkingOn(drive[w])

\* A decision or an expiry is about a plan.
TxnShape ==
  \A s \in Session : txn[s].op \in {"approve", "reject", "expire"} =>
                      txn[s].step \in Plan

\* A transaction that can still commit a change of the Run's status finds a Run
\* that has not ended: whatever ended it appended an event since.
OpenTxnsMeetActiveRun ==
  \A s \in Session :
    /\ Fresh(s)
    /\ txn[s].op # "none"
    /\ txn[s].op = "expire" => txn[s].seen = "waiting_approval"
    => status \notin TerminalRun

\* No write action is ever started twice on the host, whatever crashes,
\* takeovers, lost checkpoints and stale workers there are (recovery.py: a
\* write that may have taken effect is never replayed).
NoReplay == \A s \in WriteStep : launches[s] <= 1

\* What may be running on the host and was not recorded as failed by exit -1.
Loud == remote \ silent

\* At most one write command of the Run is running on the host, though a worker
\* that lost its claim may still have one out; but for the writes whose lost
\* transport was recorded as exit code -1, beside which the Run goes on.
OneWriteInFlight == Cardinality(Loud) <= 1

\* A write only reaches the host under a plan that the policy, a human or the
\* Guardian authorised.
ConsentedWrites == \A s \in WriteStep : launches[s] > 0 => s[1] \in consent

\* A command that runs on the host left a durable write_intent behind it, and
\* its step is running or unknown, or failed with the exit code -1 of a lost
\* transport.
WriteInFlightIsRecorded ==
  \A s \in remote :
    /\ s \in intent
    /\ step[s] \in {"running", "outcome_unknown"}
         \cup (IF s \in silent THEN {"failed"} ELSE {})

\* Both: what runs on the host is one write, and the database knows of it, but
\* for what a lost transport left behind, which it knows as exit code -1.
WritesAreAccounted == OneWriteInFlight /\ WriteInFlightIsRecorded

\* A Run with a write of unknown outcome is with a person or has ended, and has
\* not ended well: nobody claims it, parks it or completes it again.  (A write
\* recorded as failed with exit code -1 is not of unknown outcome to the Run.)
UnknownWriteStopsRun ==
  (\E s \in WriteStep : step[s] = "outcome_unknown") =>
    status \in {"needs_attention", "failed", "cancelled"}

\* The recovery scan and claims can always reach an active Run: a Run that is
\* running or recovering has a lease that is live or will expire.
NoOrphanedRun == status \in {"running", "recovering"} => lease.holder # None

\* A Run parked without a lease for a decision has a step to decide on, but for
\* the plan that a late expiry cancelled under a Run it did not see waiting:
\* nothing else strands a parked Run.
ParkedUnlessExpired ==
  (status = "waiting_approval" /\ lease.holder = None) =>
    In(Plan, "waiting_approval") \cup In(Plan, "cancelled") # {}

\* Both: an active Run is always in somebody's reach.
NoRunIsLost == NoOrphanedRun /\ ParkedUnlessExpired

\* No session, worker or stale transaction moves a Run out of a terminal
\* status (state.py: terminal states have no outgoing edge).
TerminalAbsorbing == [][(status \in TerminalRun) => (status' = status)]_vars

\* The recorded result of an action or an observation is final: no takeover, late
\* worker or session rewrites it.
ActionOutcomeFinal ==
  [][\A s \in StepId \ Plan : step[s] \in TerminalStep => step'[s] = step[s]]_vars

\* While a write is running or has an unknown outcome, no new step appears: the
\* planner and the expansion of plans stand still until it is settled.
NoPlanningOverOpenWrite ==
  [][(\E s \in WriteStep : step[s] \in {"running", "outcome_unknown"}) =>
       Present' = Present]_vars

\* A plan that was rejected or invalidated never becomes executable again, although
\* an approval read before the Guardian took the plan may still commit.
RejectedNeverRuns ==
  [][\A p \in Plan : step[p] = "failed" => step'[p] \in {"failed", "cancelled"}]_vars

\* A write whose intent was not durable when the cancel was recorded is never
\* declared and never reaches the host.
NoWriteAfterCancel ==
  [][cancel => \A s \in WriteStep \ intent :
                 s \notin intent' /\ launches'[s] = launches[s]]_vars

-----------------------------------------------------------------------------
\* What the Run promises the person who started it.

Fate == IF status \in TerminalRun THEN status
        ELSE IF status = "needs_attention" THEN "attention" ELSE "active"

\* What is on record of a write: nothing before its intent is durable.
Outcomes ==
  [s \in WriteStep |->
     IF s \notin intent THEN "none"
     ELSE CASE step[s] = "running"         -> "open"
            [] step[s] = "outcome_unknown" -> "unknown"
            [] OTHER                       -> "known"]

Promise == INSTANCE RunPromise
             WITH Write <- WriteStep, fate <- Fate, cancelled <- cancel,
                  outcome <- Outcomes, starts <- launches

(* The Run keeps the promise of RunPromise: writes are declared one at a     *)
(* time, never after a cancel, and start once; what is known of one is never *)
(* taken back; nothing makes a Run that is with a person active again; and   *)
(* it ends once, cancelled only if that was asked for, completed or expired  *)
(* only with nothing left open.                                              *)
KeepsRunPromise == Promise!Spec

-----------------------------------------------------------------------------
\* What the documentation says and the code does not keep.

\* recovery.py: completion is never guessed, so a completed Run leaves no
\* authorised plan with actions that never ran.
CompletedPlansAreFinished ==
  status = "completed" => In(Plan, "approved") \cup In(Plan, "running") = {}
=============================================================================
