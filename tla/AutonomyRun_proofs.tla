-------------------------- MODULE AutonomyRun_proofs --------------------------
EXTENDS AutonomyRun, FiniteSetTheorems, TLAPS

(***************************************************************************)
(* What AutonomyRun keeps for every number of workers, sessions, probes,   *)
(* verifications, plans and actions of a plan.                             *)
(*                                                                         *)
(* Typed strengthens TypeOK by what a session may hold (TxnShape) and a    *)
(* worker may be at work on (DriveShape), and is inductive: one lemma per  *)
(* group of actions, each splitting into tables, sessions and workers.     *)
(*                                                                         *)
(* TerminalAbsorbing is not inductive: a session holds a status it read    *)
(* without a lock, and could write a successor of it over a Run that has   *)
(* ended since.  What saves it is the unique sequence number of events:    *)
(* whatever ends a Run appends an event, which makes every open            *)
(* transaction stale.  OpenTxnsMeetActiveRun says so, and the two are      *)
(* proved together (StatusKept).                                           *)
(***************************************************************************)

\* The rows of the Run, its plans and steps, and the remote host.
DatabaseTyped ==
  /\ status \in RunStatus
  /\ cancel \in BOOLEAN
  /\ lease \in [holder : Worker \cup {None}, live : BOOLEAN]
  /\ step \in [StepId -> StepStatus \cup {"absent"}]
  /\ note \in [Plan -> {"none", "pending", "reviewed"}]
  /\ intent \subseteq WriteStep
  /\ remote \subseteq WriteStep
  /\ launches \in [WriteStep -> 0 .. 2]
  /\ consent \subseteq Plan
  /\ silent \subseteq WriteStep

\* What the unlocked sessions have read, and what the workers hold.
SessionsTyped == txn \in [Session -> Txn] /\ TxnShape

DrivesTyped ==
  /\ ckpt \in Cursor \cup {None}
  /\ drive \in [Worker -> Drive]
  /\ DriveShape

Typed == DatabaseTyped /\ SessionsTyped /\ DrivesTyped

\* An event makes what every session has read stale: a record update in Txn.
LEMMA AppendEventTyped ==
  ASSUME SessionsTyped, AppendEvent
  PROVE  SessionsTyped'
  BY DEF SessionsTyped, AppendEvent, Txn, TxnShape

\* A session that commits ends its transaction and makes the others stale.
LEMMA CommitTyped ==
  ASSUME SessionsTyped, NEW s \in Session, CommitWithEvent(s)
  PROVE  SessionsTyped'
<1>1. NoTxn \in Txn /\ NoTxn.op = "none"
  BY DEF NoTxn, Txn, RunStatus
<1>2. ASSUME NEW t \in Session, t # s
      PROVE  [txn[t] EXCEPT !.fresh = FALSE] \in Txn
  BY DEF SessionsTyped, Txn
<1>3. ASSUME NEW t \in Session, t # s
      PROVE  /\ txn'[t].op = txn[t].op
             /\ txn'[t].step = txn[t].step
  BY <1>3 DEF SessionsTyped, CommitWithEvent, Txn
<1>4. txn' \in [Session -> Txn]
  BY <1>1, <1>2 DEF CommitWithEvent
<1>5. txn'[s] = NoTxn
  BY DEF CommitWithEvent
<1> QED
  BY <1>1, <1>3, <1>4, <1>5 DEF SessionsTyped, TxnShape

\* The transition table of the Run (state.py) leads only to its statuses, and
\* leads nowhere from a terminal one.
LEMMA RunLegalTyped ==
  ASSUME NEW from \in RunStatus, NEW to, RunLegal(from, to)
  PROVE  to \in RunStatus /\ from \notin TerminalRun
  BY DEF RunLegal, RunStatus, TerminalRun

\* The transition table of the steps leads only to their statuses.
LEMMA SetStepTyped ==
  ASSUME DatabaseTyped, NEW s, NEW to, SetStep(s, to)
  PROVE  step' \in [StepId -> StepStatus \cup {"absent"}]
  BY DEF DatabaseTyped, SetStep, StepLegal, StepStatus

\* The unlocked sessions: drafts, decisions and expiry sweeps.
LEMMA SessionStepTyped ==
  ASSUME Typed, NEW s \in Session, SessionStep(s)
  PROVE  Typed'
<1> USE DEF Typed
<1>1. ASSUME NEW op \in {"start", "expire_draft"}, ReadDraft(s, op)
      PROVE  Typed'
  <2>1. SessionsTyped'
    BY <1>1 DEF ReadDraft, SessionsTyped, Txn, TxnShape, RunStatus, DatabaseTyped
  <2> QED
    BY <1>1, <2>1 DEF ReadDraft, dbVars, ghosts, DatabaseTyped, DrivesTyped, DriveShape
<1>2. CASE CommitDraft(s)
  <2>1. SessionsTyped'
    BY <1>2, CommitTyped DEF CommitDraft
  <2> QED
    BY <1>2, <2>1 DEF CommitDraft, ghosts, DatabaseTyped, DrivesTyped, DriveShape,
                      RunStatus, NoLease
<1>3. ASSUME NEW p \in Plan, NEW op \in {"approve", "reject"}, ReadDecision(s, p, op)
      PROVE  Typed'
  <2>1. SessionsTyped'
    BY <1>3 DEF ReadDecision, SessionsTyped, Txn, TxnShape, RunStatus, DatabaseTyped
  <2> QED
    BY <1>3, <2>1 DEF ReadDecision, dbVars, ghosts, DatabaseTyped, DrivesTyped, DriveShape
<1>4. CASE CommitDecision(s)
  <2>1. SessionsTyped'
    BY <1>4, CommitTyped DEF CommitDecision
  <2>2. txn[s].step \in Plan
    BY <1>4 DEF CommitDecision, SessionsTyped, TxnShape
  <2> QED
    BY <1>4, <2>1, <2>2 DEF CommitDecision, Requeue, DatabaseTyped, DrivesTyped,
                        DriveShape, RunStatus, StepStatus
<1>5. ASSUME NEW p \in Plan, ReadExpiry(s, p)
      PROVE  Typed'
  <2>1. SessionsTyped'
    BY <1>5 DEF ReadExpiry, SessionsTyped, Txn, TxnShape, RunStatus, DatabaseTyped
  <2> QED
    BY <1>5, <2>1 DEF ReadExpiry, dbVars, ghosts, DatabaseTyped, DrivesTyped, DriveShape
<1>6. CASE CommitExpiry(s)
  <2>1. SessionsTyped'
    BY <1>6, CommitTyped DEF CommitExpiry
  <2> QED
    BY <1>6, <2>1 DEF CommitExpiry, ClearClaim, NoLease, ghosts, DatabaseTyped,
                      DrivesTyped, DriveShape, RunStatus, StepStatus
<1>7. CASE CommitStepExpiry(s)
  <2>1. SessionsTyped'
    BY <1>7 DEF CommitStepExpiry, SessionsTyped, NoTxn, Txn, TxnShape, RunStatus
  <2> QED
    BY <1>7, <2>1 DEF CommitStepExpiry, ghosts, DatabaseTyped, DrivesTyped, DriveShape,
                      StepStatus
<1>8. CASE Rollback(s)
  <2>1. SessionsTyped'
    BY <1>8 DEF Rollback, SessionsTyped, NoTxn, Txn, TxnShape, RunStatus
  <2> QED
    BY <1>8, <2>1 DEF Rollback, dbVars, ghosts, DatabaseTyped, DrivesTyped, DriveShape
<1> QED
  BY <1>1, <1>2, <1>3, <1>4, <1>5, <1>6, <1>7, <1>8 DEF SessionStep

-----------------------------------------------------------------------------
\* What a worker holds keeps its type.

\* A worker that replaces what it holds by something well typed.
LEMMA DriveStepTyped ==
  ASSUME DrivesTyped, NEW w \in Worker, NEW d \in Drive, WorkingOn(d),
         drive' = [drive EXCEPT ![w] = d], ckpt' \in Cursor \cup {None}
  PROVE  DrivesTyped'
  BY DEF DrivesTyped, DriveShape

\* The cursor a graph starts from (RunGraphState's defaults).
LEMMA FreshCursorTyped == FreshCursor \in Cursor
  BY DEF FreshCursor, Cursor, Node

\* A worker whose node returned: it goes on from cursor c, not yet saved.
LEMMA MoveToTyped ==
  ASSUME DrivesTyped, NEW w \in Worker, NEW c \in Cursor, MoveTo(w, c),
         ckpt' \in Cursor \cup {None}
  PROVE  DrivesTyped'
<1> DEFINE d == [pc |-> "graph", cur |-> c, saved |-> FALSE, at |-> None]
<1>1. d \in Drive /\ WorkingOn(d)
  BY DEF Drive, Phase, WorkingOn
<1> QED
  BY <1>1, DriveStepTyped DEF MoveTo

\* A worker that stops driving holds nothing.
LEMMA StopTyped ==
  ASSUME DrivesTyped, NEW w \in Worker, StopDriving(w),
         ckpt' \in Cursor \cup {None}
  PROVE  DrivesTyped'
<1>1. Idle \in Drive /\ WorkingOn(Idle)
  BY FreshCursorTyped DEF Idle, Drive, Phase, WorkingOn
<1> QED
  BY <1>1, DriveStepTyped DEF StopDriving

\* A worker whose graph is rebuilt from cursor c, without a checkpoint.
LEMMA RebuildTyped ==
  ASSUME DrivesTyped, NEW w \in Worker, NEW c \in Cursor, Rebuild(w, c),
         ckpt' \in Cursor \cup {None}
  PROVE  DrivesTyped'
<1> DEFINE d == [pc |-> "rebuild", cur |-> c, saved |-> FALSE, at |-> None]
<1>1. d \in Drive /\ WorkingOn(d)
  BY DEF Drive, Phase, WorkingOn
<1> QED
  BY <1>1, DriveStepTyped DEF Rebuild

\* A worker that resumes from the saved checkpoint.
LEMMA ResumeTyped ==
  ASSUME DrivesTyped, NEW w \in Worker, ckpt # None, Resume(w),
         ckpt' \in Cursor \cup {None}
  PROVE  DrivesTyped'
<1> DEFINE d == [pc |-> "graph", cur |-> ckpt, saved |-> TRUE, at |-> None]
<1>1. d \in Drive /\ WorkingOn(d)
  BY DEF Drive, Phase, WorkingOn, DrivesTyped
<1> QED
  BY <1>1, DriveStepTyped DEF Resume

\* A worker that leaves the pause node, for execution or for the end.
LEMMA LeavePauseTyped ==
  ASSUME DrivesTyped, NEW w \in Worker, NEW c \in Cursor, LeavePause(w, c),
         ckpt' \in Cursor \cup {None}
  PROVE  DrivesTyped'
<1> DEFINE k == [c EXCEPT !.node = "execute", !.skip = ~Decided(c)]
           d == IF StillWaiting(c)
                THEN [pc |-> "settle", cur |-> c, saved |-> TRUE, at |-> None]
                ELSE [pc |-> "graph", saved |-> FALSE, at |-> None, cur |-> k]
<1>1. k \in Cursor
  BY DEF Cursor, Node, Decided
<1>2. d \in Drive /\ WorkingOn(d)
  BY <1>1 DEF Drive, Phase, WorkingOn
<1>3. drive' = [drive EXCEPT ![w] = d]
  BY DEF LeavePause
<1> QED
  BY <1>2, <1>3, DriveStepTyped

-----------------------------------------------------------------------------
\* Each group of actions preserves the types.

\* A cancellation request, forced or left to the worker that holds the lease.
LEMMA RequestCancelTyped ==
  ASSUME Typed, RequestCancel
  PROVE  Typed'
<1>1. SessionsTyped'
  BY AppendEventTyped DEF Typed, RequestCancel
<1>2. DrivesTyped'
  BY DEF Typed, RequestCancel, DrivesTyped, DriveShape
<1>3. status' \in RunStatus
  BY RunLegalTyped DEF Typed, DatabaseTyped, RequestCancel, SetRun
<1>4. step' \in [StepId -> StepStatus \cup {"absent"}]
  BY DEF Typed, DatabaseTyped, RequestCancel, StepStatus
<1>5. lease' \in [holder : Worker \cup {None}, live : BOOLEAN]
  <2>1. NoLease \in [holder : Worker \cup {None}, live : BOOLEAN]
    BY DEF NoLease
  <2>2. lease' = NoLease \/ lease' = lease
    BY DEF RequestCancel, ClearClaim
  <2> QED
    BY <2>1, <2>2 DEF Typed, DatabaseTyped
<1> QED
  BY <1>1, <1>2, <1>3, <1>4, <1>5
  DEF Typed, DatabaseTyped, RequestCancel, ghosts

\* Leases that expire, checkpoints that are lost, remote commands that exit.
LEMMA EnvironmentTyped ==
  ASSUME Typed, Environment
  PROVE  Typed'
<1>1. CASE ExpireLease
  BY <1>1 DEF ExpireLease, Typed, DatabaseTyped, SessionsTyped, TxnShape,
              DrivesTyped, DriveShape, ghosts
<1>2. CASE LoseCheckpoint
  BY <1>2 DEF LoseCheckpoint, Typed, DatabaseTyped, SessionsTyped, TxnShape,
              DrivesTyped, DriveShape, dbVars, ghosts
<1>3. ASSUME NEW s \in WriteStep, RemoteExit(s)
      PROVE  Typed'
  BY <1>3 DEF RemoteExit, Typed, DatabaseTyped, SessionsTyped, TxnShape,
              DrivesTyped, DriveShape, dbVars, ghosts
<1> QED
  BY <1>1, <1>2, <1>3 DEF Environment

\* A step that leaves every table row and every session alone.
LEMMA OnlyDrivesChange ==
  ASSUME Typed, DrivesTyped', UNCHANGED <<dbVars, txn, remote, ghosts>>
  PROVE  Typed'
  BY DEF Typed, DatabaseTyped, SessionsTyped, TxnShape, dbVars, ghosts

\* _fail_run changes the status, the lease, the events and the worker.
LEMMA FailRunTyped ==
  ASSUME Typed, NEW w \in Worker, FailRun(w)
  PROVE  Typed'
<1>1. SessionsTyped'
  BY AppendEventTyped DEF Typed, FailRun, SessionsTyped, TxnShape
<1>2. DrivesTyped'
  BY StopTyped DEF Typed, FailRun, DrivesTyped
<1>3. status' \in RunStatus
  BY RunLegalTyped DEF Typed, DatabaseTyped, FailRun, SetRun
<1> QED
  BY <1>1, <1>2, <1>3
  DEF Typed, DatabaseTyped, FailRun, ClearClaim, NoLease, ghosts

\* From the claim to the entry of the graph.
LEMMA EnterStepTyped ==
  ASSUME Typed, NEW w \in Worker, EnterStep(w)
  PROVE  Typed'
<1> USE DEF Typed
<1>1. CASE Claim(w)
  <2>1. DrivesTyped'
    BY <1>1 DEF Claim, DrivesTyped, DriveShape, Drive, Phase, WorkingOn
  <2> QED
    BY <1>1, <2>1 DEF Claim, DatabaseTyped, SessionsTyped, TxnShape,
                      RunStatus, ghosts
<1>2. CASE ConfirmCancel(w)
  <2>1. SessionsTyped'
    BY <1>2, AppendEventTyped DEF ConfirmCancel
  <2>2. DrivesTyped'
    BY <1>2, StopTyped DEF ConfirmCancel, DrivesTyped
  <2> QED
    BY <1>2, <2>1, <2>2 DEF ConfirmCancel, DatabaseTyped, SetRun, RunStatus,
                            ClearClaim, NoLease, ghosts
<1>3. CASE RefuseRun(w)
  BY <1>3, FailRunTyped DEF RefuseRun
<1>4. CASE CheckpointUnavailable(w)
  <2>1. SessionsTyped'
    BY <1>4, AppendEventTyped DEF CheckpointUnavailable
  <2>2. DrivesTyped'
    BY <1>4, StopTyped DEF CheckpointUnavailable, DrivesTyped
  <2> QED
    BY <1>4, <2>1, <2>2
    DEF CheckpointUnavailable, DatabaseTyped, SetRun, RunStatus, ClearClaim,
        NoLease, ghosts
<1>5. CASE EnterPaused(w)
  <2>1. ckpt \in Cursor
    BY <1>5 DEF EnterPaused, DrivesTyped
  <2>2. DrivesTyped'
    BY <1>5, <2>1, LeavePauseTyped DEF EnterPaused
  <2> QED
    BY <1>5, <2>2, OnlyDrivesChange DEF EnterPaused
<1> QED
  BY <1>1, <1>2, <1>3, <1>4, <1>5 DEF EnterStep

\* The pieces that the cases of RecoveryService.resolve share.
LEMMA HaltTyped ==
  ASSUME Typed, NEW w \in Worker, Halt(w), ckpt' = ckpt
  PROVE  /\ SessionsTyped'
         /\ DrivesTyped'
         /\ status' \in RunStatus
         /\ lease' \in [holder : Worker \cup {None}, live : BOOLEAN]
<1>1. SessionsTyped'
  BY AppendEventTyped DEF Typed, Halt
<1>2. DrivesTyped'
  BY StopTyped DEF Typed, Halt, DrivesTyped
<1> QED
  BY <1>1, <1>2 DEF Halt, SetRun, ClearClaim, NoLease, RunStatus

\* RecoveryService._transition_running.
LEMMA BecomeRunningTyped ==
  ASSUME DatabaseTyped, BecomeRunning
  PROVE  status' \in RunStatus
  BY DEF DatabaseTyped, BecomeRunning, SetRun, RunStatus

\* Sending a set of interrupted steps back to approved keeps their types,
\* whatever the set.
LEMMA RetriedTyped ==
  ASSUME DatabaseTyped, NEW S
  PROVE  /\ Retried(S) \in [StepId -> StepStatus \cup {"absent"}]
         /\ NotesOfRetried(S) \in [Plan -> {"none", "pending", "reviewed"}]
  BY DEF DatabaseTyped, Retried, NotesOfRetried, StepStatus

\* Finitely many steps: what counting the loops of a rebuilt cursor needs.
LEMMA StepIdFinite == IsFiniteSet(StepId)
<1>1. IsFiniteSet(1 .. PlanLen)
  BY FS_Interval, ConstantsAssumption
<1>2. IsFiniteSet(PlanAction)
  BY <1>1, FS_Product, FinitenessAssumption DEF PlanAction
<1>3. IsFiniteSet(Observation)
  BY FS_Union, FinitenessAssumption DEF Observation
<1>4. IsFiniteSet(Observation \cup Plan)
  BY <1>3, FS_Union, FinitenessAssumption
<1> QED
  BY <1>2, <1>4, FS_Union DEF StepId

\* The loops of a rebuilt cursor, one per action step.
LEMMA LoopsTyped == Cardinality(ActionSteps) \in Nat
<1>1. ActionSteps \in SUBSET StepId
  BY DEF ActionSteps, Present
<1> QED
  BY <1>1, StepIdFinite, FS_Subset, FS_CardinalityType

\* Every case of RecoveryService.resolve.
LEMMA ResolveStepTyped ==
  ASSUME Typed, NEW w \in Worker, ResolveStep(w)
  PROVE  Typed'
<1> USE DEF Typed
<1> DEFINE Kept == UNCHANGED <<cancel, intent, remote, ghosts>>
<1>0. ASSUME SessionsTyped', DrivesTyped', status' \in RunStatus, Kept,
             lease' \in [holder : Worker \cup {None}, live : BOOLEAN],
             step' \in [StepId -> StepStatus \cup {"absent"}],
             note' \in [Plan -> {"none", "pending", "reviewed"}]
      PROVE  Typed'
  BY <1>0 DEF DatabaseTyped, ghosts
<1>1. CASE ResolveFresh(w)
  <2>1. DrivesTyped'
    BY <1>1, MoveToTyped, FreshCursorTyped DEF ResolveFresh, DrivesTyped
  <2> QED
    BY <1>1, <2>1, <1>0, BecomeRunningTyped
    DEF ResolveFresh, DatabaseTyped, SessionsTyped, TxnShape
<1>2. CASE ResolveResume(w)
  <2>1. DrivesTyped'
    BY <1>2, ResumeTyped DEF ResolveResume, DrivesTyped
  <2> QED
    BY <1>2, <2>1, OnlyDrivesChange DEF ResolveResume
<1>4. CASE ResolveFinishedProbes(w)
  <2>1. [FreshCursor EXCEPT !.loops = Cardinality(ActionSteps)] \in Cursor
    BY FreshCursorTyped, LoopsTyped DEF Cursor
  <2>2. DrivesTyped'
    BY <1>4, <2>1, RebuildTyped DEF ResolveFinishedProbes, DrivesTyped
  <2>3. SessionsTyped'
    BY <1>4, AppendEventTyped DEF ResolveFinishedProbes
  <2> QED
    BY <1>4, <2>2, <2>3, <1>0, BecomeRunningTyped
    DEF ResolveFinishedProbes, DatabaseTyped
<1>5. CASE ResolveManyActions(w)
  BY <1>5, <1>0, HaltTyped DEF ResolveManyActions, DatabaseTyped
<1>6. CASE ResolveInterruptedWrite(w)
  <2>1. step' \in [StepId -> StepStatus \cup {"absent"}]
    BY <1>6, RetriedTyped DEF ResolveInterruptedWrite, StepStatus
  <2> QED
    BY <1>6, <2>1, <1>0, HaltTyped, RetriedTyped
    DEF ResolveInterruptedWrite, DatabaseTyped
<1>7. CASE ResolveWaiting(w)
  <2>1. PICK s \in ScannedIn(Present, "waiting_approval") :
          Rebuild(w, [FreshCursor EXCEPT !.node = "pause", !.pending = s])
    BY <1>7 DEF ResolveWaiting
  <2>2. [FreshCursor EXCEPT !.node = "pause", !.pending = s] \in Cursor
    BY <2>1, FreshCursorTyped DEF Cursor, Node, ScannedIn, Present
  <2>3. DrivesTyped'
    BY <1>7, <2>1, <2>2, RebuildTyped DEF ResolveWaiting, DrivesTyped
  <2>4. SessionsTyped'
    BY <1>7, AppendEventTyped DEF ResolveWaiting
  <2>5. status' \in RunStatus
    BY <1>7 DEF ResolveWaiting, SetRun, DatabaseTyped, RunStatus
  <2> QED
    BY <1>7, <2>3, <2>4, <2>5, <1>0, RetriedTyped
    DEF ResolveWaiting, Rescan, Scanned, DatabaseTyped
<1>8. CASE ResolveApproved(w)
  <2>1. PICK s \in ScannedIn(ActionSteps, "approved") :
          Rebuild(w, [FreshCursor EXCEPT !.node = "pause", !.pending = s])
    BY <1>8 DEF ResolveApproved
  <2>2. [FreshCursor EXCEPT !.node = "pause", !.pending = s] \in Cursor
    BY <2>1, FreshCursorTyped DEF Cursor, Node, ScannedIn, ActionSteps, Present
  <2>3. DrivesTyped'
    BY <1>8, <2>1, <2>2, RebuildTyped DEF ResolveApproved, DrivesTyped
  <2>4. SessionsTyped'
    BY <1>8, AppendEventTyped DEF ResolveApproved
  <2> QED
    BY <1>8, <2>3, <2>4, <1>0, RetriedTyped, BecomeRunningTyped
    DEF ResolveApproved, Rescan, Scanned, DatabaseTyped
<1>9. CASE ResolveProposed(w)
  <2>1. [FreshCursor EXCEPT !.node = "policy",
                            !.loops = Cardinality(ActionSteps)] \in Cursor
    BY FreshCursorTyped, LoopsTyped DEF Cursor, Node
  <2>2. DrivesTyped'
    BY <1>9, <2>1, RebuildTyped DEF ResolveProposed, DrivesTyped
  <2>3. SessionsTyped'
    BY <1>9, AppendEventTyped DEF ResolveProposed
  <2> QED
    BY <1>9, <2>2, <2>3, <1>0, RetriedTyped, BecomeRunningTyped
    DEF ResolveProposed, Rescan, Scanned, DatabaseTyped
<1>10. CASE ResolvePostAction(w)
  BY <1>10, <1>0, HaltTyped, RetriedTyped
  DEF ResolvePostAction, Rescan, Scanned, DatabaseTyped
<1>11. CASE ResolveNoAction(w)
  <2>1. DrivesTyped'
    BY <1>11, MoveToTyped, ResumeTyped, FreshCursorTyped
    DEF ResolveNoAction, DrivesTyped
  <2>2. SessionsTyped'
    BY <1>11, AppendEventTyped DEF ResolveNoAction, SessionsTyped, TxnShape
  <2> QED
    BY <1>11, <2>1, <2>2, <1>0, RetriedTyped, BecomeRunningTyped
    DEF ResolveNoAction, Rescan, Scanned, DatabaseTyped
<1>12. CASE WriteBoundary(w)
  <2>1. drive[w].cur \in Cursor
    BY DEF DrivesTyped, Drive
  <2>2. ckpt' \in Cursor \cup {None}
    BY <1>12, <2>1 DEF WriteBoundary
  <2>3. ASSUME drive[w].cur.node = "pause"
        PROVE  DrivesTyped'
    <3>1. LeavePause(w, drive[w].cur)
      BY <1>12, <2>3 DEF WriteBoundary
    <3> QED
      BY <2>1, <2>2, <3>1, LeavePauseTyped
  <2>4. ASSUME drive[w].cur.node # "pause"
        PROVE  DrivesTyped'
    <3> DEFINE d == [drive[w] EXCEPT !.pc = "graph", !.saved = TRUE]
    <3>1. d \in Drive /\ WorkingOn(d)
      BY DEF DrivesTyped, Drive, Phase, WorkingOn
    <3>2. drive' = [drive EXCEPT ![w] = d]
      BY <1>12, <2>4 DEF WriteBoundary, DrivesTyped, Drive
    <3> QED
      BY <2>2, <3>1, <3>2, DriveStepTyped
  <2>5. DrivesTyped'
    BY <2>3, <2>4
  <2> QED
    BY <1>12, <2>5, OnlyDrivesChange DEF WriteBoundary
<1> QED
  BY <1>1, <1>2, <1>4, <1>5, <1>6, <1>7, <1>8, <1>9, <1>10, <1>11, <1>12
  DEF ResolveStep

\* A step of the graph leaves the lease and the host alone; what remains to be
\* shown is the type of what it does change.
LEMMA GraphStepTyped ==
  ASSUME Typed, SessionsTyped', DrivesTyped', status' \in RunStatus,
         step' \in [StepId -> StepStatus \cup {"absent"}],
         note' \in [Plan -> {"none", "pending", "reviewed"}],
         consent' \subseteq Plan,
         UNCHANGED <<cancel, lease, intent, remote, launches, silent>>
  PROVE  Typed'
  BY DEF Typed, DatabaseTyped

\* What a worker holds, and the cursor in it.
LEMMA CursorTyped ==
  ASSUME DrivesTyped, NEW w \in Worker
  PROVE  /\ drive[w] \in Drive
         /\ drive[w].cur \in Cursor
  BY DEF DrivesTyped, Drive

\* The planner's and the policy's moves.
LEMMA PlannedTyped ==
  ASSUME DrivesTyped, NEW w \in Worker, NEW more \in BOOLEAN, Planned(w, more),
         ckpt' = ckpt
  PROVE  DrivesTyped'
<1>1. [drive[w].cur EXCEPT !.node = "policy", !.more = more] \in Cursor
  BY CursorTyped DEF Cursor, Node
<1> QED
  BY <1>1, MoveToTyped DEF Planned, DrivesTyped

\* A move to the execute node with step s pending, or none.
LEMMA ToExecuteTyped ==
  ASSUME DrivesTyped, NEW w \in Worker, NEW s \in StepId \cup {None},
         ToExecute(w, s), ckpt' = ckpt
  PROVE  DrivesTyped'
<1>1. [drive[w].cur EXCEPT !.node = "execute", !.pending = s, !.skip = FALSE]
        \in Cursor
  BY CursorTyped DEF Cursor, Node
<1> QED
  BY <1>1, MoveToTyped DEF ToExecute, DrivesTyped

\* A move to the pause node with step s pending.
LEMMA ToPauseTyped ==
  ASSUME DrivesTyped, NEW w \in Worker, NEW s \in StepId, ToPause(w, s),
         ckpt' = ckpt
  PROVE  DrivesTyped'
<1>1. [drive[w].cur EXCEPT !.node = "pause", !.pending = s, !.skip = FALSE]
        \in Cursor
  BY CursorTyped DEF Cursor, Node
<1> QED
  BY <1>1, MoveToTyped DEF ToPause, DrivesTyped

\* The plan node: proposals, the finish, and the planner's failure.
LEMMA PlanStepTyped ==
  ASSUME Typed, NEW w \in Worker, PlanStep(w)
  PROVE  Typed'
<1> USE DEF Typed
<1>1. ASSUME NEW q \in Probe, ProposeProbe(w, q)
      PROVE  Typed'
  <2>1. SessionsTyped' /\ DrivesTyped'
    BY <1>1, AppendEventTyped, PlannedTyped DEF ProposeProbe
  <2> QED
    BY <1>1, <2>1, GraphStepTyped
    DEF ProposeProbe, DatabaseTyped, StepStatus, ghosts
<1>2. ASSUME NEW q \in Verification, ProposeVerification(w, q)
      PROVE  Typed'
  <2>1. SessionsTyped' /\ DrivesTyped'
    BY <1>2, AppendEventTyped, PlannedTyped DEF ProposeVerification
  <2> QED
    BY <1>2, <2>1, GraphStepTyped
    DEF ProposeVerification, DatabaseTyped, StepStatus, ghosts
<1>3. ASSUME NEW p \in Plan, ProposePlan(w, p)
      PROVE  Typed'
  <2>1. SessionsTyped' /\ DrivesTyped'
    BY <1>3, AppendEventTyped, PlannedTyped DEF ProposePlan
  <2>2. status' \in RunStatus
    BY <1>3 DEF ProposePlan, DatabaseTyped, SetRun, RunStatus
  <2> QED
    BY <1>3, <2>1, <2>2, GraphStepTyped
    DEF ProposePlan, DatabaseTyped, StepStatus
<1>4. CASE Finish(w)
  <2>1. SessionsTyped' /\ DrivesTyped'
    BY <1>4, AppendEventTyped, PlannedTyped DEF Finish
  <2> QED
    BY <1>4, <2>1, GraphStepTyped DEF Finish, DatabaseTyped, dbVars, ghosts
<1>5. CASE PlannerFails(w)
  BY <1>5, FailRunTyped DEF PlannerFails
<1> QED
  BY <1>1, <1>2, <1>3, <1>4, <1>5 DEF PlanStep

\* The policy node, the guardian's review and the pause.
LEMMA PolicyStepTyped ==
  ASSUME Typed, NEW w \in Worker, PolicyStep(w)
  PROVE  Typed'
<1> USE DEF Typed
<1>1. CASE PolicyAllow(w)
  <2>1. PICK s \in Proposed : SetStep(s, "approved") /\ ToExecute(w, s)
    BY <1>1 DEF PolicyAllow
  <2>2. s \in StepId
    BY <2>1 DEF Proposed, In, StepId
  <2>3. SessionsTyped' /\ DrivesTyped'
    BY <1>1, <2>1, <2>2, AppendEventTyped, ToExecuteTyped DEF PolicyAllow
  <2> QED
    BY <1>1, <2>1, <2>3, SetStepTyped, GraphStepTyped
    DEF PolicyAllow, DatabaseTyped, ghosts
<1>2. CASE PolicyNothing(w)
  BY <1>2, ToExecuteTyped, OnlyDrivesChange DEF PolicyNothing
<1>3. CASE PolicyAuthorised(w)
  <2>1. PICK p \in OpenPlans : ToExecute(w, p)
    BY <1>3 DEF PolicyAuthorised
  <2>2. p \in StepId
    BY DEF OpenPlans, StepId
  <2> QED
    BY <1>3, <2>1, <2>2, ToExecuteTyped, OnlyDrivesChange DEF PolicyAuthorised
<1>4. CASE PolicyAsk(w)
  <2>1. PICK p \in OpenPlans : ToPause(w, p)
    BY <1>4 DEF PolicyAsk
  <2>2. p \in StepId
    BY DEF OpenPlans, StepId
  <2> QED
    BY <1>4, <2>1, <2>2, ToPauseTyped, OnlyDrivesChange DEF PolicyAsk
<1>5. CASE GuardianClaim(w)
  <2>1. PICK p \in OpenPlans :
          /\ SetStep(p, "running")
          /\ note' = [note EXCEPT ![p] = "pending"]
          /\ drive' = [drive EXCEPT ![w].pc = "review", ![w].at = p]
    BY <1>5 DEF GuardianClaim
  <2> DEFINE d == [drive[w] EXCEPT !.pc = "review", !.at = p]
  <2>2. d \in Drive /\ WorkingOn(d)
    BY CursorTyped DEF Drive, Phase, WorkingOn, OpenPlans, StepId
  <2>3. drive' = [drive EXCEPT ![w] = d]
    BY <2>1 DEF DrivesTyped, Drive
  <2>4. DrivesTyped'
    BY <1>5, <2>2, <2>3, DriveStepTyped DEF GuardianClaim, DrivesTyped
  <2>5. note' \in [Plan -> {"none", "pending", "reviewed"}]
    BY <2>1 DEF DatabaseTyped
  <2> QED
    BY <1>5, <2>1, <2>4, <2>5, SetStepTyped, GraphStepTyped
    DEF GuardianClaim, DatabaseTyped, SessionsTyped, TxnShape, ghosts
<1>6. ASSUME NEW verdict \in Verdicts,
             GuardianAnswer(w, verdict)
      PROVE  Typed'
  <2> DEFINE p == drive[w].at
  <2>1. p \in Plan /\ p \in StepId
    BY <1>6 DEF GuardianAnswer, Reviewing, DrivesTyped, DriveShape, WorkingOn,
                StepId
  <2>2. \/ ToExecute(w, p)
        \/ ToExecute(w, None)
        \/ ToPause(w, p)
    BY <1>6 DEF GuardianAnswer
  <2>3. SessionsTyped' /\ DrivesTyped'
    BY <1>6, <2>1, <2>2, AppendEventTyped, ToExecuteTyped, ToPauseTyped
    DEF GuardianAnswer
  <2>4. step' \in [StepId -> StepStatus \cup {"absent"}]
    BY <1>6, SetStepTyped DEF GuardianAnswer
  <2>5. status' \in RunStatus
    BY <1>6 DEF GuardianAnswer, SetRun, RunStatus, DatabaseTyped
  <2>6. note' \in [Plan -> {"none", "pending", "reviewed"}]
    BY <1>6 DEF GuardianAnswer, DatabaseTyped
  <2>7. consent' \subseteq Plan
    BY <1>6, <2>1 DEF GuardianAnswer, DatabaseTyped
  <2> QED
    BY <1>6, <2>3, <2>4, <2>5, <2>6, <2>7, GraphStepTyped DEF GuardianAnswer
<1>7. CASE GuardianTooLate(w)
  <2>1. drive[w].at \in StepId
    BY <1>7 DEF GuardianTooLate, Reviewing, DrivesTyped, DriveShape, WorkingOn,
                StepId
  <2> QED
    BY <1>7, <2>1, ToPauseTyped, OnlyDrivesChange DEF GuardianTooLate
<1>8. CASE PauseCheck(w)
  <2> DEFINE d == [drive[w] EXCEPT !.cur.node = "end"]
  <2>1. drive' = [drive EXCEPT ![w] = d] \/ LeavePause(w, drive[w].cur)
    BY <1>8 DEF PauseCheck, DrivesTyped, Drive
  <2>2. d \in Drive /\ WorkingOn(d)
    BY <1>8, CursorTyped
    DEF PauseCheck, AtNode, Drive, Cursor, Node, WorkingOn
  <2>3. DrivesTyped'
    BY <1>8, <2>1, <2>2, CursorTyped, DriveStepTyped, LeavePauseTyped
    DEF PauseCheck, DrivesTyped
  <2> QED
    BY <1>8, <2>3, OnlyDrivesChange DEF PauseCheck
<1>9. CASE Settle(w)
  <2>1. DrivesTyped'
    BY <1>9, StopTyped DEF Settle, DrivesTyped
  <2> QED
    BY <1>9, <2>1 DEF Settle, DatabaseTyped, SessionsTyped, TxnShape, SetRun,
                      RunStatus, ClearClaim, NoLease, ghosts
<1> QED
  BY <1>1, <1>2, <1>3, <1>4, <1>5, <1>6, <1>7, <1>8, <1>9 DEF PolicyStep

\* A move to the decide node.
LEMMA ToDecideTyped ==
  ASSUME DrivesTyped, NEW w \in Worker, ToDecide(w), ckpt' = ckpt
  PROVE  DrivesTyped'
<1>1. [drive[w].cur EXCEPT !.node = "decide"] \in Cursor
  BY CursorTyped DEF Cursor, Node
<1> QED
  BY <1>1, MoveToTyped DEF ToDecide, DrivesTyped

\* A worker that moves on to phase pc and works on x.
LEMMA WorkOnTyped ==
  ASSUME DrivesTyped, NEW w \in Worker, NEW pc \in Phase, NEW x,
         x \in StepId \cup (Plan \X (1 .. PlanLen + 1)),
         WorkingOn([drive[w] EXCEPT !.pc = pc, !.at = x]),
         drive' = [drive EXCEPT ![w] = [drive[w] EXCEPT !.pc = pc, !.at = x]],
         ckpt' = ckpt
  PROVE  DrivesTyped'
<1>1. [drive[w] EXCEPT !.pc = pc, !.at = x] \in Drive
  BY CursorTyped DEF Drive
<1> QED
  BY <1>1, DriveStepTyped DEF DrivesTyped

\* The execute node, up to what it hands to the executor.
LEMMA ExecuteNodeStepTyped ==
  ASSUME Typed, NEW w \in Worker, ExecuteNodeStep(w)
  PROVE  Typed'
<1> USE DEF Typed
<1>0. drive[w] \in Drive /\ drive[w].cur.pending \in StepId \cup {None}
  BY CursorTyped DEF Cursor
<1>1. CASE SkipExecute(w)
  BY <1>1, ToDecideTyped, OnlyDrivesChange DEF SkipExecute
<1>2. CASE ExecuteStep(w)
  <2> DEFINE x == drive[w].cur.pending
             d == [drive[w] EXCEPT !.pc = "begin", !.at = x]
  <2>1. x \in StepId /\ x \notin Plan
    BY <1>0, <1>2 DEF ExecuteStep, WillExecute, Target
  <2>2. WorkingOn(d)
    BY <1>0, <2>1 DEF WorkingOn, Drive
  <2>3. drive' = [drive EXCEPT ![w] = d]
    BY <1>2 DEF ExecuteStep, Target, DrivesTyped, Drive
  <2>4. DrivesTyped'
    BY <1>2, <2>1, <2>2, <2>3, WorkOnTyped DEF ExecuteStep, Phase
  <2> QED
    BY <1>2, <2>4, OnlyDrivesChange DEF ExecuteStep
<1>3. CASE InvalidatePlan(w)
  <2>1. SessionsTyped' /\ DrivesTyped'
    BY <1>3, AppendEventTyped, ToDecideTyped DEF InvalidatePlan
  <2>2. note' \in [Plan -> {"none", "pending", "reviewed"}]
    BY <1>3 DEF InvalidatePlan, DatabaseTyped
  <2> QED
    BY <1>3, <2>1, <2>2, SetStepTyped, GraphStepTyped
    DEF InvalidatePlan, DatabaseTyped, ghosts
<1>4. CASE StartPlan(w)
  <2> DEFINE x == <<Target(w), 1>>
             d == [drive[w] EXCEPT !.pc = "expand", !.at = x]
  <2>1. x \in Plan \X (1 .. PlanLen + 1) /\ drive[w].cur.pending \in Plan
    BY <1>4, ConstantsAssumption DEF StartPlan, Target
  <2>2. WorkingOn(d)
    BY <1>0, <2>1 DEF WorkingOn, Drive
  <2>3. drive' = [drive EXCEPT ![w] = d]
    BY <1>4 DEF StartPlan, DrivesTyped, Drive
  <2>4. DrivesTyped'
    BY <1>4, <2>1, <2>2, <2>3, WorkOnTyped DEF StartPlan, Phase
  <2> QED
    BY <1>4, <2>4, GraphStepTyped
    DEF StartPlan, DatabaseTyped, SessionsTyped, TxnShape, StepStatus, ghosts
<1>5. CASE ExpandAction(w)
  <2> DEFINE s == drive[w].at
  <2>1. /\ drive[w].pc = "expand"
        /\ drive[w].cur.pending \in Plan
        /\ s \in Plan \X (1 .. PlanLen + 1)
    BY <1>5 DEF ExpandAction, Expanding, DrivesTyped, DriveShape, WorkingOn
  <2>2. s[1] \in Plan /\ s[2] \in 1 .. PlanLen /\ s = <<s[1], s[2]>>
    BY <1>5, <2>1, ConstantsAssumption DEF ExpandAction, HasAction
  <2>3. s \in PlanAction
    BY <2>2 DEF PlanAction
  <2>4. \/ drive' = [drive EXCEPT ![w] = [drive[w] EXCEPT !.pc = "begin",
                                                          !.at = s]]
        \/ drive' = [drive EXCEPT ![w] =
                       [drive[w] EXCEPT !.pc = "expand",
                                        !.at = <<s[1], s[2] + 1>>]]
    <3>1. \/ drive' = [drive EXCEPT ![w].pc = "begin"]
          \/ drive' = [drive EXCEPT ![w].at = <<s[1], s[2] + 1>>]
      BY <1>5 DEF ExpandAction, DrivesTyped
    <3>2. /\ [drive[w] EXCEPT !.pc = "begin"] =
                [drive[w] EXCEPT !.pc = "begin", !.at = s]
          /\ [drive[w] EXCEPT !.at = <<s[1], s[2] + 1>>] =
                [drive[w] EXCEPT !.pc = "expand", !.at = <<s[1], s[2] + 1>>]
      BY <1>0, <2>1 DEF Drive
    <3> QED
      BY <3>1, <3>2
  <2>5. WorkingOn([drive[w] EXCEPT !.pc = "begin", !.at = s])
    BY <1>0, <2>1, <2>3 DEF WorkingOn, Drive
  <2>6. <<s[1], s[2] + 1>> \in Plan \X (1 .. PlanLen + 1)
    BY <2>2, ConstantsAssumption
  <2>7. WorkingOn([drive[w] EXCEPT !.pc = "expand", !.at = <<s[1], s[2] + 1>>])
    BY <1>0, <2>1, <2>6 DEF WorkingOn, Drive
  <2>8. DrivesTyped'
    BY <1>5, <2>1, <2>4, <2>5, <2>6, <2>7, WorkOnTyped DEF ExpandAction, Phase
  <2>9. SessionsTyped'
    BY <1>5, AppendEventTyped DEF ExpandAction, SessionsTyped, TxnShape
  <2>10. step' \in [StepId -> StepStatus \cup {"absent"}]
    BY <1>5 DEF ExpandAction, DatabaseTyped, StepStatus
  <2> QED
    BY <1>5, <2>8, <2>9, <2>10, GraphStepTyped
    DEF ExpandAction, DatabaseTyped, ghosts
<1>6. CASE FailPlan(w)
  <2>1. DrivesTyped'
    BY <1>6, ToDecideTyped DEF FailPlan
  <2>2. step' \in [StepId -> StepStatus \cup {"absent"}]
    BY <1>6, SetStepTyped DEF FailPlan, DatabaseTyped
  <2> QED
    BY <1>6, <2>1, <2>2, GraphStepTyped
    DEF FailPlan, DatabaseTyped, SessionsTyped, TxnShape, ghosts
<1>7. CASE CompletePlan(w)
  <2>1. SessionsTyped' /\ DrivesTyped'
    BY <1>7, AppendEventTyped, ToDecideTyped DEF CompletePlan
  <2> QED
    BY <1>7, <2>1, SetStepTyped, GraphStepTyped
    DEF CompletePlan, DatabaseTyped, ghosts
<1> QED
  BY <1>1, <1>2, <1>3, <1>4, <1>5, <1>6, <1>7 DEF ExecuteNodeStep

\* What recording an outcome does to the sessions, the worker and the step.
LEMMA OutcomeTyped ==
  ASSUME Typed, NEW w \in Worker, NEW pc \in {"launch", "remote"}, NEW to,
         Outcome(w, pc, to), ckpt' = ckpt
  PROVE  /\ SessionsTyped'
         /\ DrivesTyped'
         /\ step' \in [StepId -> StepStatus \cup {"absent"}]
<1> USE DEF Typed
<1>1. SessionsTyped' /\ step' \in [StepId -> StepStatus \cup {"absent"}]
  BY AppendEventTyped, SetStepTyped DEF Outcome
<1>2. CASE drive[w].cur.pending \notin Plan
  BY <1>1, <1>2, ToDecideTyped DEF Outcome, AfterStep
<1>3. CASE drive[w].cur.pending \in Plan
  <2> DEFINE s == drive[w].at
             ok == to = "succeeded"
             x == IF ok THEN <<s[1], s[2] + 1>> ELSE s
  <2>1. s \in Plan \X (1 .. PlanLen) /\ drive[w] \in Drive
    BY <1>3, CursorTyped
    DEF Outcome, DrivesTyped, DriveShape, WorkingOn, PlanAction
  <2>2. s[1] \in Plan /\ s[2] \in 1 .. PlanLen /\ s = <<s[1], s[2]>>
    BY <2>1
  <2>3. x \in Plan \X (1 .. PlanLen + 1)
    BY <2>2, ConstantsAssumption
  <2>4. WorkingOn([drive[w] EXCEPT !.pc = "expand", !.at = x])
    BY <1>3, <2>1, <2>3 DEF WorkingOn, Drive
  <2>5. drive' = [drive EXCEPT ![w] = [drive[w] EXCEPT !.pc = "expand",
                                                       !.at = x]]
    BY <1>3, <2>1 DEF Outcome, AfterStep, DrivesTyped, Drive
  <2> QED
    BY <1>1, <2>3, <2>4, <2>5, WorkOnTyped DEF Phase
<1> QED
  BY <1>2, <1>3

\* The executor: the intent, the launch, and the outcome it records.
LEMMA ExecutorStepTyped ==
  ASSUME Typed, NEW w \in Worker, ExecutorStep(w)
  PROVE  Typed'
<1> USE DEF Typed
<1>0. drive[w] \in Drive
  BY CursorTyped
<1>1. CASE BeginStep(w)
  <2> DEFINE d == [drive[w] EXCEPT !.pc = "launch"]
  <2>1. d \in Drive /\ WorkingOn(d)
    BY <1>0, <1>1
    DEF BeginStep, Drive, Phase, WorkingOn, DrivesTyped, DriveShape
  <2>2. DrivesTyped'
    BY <1>1, <2>1, DriveStepTyped DEF BeginStep, DrivesTyped
  <2>3. SessionsTyped'
    BY <1>1, AppendEventTyped DEF BeginStep
  <2>4. intent' \subseteq WriteStep
    BY <1>1 DEF BeginStep, WriteIntent, DatabaseTyped
  <2> QED
    BY <1>1, <2>2, <2>3, <2>4
    DEF BeginStep, DatabaseTyped, RunStatus, StepStatus, ghosts
<1>2. CASE Launch(w)
  <2> DEFINE d == [drive[w] EXCEPT !.pc = "remote"]
  <2>1. d \in Drive /\ WorkingOn(d)
    BY <1>0, <1>2
    DEF Launch, Drive, Phase, WorkingOn, DrivesTyped, DriveShape
  <2>2. DrivesTyped'
    BY <1>2, <2>1, DriveStepTyped DEF Launch, DrivesTyped
  <2> QED
    BY <1>2, <2>2 DEF Launch, DatabaseTyped, SessionsTyped, TxnShape, dbVars
<1>3. ASSUME NEW r \in {"error", "cancelled", "revoked"},
             RecordNotStarted(w, r)
      PROVE  Typed'
  <2>1. status' \in RunStatus
    BY <1>3 DEF RecordNotStarted, SetRun, RunStatus, DatabaseTyped
  <2> QED
    BY <1>3, <2>1, OutcomeTyped, GraphStepTyped
    DEF RecordNotStarted, DatabaseTyped, ghosts
<1>4. ASSUME NEW ok \in BOOLEAN, RecordExit(w, ok)
      PROVE  Typed'
  <2>1. SessionsTyped' /\ DrivesTyped'
        /\ step' \in [StepId -> StepStatus \cup {"absent"}]
    BY <1>4, OutcomeTyped DEF RecordExit
  <2>2. remote' \subseteq WriteStep /\ silent' \subseteq WriteStep
    BY <1>4 DEF RecordExit, DatabaseTyped
  <2> QED
    BY <1>4, <2>1, <2>2 DEF RecordExit, DatabaseTyped
<1>5. ASSUME NEW r, NEW stopped, RecordInterruptedWrite(w, r, stopped)
      PROVE  Typed'
  <2>1. SessionsTyped' /\ DrivesTyped'
        /\ step' \in [StepId -> StepStatus \cup {"absent"}]
    BY <1>5, OutcomeTyped DEF RecordInterruptedWrite
  <2> QED
    BY <1>5, <2>1
    DEF RecordInterruptedWrite, StopForPerson, SetRun, RunStatus,
        DatabaseTyped, ghosts
<1>6. ASSUME NEW r, NEW stopped, RecordInterruptedRead(w, r, stopped)
      PROVE  Typed'
  <2>1. SessionsTyped' /\ DrivesTyped'
        /\ step' \in [StepId -> StepStatus \cup {"absent"}]
    BY <1>6, OutcomeTyped DEF RecordInterruptedRead
  <2>2. status' \in RunStatus
    BY <1>6 DEF RecordInterruptedRead, StopForPerson, SetRun, RunStatus,
                DatabaseTyped
  <2> QED
    BY <1>6, <2>1, <2>2, GraphStepTyped
    DEF RecordInterruptedRead, DatabaseTyped, ghosts
<1> QED
  BY <1>1, <1>2, <1>3, <1>4, <1>5, <1>6 DEF ExecutorStep

\* The decide node and the end of a drive.
LEMMA EndStepTyped ==
  ASSUME Typed, NEW w \in Worker, EndStep(w)
  PROVE  Typed'
<1> USE DEF Typed
<1>1. CASE Decide(w)
  <2> DEFINE c == drive[w].cur
             done(why) == [c EXCEPT !.node = "end", !.loops = @ + 1,
                                    !.why = why, !.pending = None,
                                    !.skip = FALSE]
  <2>1. \E k \in {done("cancelled"), done("budget_exhausted"),
                  done("exhausted"),
                  [FreshCursor EXCEPT !.loops = c.loops + 1]} : MoveTo(w, k)
    BY <1>1 DEF Decide
  <2>2. c \in Cursor
    BY CursorTyped
  <2>3. \A why \in {"cancelled", "budget_exhausted", "exhausted"} :
          done(why) \in Cursor
    <3> SUFFICES ASSUME NEW why \in {"cancelled", "budget_exhausted",
                                     "exhausted"}
                 PROVE  done(why) \in Cursor
      OBVIOUS
    <3>1. c.loops + 1 \in Nat
      BY <2>2 DEF Cursor
    <3>2. [c EXCEPT !.node = "end", !.loops = c.loops + 1, !.why = why,
                    !.pending = None, !.skip = FALSE] \in Cursor
      BY <2>2, <3>1 DEF Cursor, Node
    <3> QED
      BY <3>2
  <2>4. [FreshCursor EXCEPT !.loops = c.loops + 1] \in Cursor
    BY <2>2, FreshCursorTyped DEF Cursor
  <2>5. DrivesTyped'
    BY <1>1, <2>1, <2>3, <2>4, MoveToTyped DEF Decide, DrivesTyped
  <2> QED
    BY <1>1, <2>5, OnlyDrivesChange DEF Decide
<1>2. CASE FinalizeAttention(w)
  <2>1. DrivesTyped'
    BY <1>2, StopTyped DEF FinalizeAttention, DrivesTyped
  <2> QED
    BY <1>2, <2>1 DEF FinalizeAttention, ClearClaim, NoLease, DatabaseTyped,
                      SessionsTyped, TxnShape, ghosts
<1>3. CASE FinalizeQueued(w)
  <2>1. DrivesTyped'
    BY <1>3, StopTyped DEF FinalizeQueued, DrivesTyped
  <2> QED
    BY <1>3, <2>1 DEF FinalizeQueued, ClearClaim, NoLease, DatabaseTyped,
                      SessionsTyped, TxnShape, ghosts
<1>4. CASE Finalize(w)
  <2>1. SessionsTyped' /\ DrivesTyped'
    BY <1>4, AppendEventTyped, StopTyped DEF Finalize, DrivesTyped
  <2>2. status' \in RunStatus
    BY <1>4 DEF Finalize, SetRun, RunStatus
  <2> QED
    BY <1>4, <2>1, <2>2
    DEF Finalize, ClearClaim, NoLease, DatabaseTyped, ghosts
<1> QED
  BY <1>1, <1>2, <1>3, <1>4 DEF EndStep

\* Everything a worker does.
LEMMA WorkerStepTyped ==
  ASSUME Typed, NEW w \in Worker, WorkerStep(w)
  PROVE  Typed'
<1>1. CASE SaveCheckpoint(w)
  <2> DEFINE d == [drive[w] EXCEPT !.saved = TRUE]
  <2>1. d \in Drive /\ WorkingOn(d)
    BY CursorTyped DEF Typed, DrivesTyped, DriveShape, WorkingOn, Drive
  <2>2. DrivesTyped'
    BY <1>1, <2>1, CursorTyped, DriveStepTyped DEF SaveCheckpoint, Typed
  <2> QED
    BY <1>1, <2>2, OnlyDrivesChange DEF SaveCheckpoint
<1>2. CASE DurationExhausted(w)
  <2>1. CASE FailRun(w)
    BY <2>1, FailRunTyped
  <2>2. CASE ~FailRun(w)
    <3>1. /\ ClearClaim /\ StopDriving(w)
          /\ UNCHANGED <<status, cancel, step, note, intent, txn, ckpt,
                         remote, ghosts>>
      BY <1>2, <2>2 DEF DurationExhausted
    <3>2. DrivesTyped'
      BY <3>1, StopTyped DEF Typed, DrivesTyped
    <3> QED
      BY <3>1, <3>2 DEF Typed, ClearClaim, NoLease, DatabaseTyped,
                        SessionsTyped, TxnShape, ghosts
  <2> QED
    BY <2>1, <2>2
<1>3. CASE AbandonDrive(w)
  <2>1. DrivesTyped'
    BY <1>3, StopTyped DEF AbandonDrive, Typed, DrivesTyped
  <2> QED
    BY <1>3, <2>1, OnlyDrivesChange DEF AbandonDrive
<1> QED
  BY <1>1, <1>2, <1>3, EnterStepTyped, ResolveStepTyped, PlanStepTyped,
     PolicyStepTyped, ExecuteNodeStepTyped, ExecutorStepTyped, EndStepTyped
  DEF WorkerStep

-----------------------------------------------------------------------------
\* A Run starts as a draft without steps, held by nobody.
LEMMA TypedInit == Init => Typed
<1> SUFFICES ASSUME Init PROVE Typed
  OBVIOUS
<1>1. DatabaseTyped
  <2>1. status \in RunStatus /\ cancel \in BOOLEAN
    BY DEF Init, RunStatus
  <2>2. lease \in [holder : Worker \cup {None}, live : BOOLEAN]
    BY DEF Init, NoLease
  <2>3. /\ step \in [StepId -> StepStatus \cup {"absent"}]
        /\ note \in [Plan -> {"none", "pending", "reviewed"}]
        /\ launches \in [WriteStep -> 0 .. 2]
    BY DEF Init
  <2> QED
    BY <2>1, <2>2, <2>3 DEF Init, DatabaseTyped
<1>2. SessionsTyped
  BY DEF Init, SessionsTyped, NoTxn, Txn, TxnShape, RunStatus
<1>3. DrivesTyped
  BY FreshCursorTyped
  DEF Init, DrivesTyped, Idle, Drive, Phase, DriveShape, WorkingOn
<1> QED
  BY <1>1, <1>2, <1>3 DEF Typed

\* Typed is inductive: every step of the system keeps it.
LEMMA TypedStep ==
  ASSUME Typed, [Next]_vars
  PROVE  Typed'
<1>1. CASE UNCHANGED vars
  BY <1>1 DEF vars, dbVars, ghosts, Typed, DatabaseTyped, SessionsTyped,
              TxnShape, DrivesTyped, DriveShape
<1>2. CASE Next
  BY <1>2, SessionStepTyped, RequestCancelTyped, EnvironmentTyped,
     WorkerStepTyped DEF Next
<1> QED
  BY <1>1, <1>2

\* Typed is an inductive invariant for every number of workers, sessions, probes,
\* plans and actions of a plan.
THEOREM TypedInvariant == Spec => []Typed
  BY TypedInit, TypedStep, PTL DEF Spec

\* Type correctness: the rows of the Run, its checkpoint and what workers and
\* sessions hold in memory keep their types.
THEOREM TypeCorrect == Spec => []TypeOK
<1>1. Typed => TypeOK
  BY DEF Typed, DatabaseTyped, SessionsTyped, DrivesTyped, TypeOK
<1> QED
  BY <1>1, TypedInvariant, PTL

-----------------------------------------------------------------------------
\* Terminal statuses of the Run.  The unlocked sessions are the danger: the key
\* is that whatever ends the Run appends an event, so a session that could still
\* commit would find a Run that has not ended (OpenTxnsMeetActiveRun).

StatusKept == /\ status \in TerminalRun => status' = status
              /\ OpenTxnsMeetActiveRun'

Active == Typed /\ OpenTxnsMeetActiveRun

\* The transition table refuses every transition out of a terminal status.
LEMMA LegalIsActive ==
  ASSUME NEW to, SetRun(to)
  PROVE  status \notin TerminalRun
  BY DEF SetRun, RunLegal, TerminalRun

\* A locked change that appends an event.
LEMMA EventStep ==
  ASSUME Active, AppendEvent,
         status' = status \/ status \notin TerminalRun
  PROVE  StatusKept
<1>1. \A s \in Session : txn'[s].fresh = FALSE
  BY DEF AppendEvent, Active, Typed, SessionsTyped, Txn
<1> QED
  BY <1>1 DEF StatusKept, OpenTxnsMeetActiveRun, Fresh

\* A change that touches neither the status nor the sessions.
LEMMA QuietStep ==
  ASSUME Active, status' = status, txn' = txn
  PROVE  StatusKept
  BY DEF Active, StatusKept, OpenTxnsMeetActiveRun, Fresh

\* A change between statuses that are not terminal.
LEMMA ActiveStep ==
  ASSUME status \notin TerminalRun, status' \notin TerminalRun
  PROVE  StatusKept
  BY DEF StatusKept, OpenTxnsMeetActiveRun

\* A session commits only while its read is fresh, so only while the Run is
\* active; one that has not read a status to change expires an approval.
LEMMA SessionStepKept ==
  ASSUME Active, NEW s \in Session, SessionStep(s)
  PROVE  StatusKept
<1> USE DEF Active
<1>0. ASSUME CommitWithEvent(s), status \notin TerminalRun
      PROVE  StatusKept
  <2>1. \A t \in Session : txn'[t].fresh = FALSE
    BY <1>0 DEF CommitWithEvent, Typed, SessionsTyped, Txn, NoTxn
  <2> QED
    BY <1>0, <2>1 DEF StatusKept, OpenTxnsMeetActiveRun, Fresh
<1>1. ASSUME NEW op, ReadDraft(s, op)
      PROVE  StatusKept
  BY <1>1, ActiveStep DEF ReadDraft, dbVars, TerminalRun
<1>2. CASE CommitDraft(s)
  <2>1. status \notin TerminalRun
    BY <1>2 DEF CommitDraft, OpenTxnsMeetActiveRun
  <2> QED
    BY <1>0, <1>2, <2>1 DEF CommitDraft
<1>3. ASSUME NEW p, NEW op, ReadDecision(s, p, op)
      PROVE  StatusKept
  BY <1>3, ActiveStep DEF ReadDecision, dbVars, TerminalRun
<1>4. CASE CommitDecision(s)
  <2>1. status \notin TerminalRun
    BY <1>4 DEF CommitDecision, OpenTxnsMeetActiveRun
  <2> QED
    BY <1>0, <1>4, <2>1 DEF CommitDecision
<1>5. ASSUME NEW p, ReadExpiry(s, p)
      PROVE  StatusKept
  <2>1. /\ status' = status
        /\ txn'[s].seen = status
        /\ \A t \in Session \ {s} : txn'[t] = txn[t]
        /\ txn'[s].op = "expire"
    BY <1>5 DEF ReadExpiry, dbVars, Typed, SessionsTyped
  <2> QED
    BY <2>1 DEF StatusKept, OpenTxnsMeetActiveRun, Fresh, TerminalRun
<1>6. CASE CommitExpiry(s)
  <2>1. status \notin TerminalRun
    BY <1>6 DEF CommitExpiry, OpenTxnsMeetActiveRun
  <2> QED
    BY <1>0, <1>6, <2>1 DEF CommitExpiry
<1>7. ASSUME txn' = [txn EXCEPT ![s] = NoTxn], status' = status
      PROVE  StatusKept
  <2>1. /\ txn'[s].op = "none"
        /\ \A t \in Session \ {s} : txn'[t] = txn[t]
    BY <1>7 DEF NoTxn, Typed, SessionsTyped
  <2> QED
    BY <1>7, <2>1 DEF StatusKept, OpenTxnsMeetActiveRun, Fresh
<1>8. CASE CommitStepExpiry(s) \/ Rollback(s)
  BY <1>7, <1>8 DEF CommitStepExpiry, Rollback, dbVars
<1> QED
  BY <1>1, <1>2, <1>3, <1>4, <1>5, <1>6, <1>8 DEF SessionStep

\* request_cancel appends an event whenever it changes the status.
LEMMA RequestCancelKept ==
  ASSUME Active, RequestCancel
  PROVE  StatusKept
  BY EventStep DEF RequestCancel

\* _fail_run gives way to a terminal status.
LEMMA FailRunKept ==
  ASSUME Active, NEW w \in Worker, FailRun(w)
  PROVE  StatusKept
  BY EventStep, QuietStep DEF FailRun

\* A claim finds an active Run; what refuses the Run obeys the table.
LEMMA EnterStepKept ==
  ASSUME Active, NEW w \in Worker, EnterStep(w)
  PROVE  StatusKept
<1>1. CASE Claim(w)
  BY <1>1, ActiveStep DEF Claim, Claimable, LeasedActive, TerminalRun
<1>2. CASE ConfirmCancel(w)
  BY <1>2, LegalIsActive, EventStep DEF ConfirmCancel
<1>3. CASE RefuseRun(w)
  BY <1>3, FailRunKept DEF RefuseRun
<1>4. CASE CheckpointUnavailable(w)
  BY <1>4, LegalIsActive, EventStep DEF CheckpointUnavailable
<1>5. CASE EnterPaused(w)
  BY <1>5, QuietStep DEF EnterPaused, dbVars
<1> QED
  BY <1>1, <1>2, <1>3, <1>4, <1>5 DEF EnterStep

\* Recovery makes a Run running from an active status only.
LEMMA BecomeRunningActive ==
  ASSUME BecomeRunning
  PROVE  status \notin TerminalRun /\ status' \notin TerminalRun
  BY LegalIsActive DEF BecomeRunning, SetRun, TerminalRun

\* Recovery either resumes an active Run or stops it with an event.
LEMMA ResolveStepKept ==
  ASSUME Active, NEW w \in Worker, ResolveStep(w)
  PROVE  StatusKept
<1>1. CASE ResolveFresh(w) \/ ResolveFinishedProbes(w) \/ ResolveApproved(w)
           \/ ResolveProposed(w) \/ ResolveNoAction(w)
  BY <1>1, BecomeRunningActive, ActiveStep
  DEF ResolveFresh, ResolveFinishedProbes, ResolveApproved, ResolveProposed,
      ResolveNoAction
<1>2. CASE ResolveResume(w) \/ WriteBoundary(w)
  BY <1>2, QuietStep DEF ResolveResume, WriteBoundary, dbVars
<1>3. CASE ResolveManyActions(w) \/ ResolveInterruptedWrite(w)
           \/ ResolvePostAction(w)
  BY <1>3, LegalIsActive, EventStep
  DEF ResolveManyActions, ResolveInterruptedWrite, ResolvePostAction, Halt
<1>4. CASE ResolveWaiting(w)
  BY <1>4, LegalIsActive, EventStep DEF ResolveWaiting
<1> QED
  BY <1>1, <1>2, <1>3, <1>4 DEF ResolveStep

\* The plan node appends an event to every step it proposes.
LEMMA PlanStepKept ==
  ASSUME Active, NEW w \in Worker, PlanStep(w)
  PROVE  StatusKept
<1>1. ASSUME NEW q, ProposeProbe(w, q) \/ ProposeVerification(w, q)
      PROVE  StatusKept
  BY <1>1, EventStep DEF ProposeProbe, ProposeVerification
<1>2. ASSUME NEW p, ProposePlan(w, p)
      PROVE  StatusKept
  BY <1>2, LegalIsActive, EventStep DEF ProposePlan
<1>3. CASE Finish(w)
  BY <1>3, EventStep DEF Finish, dbVars
<1>4. CASE PlannerFails(w)
  BY <1>4, FailRunKept DEF PlannerFails
<1> QED
  BY <1>1, <1>2, <1>3, <1>4 DEF PlanStep

\* The guardian's verdict, the only change of status here, obeys the table.
LEMMA PolicyStepKept ==
  ASSUME Active, NEW w \in Worker, PolicyStep(w)
  PROVE  StatusKept
<1>1. CASE PolicyAllow(w)
  BY <1>1, EventStep DEF PolicyAllow
<1>2. CASE PolicyNothing(w) \/ PolicyAuthorised(w) \/ PolicyAsk(w)
           \/ GuardianTooLate(w) \/ PauseCheck(w)
  BY <1>2, QuietStep DEF PolicyNothing, PolicyAuthorised, PolicyAsk,
                         GuardianTooLate, PauseCheck, dbVars
<1>3. CASE GuardianClaim(w)
  BY <1>3, QuietStep DEF GuardianClaim
<1>4. ASSUME NEW verdict, GuardianAnswer(w, verdict)
      PROVE  StatusKept
  BY <1>4, LegalIsActive, EventStep DEF GuardianAnswer
<1>5. CASE Settle(w)
  <2>1. CASE status = "recovering"
    BY <1>5, <2>1, ActiveStep DEF Settle, SetRun, TerminalRun
  <2>2. CASE status # "recovering"
    BY <1>5, <2>2, QuietStep DEF Settle
  <2> QED
    BY <2>1, <2>2
<1> QED
  BY <1>1, <1>2, <1>3, <1>4, <1>5 DEF PolicyStep

\* Executing a plan never changes the status of the Run.
LEMMA ExecuteNodeStepKept ==
  ASSUME Active, NEW w \in Worker, ExecuteNodeStep(w)
  PROVE  StatusKept
<1>1. CASE SkipExecute(w) \/ ExecuteStep(w)
  BY <1>1, QuietStep DEF SkipExecute, ExecuteStep, dbVars
<1>2. CASE InvalidatePlan(w) \/ CompletePlan(w)
  BY <1>2, EventStep DEF InvalidatePlan, CompletePlan
<1>3. CASE StartPlan(w) \/ FailPlan(w)
  BY <1>3, QuietStep DEF StartPlan, FailPlan
<1>4. CASE ExpandAction(w)
  BY <1>4, EventStep, QuietStep DEF ExpandAction
<1> QED
  BY <1>1, <1>2, <1>3, <1>4 DEF ExecuteNodeStep

\* An outcome that stops the Run stops an active one, with an event.
LEMMA ExecutorStepKept ==
  ASSUME Active, NEW w \in Worker, ExecutorStep(w)
  PROVE  StatusKept
<1>1. CASE BeginStep(w)
  BY <1>1, ActiveStep DEF BeginStep, MayBegin, TerminalRun
<1>2. CASE Launch(w)
  BY <1>2, QuietStep DEF Launch, dbVars
<1>3. ASSUME NEW r, RecordNotStarted(w, r)
      PROVE  StatusKept
  BY <1>3, LegalIsActive, EventStep DEF RecordNotStarted, Outcome
<1>4. ASSUME NEW ok, RecordExit(w, ok)
      PROVE  StatusKept
  BY <1>4, EventStep DEF RecordExit, Outcome
<1>5. ASSUME NEW r, NEW stopped, RecordInterruptedWrite(w, r, stopped)
      PROVE  StatusKept
  BY <1>5, LegalIsActive, EventStep
  DEF RecordInterruptedWrite, StopForPerson, Outcome
<1>6. ASSUME NEW r, NEW stopped, RecordInterruptedRead(w, r, stopped)
      PROVE  StatusKept
  BY <1>6, LegalIsActive, EventStep
  DEF RecordInterruptedRead, StopForPerson, Outcome
<1> QED
  BY <1>1, <1>2, <1>3, <1>4, <1>5, <1>6 DEF ExecutorStep

\* The end of a drive completes an active Run, with an event.
LEMMA EndStepKept ==
  ASSUME Active, NEW w \in Worker, EndStep(w)
  PROVE  StatusKept
<1>1. CASE Decide(w) \/ FinalizeAttention(w) \/ FinalizeQueued(w)
  BY <1>1, QuietStep DEF Decide, FinalizeAttention, FinalizeQueued, dbVars
<1>2. CASE Finalize(w)
  BY <1>2, LegalIsActive, EventStep DEF Finalize
<1> QED
  BY <1>1, <1>2 DEF EndStep

\* Everything a worker does.
LEMMA WorkerStepKept ==
  ASSUME Active, NEW w \in Worker, WorkerStep(w)
  PROVE  StatusKept
<1>1. CASE SaveCheckpoint(w) \/ AbandonDrive(w)
  BY <1>1, QuietStep DEF SaveCheckpoint, AbandonDrive, dbVars
<1>2. CASE DurationExhausted(w)
  BY <1>2, QuietStep, FailRunKept DEF DurationExhausted
<1> QED
  BY <1>1, <1>2, EnterStepKept, ResolveStepKept, PlanStepKept, PolicyStepKept,
     ExecuteNodeStepKept, ExecutorStepKept, EndStepKept DEF WorkerStep

\* Every step of the system keeps a terminal status, and keeps every session
\* that could still commit away from a terminal Run.
LEMMA NextKept ==
  ASSUME Active, [Next]_vars
  PROVE  StatusKept
<1>1. CASE UNCHANGED vars
  BY <1>1, QuietStep DEF vars, dbVars
<1>2. CASE Environment
  BY <1>2, QuietStep
  DEF Environment, ExpireLease, LoseCheckpoint, RemoteExit, dbVars
<1> QED
  BY <1>1, <1>2, SessionStepKept, RequestCancelKept, WorkerStepKept DEF Next

\* A session that can still commit a change of status never meets a Run that has
\* ended: the invariant that makes the unlocked commits harmless.
THEOREM OpenTxnsMeetActiveRunInvariant == Spec => []OpenTxnsMeetActiveRun
<1>1. Init => OpenTxnsMeetActiveRun
  BY DEF Init, OpenTxnsMeetActiveRun, TerminalRun
<1>2. Typed /\ OpenTxnsMeetActiveRun /\ [Next]_vars => OpenTxnsMeetActiveRun'
  BY NextKept DEF Active, StatusKept
<1> QED
  BY <1>1, <1>2, TypedInvariant, PTL DEF Spec

\* No session, worker, sweep or stale transaction ever moves a Run out of a
\* terminal status.
THEOREM TerminalIsAbsorbing == Spec => TerminalAbsorbing
<1>1. Typed /\ OpenTxnsMeetActiveRun /\ [Next]_vars =>
        [(status \in TerminalRun) => (status' = status)]_vars
  BY NextKept DEF Active, StatusKept
<1> QED
  BY <1>1, TypedInvariant, OpenTxnsMeetActiveRunInvariant, PTL
  DEF Spec, TerminalAbsorbing
=============================================================================
