------------------------------ MODULE RunLease ------------------------------
(***************************************************************************)
(* The lease of one autonomous Run and the delivery of its Celery task:    *)
(* lease.py (claim, heartbeat, release, scan) and worker.py (delivery,     *)
(* retry, periodic scan).  AutonomyRun abstracts all of it into a holder   *)
(* that may lose its lease at any time; what a drive does is abstracted    *)
(* here.                                                                   *)
(*                                                                         *)
(*  - Each statement of lease.py reads the clock in the worker and then    *)
(*    runs an UPDATE whose condition MySQL evaluates later, after any wait *)
(*    for the row lock.  It is a step that notes the clock and a step that *)
(*    runs.                                                                *)
(*  - Time is relative: lease.left is the expiry minus the present, an age *)
(*    is the present minus the clock a pending statement has read.  So     *)
(*    left + age is the expiry minus the statement's clock.                *)
(*  - The broker delivers at least once, may lose and may repeat.          *)
(***************************************************************************)
EXTENDS AutonomyStates, Integers, FiniteSets

CONSTANTS
  Worker,    \* prefork children that take tasks, one at a time
  Name,      \* worker identities
  Identity,  \* host name and pid of each worker, cut to the column's width
  Token,     \* lease tokens
  Ttl,       \* AI_AUTONOMY_LEASE_TTL_SECONDS
  MaxDelay,  \* bound: how long a statement may wait for its row
  MaxQueue,  \* bound: messages of this Run that dispatches may pile up
  MaxBeats,  \* bound: heartbeat statements on their way
  None

ASSUME LeaseAssumption ==
  /\ Identity \in [Worker -> Name]
  /\ None \notin Token \cup Name
  /\ Ttl \in Nat \ {0}
  /\ MaxDelay \in Nat /\ MaxQueue \in Nat /\ MaxBeats \in Nat

VARIABLES
  status,  \* t_ai_autonomous_run.status
  lease,   \* lease_owner, lease_token, and lease_expires_at minus the present
  task,    \* the task each worker has taken
  beats,   \* heartbeat statements that have read the clock and not run yet
  queue,   \* messages a worker can take
  later    \* retries whose countdown is running

vars == <<status, lease, task, beats, queue, later>>

-----------------------------------------------------------------------------
Age     == 0 .. MaxDelay
NoLease == [owner |-> None, token |-> None, left |-> 0]
Idle    == [pc |-> "idle", token |-> None, age |-> 0, lost |-> FALSE]

Lease == [owner : Name \cup {None}, token : Token \cup {None},
          left : -(MaxDelay + 1) .. Ttl]
Task  == [pc : {"idle", "claim", "asked", "drive", "release"},
          token : Token \cup {None}, age : Age, lost : BOOLEAN]
Beat  == [by : Worker, token : Token, age : Age]

Leased  == lease.owner # None
Live    == Leased /\ lease.left >= 0
Expired == Leased /\ lease.left < 0

\* The claim that w made is the one in the row.
OwnerOnly(w, t) == lease.owner = Identity[w] /\ lease.token # None
  \* mutant: a claim is told by its owner alone
IsClaim(w, t)   == lease.owner = Identity[w] /\ lease.token = t

\* The fence of every write of a drive, under the row lock (so the clock is
\* read when the condition is evaluated).
Holds(w) == /\ task[w].pc = "drive"
            /\ IsClaim(w, task[w].token)
            /\ Live

\* secrets.token_urlsafe: a token that nothing holds any more.
InUse == {lease.token} \cup {task[w].token : w \in Worker}
                       \cup {b.token : b \in beats}

\* send_task to the broker.  A dispatch that fails is logged and forgotten.
Room     == queue + later < MaxQueue
Send     == Room /\ queue' = queue + 1
Dispatch == Send \/ UNCHANGED queue

Init ==
  /\ status = "draft"
  /\ lease = NoLease
  /\ task = [w \in Worker |-> Idle]
  /\ beats = {}
  /\ queue = 0
  /\ later = 0

-----------------------------------------------------------------------------
\* Web sessions and the sweeper.  Each commits, then dispatches.

\* start_run, or a decision on a parked Run, whoever holds its lease.
Enqueue ==
  /\ status \in {"draft", "waiting_approval"}
  /\ status' = "queued"
  /\ Dispatch
  /\ UNCHANGED <<lease, task, beats, later>>

\* request_cancel: a Run nobody drives, or whose lease has expired, is
\* cancelled at once; a driven one is only asked to stop.
RequestCancel ==
  /\ status \notin TerminalRun
  /\ IF \/ status \notin {"running", "recovering"}
        \/ Expired
     THEN status' = "cancelled" /\ lease' = NoLease /\ UNCHANGED queue
     ELSE Dispatch /\ UNCHANGED <<status, lease>>
  /\ UNCHANGED <<task, beats, later>>

\* sweep_expired_runs takes the lease away, live or not.
Sweep ==
  /\ status \in {"draft", "waiting_approval"}
  /\ status' = "expired"
  /\ lease' = NoLease
  /\ UNCHANGED <<task, beats, queue, later>>

\* scan_recoverable, every thirty seconds: a Run that is queued, or active
\* under an expired lease.
QueuedOnly  == status = "queued"  \* mutant: expired leases are not scanned
Recoverable == status = "queued" \/ (status \in LeasedActive /\ Expired)

Scan ==
  /\ Recoverable
  /\ Send
  /\ UNCHANGED <<status, lease, task, beats, later>>

-----------------------------------------------------------------------------
\* The broker and the clock.

Lose ==
  /\ queue > 0
  /\ queue' = queue - 1
  /\ UNCHANGED <<status, lease, task, beats, later>>

\* A task that outlives the visibility timeout is delivered once more.
Repeat ==
  /\ \E w \in Worker : task[w].pc # "idle"
  /\ Send
  /\ UNCHANGED <<status, lease, task, beats, later>>

RetryDue ==
  /\ later > 0
  /\ later' = later - 1
  /\ queue' = queue + 1
  /\ UNCHANGED <<status, lease, task, beats>>

\* No statement waits longer than MaxDelay.  Past -(MaxDelay + 1) no pending
\* statement can tell how long ago the lease expired.
Pending(w) == task[w].pc \in {"claim", "release"}
Tick ==
  /\ \A w \in Worker : Pending(w) => task[w].age < MaxDelay
  /\ \A b \in beats : b.age < MaxDelay
  /\ lease' = IF Leased /\ lease.left >= -MaxDelay
              THEN [lease EXCEPT !.left = @ - 1] ELSE lease
  /\ task' = [w \in Worker |-> IF Pending(w)
                               THEN [task[w] EXCEPT !.age = @ + 1] ELSE task[w]]
  /\ beats' = {[b EXCEPT !.age = @ + 1] : b \in beats}
  /\ UNCHANGED <<status, queue, later>>

-----------------------------------------------------------------------------
\* drive_run_once.

\* A message is taken and acknowledged late; claim_run reads the clock.
Receive(w) ==
  /\ task[w].pc = "idle"
  /\ queue > 0
  /\ queue' = queue - 1
  /\ task' = [task EXCEPT ![w].pc = "claim"]
  /\ UNCHANGED <<status, lease, beats, later>>

\* The condition of claim_run's UPDATE, for a statement of that age.
ClaimableAnyQueued(age) ==  \* mutant: a queued Run is claimed under a live lease
  \/ status = "queued"
  \/ status \in LeasedActive /\ Leased /\ lease.left + age < 0
Claimable(age) ==
  \/ status = "queued" /\ (~Leased \/ lease.left + age < 0)
  \/ status \in LeasedActive /\ Leased /\ lease.left + age < 0

RunClaim(w) ==
  /\ task[w].pc = "claim"
  /\ Claimable(task[w].age)
  /\ \E t \in Token \ InUse :
       /\ lease' = [owner |-> Identity[w], token |-> t,
                    left |-> Ttl - task[w].age]
       /\ task' = [task EXCEPT ![w] = [Idle EXCEPT !.pc = "drive",
                                                   !.token = t]]
  /\ status' = IF status = "queued" THEN "running" ELSE "recovering"
  /\ UNCHANGED <<beats, queue, later>>

RefuseClaim(w) ==
  /\ task[w].pc = "claim"
  /\ ~Claimable(task[w].age)
  /\ task' = [task EXCEPT ![w] = [Idle EXCEPT !.pc = "asked"]]
  /\ UNCHANGED <<status, lease, beats, queue, later>>

\* get_lease_state, by now: a live lease makes the task retry after it, any
\* other state drops the message.
AskWhy(w) ==
  /\ task[w].pc = "asked"
  /\ task' = [task EXCEPT ![w] = Idle]
  /\ later' = IF Live /\ status \in LeasedActive \cup {"queued"}
              THEN later + 1 ELSE later
  /\ UNCHANGED <<status, lease, beats, queue>>

-----------------------------------------------------------------------------
\* The drive, of which AutonomyRun tells the rest.

\* A fenced write that keeps the lease: recovered, proposed, requeued by the
\* Guardian, begun, or left with an unknown outcome.
Advance(w) ==
  /\ Holds(w)
  /\ \E to \in {"running", "waiting_approval", "queued", "needs_attention"} :
       RunLegal(status, to) /\ status' = to
  /\ UNCHANGED <<lease, task, beats, queue, later>>

\* _settle_paused, and _finalize of a Run back in the queue or left to a person.
Settle(w) ==
  /\ Holds(w)
  /\ status \in {"recovering", "waiting_approval", "queued", "needs_attention"}
  /\ status' = IF status = "recovering" THEN "waiting_approval" ELSE status
  /\ lease' = NoLease
  /\ task' = [task EXCEPT ![w] = Idle]
  /\ UNCHANGED <<beats, queue, later>>

\* Status and lease in one transaction: _finalize, _fail_run, _confirm_cancel.
Finish(w) ==
  /\ Holds(w)
  /\ \E to \in {"completed", "failed", "cancelled"} :
       RunLegal(status, to) /\ status' = to
  /\ lease' = NoLease
  /\ task' = [task EXCEPT ![w] = Idle]
  /\ UNCHANGED <<beats, queue, later>>

\* A halt, or a spent duration, commits needs_attention (unless it is there
\* already) and then lets go with release_lease.
Halt(w) ==
  /\ Holds(w)
  /\ status = "needs_attention" \/ RunLegal(status, "needs_attention")
  /\ status' = "needs_attention"
  /\ task' = [task EXCEPT ![w].pc = "release"]
  /\ UNCHANGED <<lease, beats, queue, later>>

RunRelease(w) ==
  /\ task[w].pc = "release"
  /\ lease' = IF /\ IsClaim(w, task[w].token)
                 /\ lease.left + task[w].age >= 0
              THEN NoLease ELSE lease
  /\ task' = [task EXCEPT ![w] = Idle]
  /\ UNCHANGED <<status, beats, queue, later>>

\* DriveAbort or an unexpected exception: the message is acknowledged and the
\* lease is left to expire.
Abort(w) ==
  /\ task[w].pc = "drive"
  /\ task' = [task EXCEPT ![w] = Idle]
  /\ UNCHANGED <<status, lease, beats, queue, later>>

\* The process dies: the unacknowledged message comes back, or is lost with it.
Crash(w) ==
  /\ task[w].pc # "idle"
  /\ task' = [task EXCEPT ![w] = Idle]
  /\ Dispatch
  /\ UNCHANGED <<status, lease, beats, later>>

-----------------------------------------------------------------------------
\* LeaseHeartbeat: a thread with a session of its own.  The drive waits for it
\* only so long, so a statement may run after its drive has ended.

StartBeat(w) ==
  /\ task[w].pc = "drive"
  /\ ~task[w].lost
  /\ Cardinality(beats) < MaxBeats
  /\ \A b \in beats : b.token # task[w].token
  /\ beats' = beats \cup {[by |-> w, token |-> task[w].token, age |-> 0]}
  /\ UNCHANGED <<status, lease, task, queue, later>>

\* The thread ends when a renewal fails, and the drive sees that it is lost.
MarkLost(b) ==
  task' = [task EXCEPT ![b.by].lost =
             @ \/ (task[b.by].pc = "drive" /\ task[b.by].token = b.token)]

\* The condition of heartbeat's UPDATE.
Renews(b) == IsClaim(b.by, b.token) /\ lease.left + b.age >= 0

RenewedLeft(b)   == Ttl - b.age

RunBeat(b) ==
  /\ beats' = beats \ {b}
  /\ IF Renews(b)
     THEN lease' = [lease EXCEPT !.left = RenewedLeft(b)] /\ UNCHANGED task
     ELSE MarkLost(b) /\ UNCHANGED lease
  /\ UNCHANGED <<status, queue, later>>

FailBeat(b) ==
  /\ beats' = beats \ {b}
  /\ MarkLost(b)
  /\ UNCHANGED <<status, lease, queue, later>>

-----------------------------------------------------------------------------
EndDrive(w) == Settle(w) \/ Finish(w) \/ Halt(w) \/ Abort(w)

TaskStep(w) ==
  \/ Receive(w) \/ RunClaim(w) \/ RefuseClaim(w) \/ AskWhy(w)
  \/ Advance(w) \/ EndDrive(w) \/ RunRelease(w) \/ Crash(w)

BeatStep ==
  \/ \E w \in Worker : StartBeat(w)
  \/ \E b \in beats : RunBeat(b) \/ FailBeat(b)

Next ==
  \/ Enqueue \/ RequestCancel \/ Sweep \/ Scan
  \/ Lose \/ Repeat \/ RetryDue \/ Tick
  \/ \E w \in Worker : TaskStep(w)
  \/ BeatStep

Spec == Init /\ [][Next]_vars

\* Time passes, the timer scans, countdowns end, and a worker that runs a
\* statement or a drive gets to its end (commands, model calls and the whole
\* drive have timeouts).  Neither the loss of messages nor the death of workers
\* strikes at every single attempt.
Fairness ==
  /\ WF_vars(Tick) /\ WF_vars(Scan) /\ WF_vars(RetryDue)
  /\ SF_vars(\E w \in Worker : Receive(w))
  /\ SF_vars(\E w \in Worker : RunClaim(w))
  /\ \A w \in Worker :
       /\ WF_vars(RunClaim(w) \/ RefuseClaim(w))
       /\ WF_vars(AskWhy(w))
       /\ WF_vars(EndDrive(w))
       /\ WF_vars(RunRelease(w))
  /\ WF_vars(\E b \in beats : RunBeat(b) \/ FailBeat(b))

FairSpec == Spec /\ Fairness

-----------------------------------------------------------------------------
\* Properties.

\* Every variable keeps its type; a lease has an owner, a token and an expiry or
\* none of them.
TypeOK ==
  /\ status \in RunStatus
  /\ lease \in Lease
  /\ lease.owner = None <=> lease.token = None
  /\ lease.owner = None => lease = NoLease
  /\ task \in [Worker -> Task]
  /\ beats \subseteq Beat
  /\ queue \in Nat
  /\ later \in Nat

\* At most one drive passes the fence, though an old one may still be running
\* under the same identity as its successor.
FenceExclusive == \A v, w \in Worker : Holds(v) /\ Holds(w) => v = w

\* No claim displaces a live lease, however old the clock is that the claim has
\* read: a live lease is given up by its drive, a cancel or the sweep.
LiveLeaseNotDisplaced ==
  [][Live /\ lease'.token # lease.token => lease' = NoLease]_vars

\* Only a heartbeat of the claim itself prolongs a lease, never one that an
\* earlier claim of the same worker left behind.
OnlyOwnBeatProlongs ==
  [][(lease'.token = lease.token /\ lease'.left > lease.left) =>
       \E b \in beats : b.token = lease.token /\ b \notin beats']_vars

\* A lease that every observer could have seen expired for longer than a
\* statement can be under way is never renewed by the claim it belonged to.
LongExpiredStaysExpired ==
  [][(Leased /\ lease.left < -MaxDelay /\ lease'.token = lease.token) =>
       lease'.left < 0]_vars

\* All of this: a claim acts on its own lease, and on a live one only.
ClaimsKeepApart ==
  LiveLeaseNotDisplaced /\ OnlyOwnBeatProlongs /\ LongExpiredStaysExpired

\* A Run that is queued, or active under a lease that no drive holds, is driven
\* again or leaves that state: lost messages, dropped duplicates, failed
\* dispatches and dead workers do not strand it (views.py: the scan and the
\* claim of expired leases back up a dispatch that fails).
Driven   == \E w \in Worker : /\ task[w].pc = "drive"
                              /\ IsClaim(w, task[w].token)
InDemand == status = "queued" \/ (status \in LeasedActive /\ Leased)
AbandonedIsDriven == InDemand /\ ~Driven ~> Driven \/ ~InDemand
=============================================================================
