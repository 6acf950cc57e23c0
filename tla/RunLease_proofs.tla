--------------------------- MODULE RunLease_proofs ---------------------------
EXTENDS RunLease, TLAPS

(***************************************************************************)
(* What the tokens of a lease guarantee for every number of workers, every *)
(* assignment of identities (shared ones too), every time to live and any  *)
(* delay of the statements.  That two drives never pass the fence together *)
(* needs one fact about memory, not about the row: no two tasks hold the   *)
(* same token (TasksApart), which holds because a claim draws a token that *)
(* nothing holds any more.                                                 *)
(***************************************************************************)

\* A task holds a token from its claim until it lets go, and no other task has
\* the same one.
TasksApart ==
  /\ \A w \in Worker : task[w].pc \in {"drive", "release"} <=>
                         task[w].token # None
  /\ \A v, w \in Worker : task[v].token = task[w].token =>
                            v = w \/ task[w].token = None

Inv == TypeOK /\ TasksApart

LEMMA NoLeaseTyped == NoLease \in Lease /\ Idle \in Task
  BY LeaseAssumption DEF NoLease, Lease, Idle, Task, Age

\* A worker whose task ends holds no token.
LEMMA TaskEnds ==
  ASSUME Inv, NEW w \in Worker, task' = [task EXCEPT ![w] = Idle]
  PROVE  task' \in [Worker -> Task] /\ TasksApart'
<1>1. task' \in [Worker -> Task]
  BY NoLeaseTyped DEF Inv, TypeOK
<1>2. \A v \in Worker : task'[v] = IF v = w THEN Idle ELSE task[v]
  BY DEF Inv, TypeOK
<1> QED
  BY <1>1, <1>2 DEF Inv, TasksApart, Idle

\* A worker that goes from one phase to another with what it holds.
LEMMA TaskKeepsToken ==
  ASSUME Inv, NEW w \in Worker, NEW t \in Task,
         task' = [task EXCEPT ![w] = t], t.token = task[w].token,
         t.pc \in {"drive", "release"} <=> t.token # None
  PROVE  task' \in [Worker -> Task] /\ TasksApart'
<1>1. task' \in [Worker -> Task]
  BY DEF Inv, TypeOK
<1>2. \A v \in Worker : task'[v] = IF v = w THEN t ELSE task[v]
  BY DEF Inv, TypeOK
<1> QED
  BY <1>1, <1>2 DEF Inv, TasksApart

\* What a statement that has run, or has not, leaves of the heartbeats.
LEMMA LostMarked ==
  ASSUME Inv, NEW b \in beats, MarkLost(b)
  PROVE  task' \in [Worker -> Task] /\ TasksApart'
<1> DEFINE w == b.by
           t == [task[w] EXCEPT !.lost =
                   @ \/ (task[w].pc = "drive" /\ task[w].token = b.token)]
<1>1. w \in Worker /\ task[w] \in Task
  BY DEF Inv, TypeOK, Beat
<1>2. t \in Task /\ t.token = task[w].token /\ t.pc = task[w].pc
  BY <1>1 DEF Task
<1>3. task' = [task EXCEPT ![w] = t]
  BY <1>1 DEF MarkLost, Inv, TypeOK, Task
<1> QED
  BY <1>1, <1>2, <1>3, TaskKeepsToken DEF Inv, TasksApart

\* Sending a message, or failing to.
LEMMA QueueTyped ==
  ASSUME TypeOK, Dispatch
  PROVE  queue' \in Nat
  BY DEF TypeOK, Dispatch, Send

\* The sessions, the sweeper and the scan touch no task.
LEMMA SessionsKeepInv ==
  ASSUME Inv, Enqueue \/ RequestCancel \/ Sweep \/ Scan
  PROVE  Inv'
<1> USE NoLeaseTyped, QueueTyped DEF Inv, TypeOK, TasksApart
<1>1. CASE Enqueue
  BY <1>1 DEF Enqueue, RunStatus
<1>2. CASE RequestCancel
  BY <1>2 DEF RequestCancel, RunStatus, NoLease
<1>3. CASE Sweep
  BY <1>3 DEF Sweep, RunStatus, NoLease
<1>4. CASE Scan
  BY <1>4 DEF Scan, Send
<1> QED
  BY <1>1, <1>2, <1>3, <1>4

\* The clock shortens the lease and ages the statements that wait.
LEMMA TickKeepsInv ==
  ASSUME Inv, Tick
  PROVE  Inv'
<1> USE LeaseAssumption
<1>1. /\ lease' \in Lease
      /\ lease'.owner = lease.owner /\ lease'.token = lease.token
      /\ lease.owner = None => lease' = lease
  BY DEF Inv, TypeOK, Tick, Lease, Leased
<1>2. \A w \in Worker : /\ task'[w] \in Task
                        /\ task'[w].pc = task[w].pc
                        /\ task'[w].token = task[w].token
  <2> SUFFICES ASSUME NEW w \in Worker
               PROVE  /\ task'[w] \in Task
                      /\ task'[w].pc = task[w].pc
                      /\ task'[w].token = task[w].token
    OBVIOUS
  <2>1. task[w] \in Task
    BY DEF Inv, TypeOK
  <2>2. CASE Pending(w)
    BY <2>1, <2>2 DEF Tick, Task, Age
  <2>3. CASE ~Pending(w)
    BY <2>1, <2>3 DEF Tick
  <2> QED
    BY <2>2, <2>3
<1>3. task' \in [Worker -> Task]
  BY <1>2 DEF Tick
<1>4. beats' \subseteq Beat
  <2> SUFFICES ASSUME NEW b \in beats
               PROVE  [b EXCEPT !.age = @ + 1] \in Beat
    BY DEF Tick
  <2>1. b \in Beat /\ b.age < MaxDelay
    BY DEF Inv, TypeOK, Tick
  <2> QED
    BY <2>1 DEF Beat, Age
<1> QED
  BY <1>1, <1>2, <1>3, <1>4 DEF Inv, TypeOK, TasksApart, Tick

\* The broker moves messages.
LEMMA BrokerKeepsInv ==
  ASSUME Inv, Lose \/ Repeat \/ RetryDue
  PROVE  Inv'
  BY DEF Inv, TypeOK, TasksApart, Lose, Repeat, RetryDue, Send

\* The task of one worker, from the message to the end of the drive.
LEMMA TaskKeepsInv ==
  ASSUME Inv, NEW w \in Worker, TaskStep(w)
  PROVE  Inv'
<1>0. task[w] \in Task
  BY DEF Inv, TypeOK
<1>1. CASE Receive(w)
  <2> DEFINE t == [task[w] EXCEPT !.pc = "claim"]
  <2>1. t \in Task /\ t.token = task[w].token /\ t.pc = "claim"
    BY <1>0 DEF Task
  <2>2. t.token = None
    BY <1>1, <2>1 DEF Receive, Inv, TasksApart
  <2>3. task' = [task EXCEPT ![w] = t]
    BY <1>1 DEF Receive, Inv, TypeOK
  <2>4. task' \in [Worker -> Task] /\ TasksApart'
    BY <2>1, <2>2, <2>3, TaskKeepsToken
  <2> QED
    BY <1>1, <2>4 DEF Receive, Inv, TypeOK
<1>2. CASE RunClaim(w)
  <2>1. PICK t \in Token \ InUse :
          /\ lease' = [owner |-> Identity[w], token |-> t,
                       left |-> Ttl - task[w].age]
          /\ task' = [task EXCEPT ![w] = [Idle EXCEPT !.pc = "drive",
                                                      !.token = t]]
    BY <1>2 DEF RunClaim
  <2>2. t # None /\ \A v \in Worker : task[v].token # t
    BY LeaseAssumption DEF InUse
  <2>3. lease' \in Lease /\ lease'.owner # None /\ lease'.token # None
    BY <1>0, <2>1, <2>2, LeaseAssumption DEF Lease, Task, Age
  <2>4. [Idle EXCEPT !.pc = "drive", !.token = t] \in Task
    BY NoLeaseTyped DEF Task, Idle
  <2>5. \A v \in Worker : task'[v] = IF v = w
                            THEN [Idle EXCEPT !.pc = "drive", !.token = t]
                            ELSE task[v]
    BY <2>1 DEF Inv, TypeOK
  <2>6. TasksApart'
    BY <2>2, <2>5 DEF Inv, TasksApart, Idle
  <2>7. task' \in [Worker -> Task]
    BY <2>1, <2>4 DEF Inv, TypeOK
  <2> QED
    BY <1>2, <2>3, <2>6, <2>7 DEF RunClaim, Inv, TypeOK, RunStatus
<1>3. CASE RefuseClaim(w)
  <2> DEFINE t == [Idle EXCEPT !.pc = "asked"]
  <2>1. t \in Task /\ t.token = None /\ t.pc = "asked"
    BY NoLeaseTyped DEF Task, Idle
  <2>2. task[w].token = None
    BY <1>3 DEF RefuseClaim, Inv, TasksApart
  <2>3. task' \in [Worker -> Task] /\ TasksApart'
    BY <1>3, <2>1, <2>2, TaskKeepsToken DEF RefuseClaim
  <2> QED
    BY <1>3, <2>3 DEF RefuseClaim, Inv, TypeOK
<1>4. CASE AskWhy(w)
  <2>1. later' \in Nat
    BY <1>4 DEF AskWhy, Inv, TypeOK
  <2>2. task' \in [Worker -> Task] /\ TasksApart'
    BY <1>4, TaskEnds DEF AskWhy
  <2> QED
    BY <1>4, <2>1, <2>2 DEF AskWhy, Inv, TypeOK
<1>5. CASE Advance(w)
  BY <1>5 DEF Advance, Inv, TypeOK, TasksApart, RunStatus
<1>6. CASE Settle(w) \/ Finish(w)
  BY <1>6, TaskEnds, NoLeaseTyped
  DEF Settle, Finish, Inv, TypeOK, RunStatus, NoLease
<1>7. CASE Halt(w)
  <2> DEFINE t == [task[w] EXCEPT !.pc = "release"]
  <2>1. t \in Task /\ t.token = task[w].token /\ t.pc = "release"
    BY <1>0 DEF Task
  <2>2. t.token # None
    BY <1>7, <2>1 DEF Halt, Holds, Inv, TasksApart
  <2>3. task' = [task EXCEPT ![w] = t]
    BY <1>7 DEF Halt, Inv, TypeOK
  <2>4. task' \in [Worker -> Task] /\ TasksApart'
    BY <2>1, <2>2, <2>3, TaskKeepsToken
  <2> QED
    BY <1>7, <2>4 DEF Halt, Inv, TypeOK, RunStatus
<1>8. CASE RunRelease(w)
  BY <1>8, TaskEnds, NoLeaseTyped DEF RunRelease, Inv, TypeOK, NoLease
<1>9. CASE Abort(w)
  BY <1>9, TaskEnds DEF Abort, Inv, TypeOK
<1>10. CASE Crash(w)
  BY <1>10, TaskEnds, QueueTyped DEF Crash, Inv, TypeOK
<1> QED
  BY <1>1, <1>2, <1>3, <1>4, <1>5, <1>6, <1>7, <1>8, <1>9, <1>10
  DEF TaskStep, EndDrive

\* The heartbeats.
LEMMA BeatKeepsInv ==
  ASSUME Inv, BeatStep
  PROVE  Inv'
<1>1. ASSUME NEW w \in Worker, StartBeat(w)
      PROVE  Inv'
  <2>1. task[w].token \in Token
    BY <1>1 DEF StartBeat, Inv, TypeOK, TasksApart, Task
  <2>2. [by |-> w, token |-> task[w].token, age |-> 0] \in Beat
    BY <2>1, LeaseAssumption DEF Beat, Age
  <2> QED
    BY <1>1, <2>2 DEF StartBeat, Inv, TypeOK, TasksApart
<1>2. ASSUME NEW b \in beats, RunBeat(b)
      PROVE  Inv'
  <2>1. CASE Renews(b)
    <3>1. b \in Beat
      BY DEF Inv, TypeOK
    <3>2. /\ lease' \in Lease
          /\ lease'.owner = lease.owner /\ lease'.token = lease.token
      BY <1>2, <2>1, <3>1, LeaseAssumption
      DEF RunBeat, RenewedLeft, Inv, TypeOK, Lease, Beat, Age
    <3>3. lease.owner # None
      BY <2>1, <3>1, LeaseAssumption DEF Renews, IsClaim, Beat
    <3> QED
      BY <1>2, <2>1, <3>2, <3>3 DEF RunBeat, Inv, TypeOK, TasksApart
  <2>2. CASE ~Renews(b)
    BY <1>2, <2>2, LostMarked DEF RunBeat, Inv, TypeOK
  <2> QED
    BY <2>1, <2>2
<1>3. ASSUME NEW b \in beats, FailBeat(b)
      PROVE  Inv'
  BY <1>3, LostMarked DEF FailBeat, Inv, TypeOK
<1> QED
  BY <1>1, <1>2, <1>3 DEF BeatStep

\* Inv is inductive.
LEMMA InvStep == Inv /\ [Next]_vars => Inv'
<1>1. ASSUME Inv, UNCHANGED vars
      PROVE  Inv'
  BY <1>1 DEF vars, Inv, TypeOK, TasksApart
<1> QED
  BY <1>1, SessionsKeepInv, TickKeepsInv, BrokerKeepsInv, TaskKeepsInv,
     BeatKeepsInv DEF Next

\* The types of the lease, the tasks and the messages, and the tokens of the
\* tasks: the inductive invariant holds in every reachable state.
LEMMA InvHolds == Spec => []Inv
<1>1. Init => Inv
  BY NoLeaseTyped DEF Init, Inv, TypeOK, TasksApart, RunStatus, NoLease, Idle
<1> QED
  BY <1>1, InvStep, PTL DEF Spec

\* Every reachable state of the row, the tasks and the queue is well typed.
THEOREM LeaseTyped == Spec => []TypeOK
<1>1. Inv => TypeOK
  BY DEF Inv
<1> QED
  BY <1>1, InvHolds, PTL

\* At most one drive passes the fence, whatever identities workers share and
\* however late their statements run.
THEOREM FenceIsExclusive == Spec => []FenceExclusive
<1>1. Inv => FenceExclusive
  <2> SUFFICES ASSUME Inv, NEW v \in Worker, NEW w \in Worker,
                      Holds(v), Holds(w)
               PROVE  v = w
    BY DEF FenceExclusive
  <2>1. task[v].token = task[w].token /\ task[w].token # None
    BY DEF Holds, IsClaim, Inv, TasksApart
  <2> QED
    BY <2>1 DEF Inv, TasksApart
<1> QED
  BY <1>1, InvHolds, PTL

\* Which actions change the lease, and how.
LEMMA LeaseChange ==
  ASSUME Inv, [Next]_vars
  PROVE  \/ lease' = lease
         \/ lease' = NoLease
         \/ Tick
         \/ \E w \in Worker : RunClaim(w)
         \/ \E b \in beats : Renews(b) /\ RunBeat(b)
<1>1. CASE UNCHANGED vars
  BY <1>1 DEF vars
<1>2. CASE Enqueue \/ RequestCancel \/ Sweep \/ Scan \/ Lose \/ Repeat
           \/ RetryDue
  BY <1>2 DEF Enqueue, RequestCancel, Sweep, Scan, Lose, Repeat, RetryDue
<1>3. ASSUME NEW w \in Worker, TaskStep(w), ~RunClaim(w)
      PROVE  lease' = lease \/ lease' = NoLease
  BY <1>3 DEF TaskStep, EndDrive, Receive, RefuseClaim, AskWhy, Advance,
              Settle, Finish, Halt, Abort, RunRelease, Crash
<1>4. ASSUME BeatStep
      PROVE  lease' = lease \/ \E b \in beats : Renews(b) /\ RunBeat(b)
  BY <1>4 DEF BeatStep, StartBeat, RunBeat, FailBeat
<1> QED
  BY <1>1, <1>2, <1>3, <1>4 DEF Next

\* A claim never displaces a live lease: the clock it has read is never ahead
\* of the present, so a lease that looks expired to it is expired.
THEOREM LiveLeaseIsNotDisplaced == Spec => LiveLeaseNotDisplaced
<1>1. ASSUME Inv, [Next]_vars, Live, lease'.token # lease.token
      PROVE  lease' = NoLease
  <2>1. ~Tick
    BY <1>1 DEF Tick, Inv, TypeOK, Lease
  <2>2. ASSUME NEW w \in Worker, RunClaim(w)
        PROVE  FALSE
    <3>1. task[w].age \in Nat /\ lease.left \in Int
      BY <1>1, LeaseAssumption DEF Inv, TypeOK, Task, Age, Lease
    <3>2. lease.left + task[w].age < 0
      BY <1>1, <2>2 DEF RunClaim, Claimable, Live
    <3> QED
      BY <1>1, <3>1, <3>2 DEF Live
  <2>3. ASSUME NEW b \in beats, Renews(b), RunBeat(b)
        PROVE  lease'.token = lease.token
    BY <1>1, <2>3 DEF RunBeat, Inv, TypeOK, Lease
  <2> QED
    BY <1>1, <2>1, <2>2, <2>3, LeaseChange
<1>2. Inv /\ [Next]_vars =>
        [(Live /\ lease'.token # lease.token) => (lease' = NoLease)]_vars
  BY <1>1
<1> QED
  BY <1>2, InvHolds, PTL DEF Spec, LiveLeaseNotDisplaced

\* Only a heartbeat of the claim in the row prolongs its lease.
THEOREM OnlyOwnBeatsProlong == Spec => OnlyOwnBeatProlongs
<1> DEFINE Own == \E b \in beats : b.token = lease.token /\ b \notin beats'
<1>1. ASSUME Inv, [Next]_vars, lease'.token = lease.token,
             lease'.left > lease.left
      PROVE  Own
  <2>1. lease' # lease
    BY <1>1 DEF Inv, TypeOK, Lease
  <2>2. lease' # NoLease
    BY <1>1 DEF Inv, TypeOK, NoLease
  <2>3. ~Tick
    BY <1>1, LeaseAssumption DEF Tick, Inv, TypeOK, Lease
  <2>4. ASSUME NEW w \in Worker, RunClaim(w)
        PROVE  FALSE
    BY <1>1, <2>4 DEF RunClaim, InUse
  <2>5. ASSUME NEW b \in beats, Renews(b), RunBeat(b)
        PROVE  Own
    BY <2>5 DEF Renews, IsClaim, RunBeat
  <2> QED
    BY <1>1, <2>1, <2>2, <2>3, <2>4, <2>5, LeaseChange
<1>2. Inv /\ [Next]_vars =>
        [(lease'.token = lease.token /\ lease'.left > lease.left) => Own]_vars
  BY <1>1
<1> QED
  BY <1>2, InvHolds, PTL DEF Spec, OnlyOwnBeatProlongs

\* A lease expired for longer than any statement waits is not renewed.
THEOREM LongExpiredLeasesStay == Spec => LongExpiredStaysExpired
<1>1. ASSUME Inv, [Next]_vars, Leased, lease.left < -MaxDelay,
             lease'.token = lease.token
      PROVE  lease'.left < 0
  <2>1. lease.left \in Int /\ MaxDelay \in Nat /\ lease.left < 0
    BY <1>1, LeaseAssumption DEF Inv, TypeOK, Lease
  <2>2. lease' # NoLease
    BY <1>1 DEF Inv, TypeOK, Leased, NoLease
  <2>3. CASE Tick
    BY <2>1, <2>3, <1>1 DEF Tick, Inv, TypeOK, Lease
  <2>4. ASSUME NEW w \in Worker, RunClaim(w)
        PROVE  FALSE
    BY <1>1, <2>4 DEF RunClaim, InUse
  <2>5. ASSUME NEW b \in beats, Renews(b)
        PROVE  FALSE
    <3>1. b.age \in 0 .. MaxDelay
      BY <1>1 DEF Inv, TypeOK, Beat, Age
    <3> QED
      BY <1>1, <2>1, <2>5, <3>1 DEF Renews
  <2> QED
    BY <1>1, <2>1, <2>2, <2>3, <2>4, <2>5, LeaseChange
<1>2. Inv /\ [Next]_vars =>
        [(Leased /\ lease.left < -MaxDelay /\ lease'.token = lease.token) =>
           lease'.left < 0]_vars
  BY <1>1
<1> QED
  BY <1>2, InvHolds, PTL DEF Spec, LongExpiredStaysExpired

\* The three together: claims leave each other's leases alone.
THEOREM ClaimsHoldApart == Spec => ClaimsKeepApart
  BY LiveLeaseIsNotDisplaced, OnlyOwnBeatsProlong, LongExpiredLeasesStay, PTL
     DEF ClaimsKeepApart
=============================================================================
