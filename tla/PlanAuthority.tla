---------------------------- MODULE PlanAuthority ----------------------------
(***************************************************************************)
(* By which authority the actions of a Run's plans run on its host: the     *)
(* checks of policy.py and plans.py, and where repository.py, drive.py and  *)
(* executor.py make them, while the rows they read change: the owner's      *)
(* role, his grant for the host, the host's address and ai_environment.     *)
(* One drive at a time, since the lease is RunLease's subject; a person     *)
(* decides in an unlocked transaction.                                      *)
(***************************************************************************)
EXTENDS Naturals

CONSTANTS
  MaxPlans,    \* bound: plans that a Run proposes
  PlanLen,     \* actions of a plan
  MaxChanges,  \* bound: changes of the rows
  MaxDeaths,   \* bound: kills of the worker
  None

\* The bounds are numbers, and a plan has an action.
PlanAuthorityAssumption ==
  /\ MaxPlans \in Nat /\ PlanLen \in Nat \ {0}
  /\ MaxChanges \in Nat /\ MaxDeaths \in Nat

VARIABLES
  mode, profile,  \* t_ai_autonomous_run: mode, custom_profile_json
  row,            \* t_acc_user.usrole, the grants, t_host of the owner and host
  run,            \* t_ai_autonomous_run.status
  plan,           \* the plan steps and their snapshots; env is the history of
                  \* the environment in which the plan was approved
  step,           \* the status of the action steps
  drive,          \* where
  txn,            \* the decision under way
  changes, deaths,
  late,           \* commands begun without authority since the rows changed
  revoked         \* the Run was stopped for lost authority

vars == <<mode, profile, row, run, plan, step, drive, txn, changes, deaths,
          late, revoked>>
-----------------------------------------------------------------------------
Plan         == 1 .. MaxPlans
Kinds        == {"probe", "write"}
Modes        == {"ask", "auto", "custom", "read_only"}
Environments == {"lab", "production"}
Rows         == [role : {"user", "admin", "none"}, granted : BOOLEAN,
                 env : Environments]
\* The categories that matter here; one that is read leaves the profile empty.
Profiles     == SUBSET {"write"}
Position     == 1 .. PlanLen
Undecided    == {"waiting", "approved", "running"}
Decided      == {"succeeded", "failed", "cancelled", "unknown"}
Snapshot     == [status : {"absent"} \cup Undecided \cup Decided,
                 kinds : [Position -> Kinds], expired : BOOLEAN,
                 env : Environments \cup {None}]
NoPlan       == [status |-> "absent", kinds |-> [k \in Position |-> "probe"],
                 expired |-> FALSE, env |-> None]
Nobody       == [pc |-> "idle", plan |-> None, k |-> 1, saw |-> None,
                 solo |-> FALSE]

\* The automatic mode is for hosts marked as lab.
ModeAllows(e) == mode = "auto" => e = "lab"
AnyMode(r)    == r.granted  \* mutant: the mode is not looked at again
Authorised(r) == r.granted /\ ModeAllows(r.env)
Active(r)     == r.role # "none"

\* The environment is parsed and then plays no part.
Classify(kind) == CASE kind = "probe"     -> "allow"
                    [] mode = "read_only" -> "deny"
                    [] OTHER              -> "ask"
InProfile(kind) == mode = "custom" => kind \in profile \cup {"probe"}

\* Target, credential, mode and budget are columns that nothing changes, and
\* the environment is no part of the snapshot: what is left to fail is time.
Verified(p) == /\ ~plan[p].expired
               /\ \A k \in Position : Classify(plan[p].kinds[k]) # "deny"

\* What the control probe compares with the rows the command was built from; a
\* changed address or port of the host counts like a changed environment.
Held(saw) == /\ Active(row) /\ row.role = saw.role
             /\ Authorised(row)
             /\ row.env = saw.env

At(pc)       == drive.pc = pc
Go(pc)       == drive' = [drive EXCEPT !.pc = pc]
Kind         == plan[drive.plan].kinds[drive.k]
Here         == step[drive.plan][drive.k]
SetPlan(p, s) == plan' = [plan EXCEPT ![p].status = s]
SetStep(s)   == step' = [step EXCEPT ![drive.plan][drive.k] = s]
Actions      == {a \in Plan \X Position : step[a[1]][a[2]] # "absent"}
With(s)      == {a \in Actions : step[a[1]][a[2]] = s}
Open         == {p \in Plan : plan[p].status \in Undecided}
NextPlan     == CHOOSE p \in 1 .. MaxPlans + 1 : \A q \in Plan :
                  (q < p) = (plan[q].status # "absent")
fixed        == <<mode, profile>>
history      == <<changes, deaths, late, revoked>>
-----------------------------------------------------------------------------
\* One undecided plan at a time; a refused action refuses the whole plan.
Propose(p, kinds) ==
  /\ At("plan") /\ Open = {} /\ p = NextPlan
  /\ Authorised(row)
  /\ \A k \in Position : InProfile(kinds[k]) /\ Classify(kinds[k]) # "deny"
  /\ LET asks == \E k \in Position : Classify(kinds[k]) = "ask"
     IN  /\ plan' = [plan EXCEPT ![p] =
                       [status |-> IF asks THEN "waiting" ELSE "approved",
                        kinds |-> kinds, expired |-> FALSE, env |-> row.env]]
         /\ run' = IF asks THEN "waiting" ELSE run
         /\ drive' = IF asks THEN Nobody
                     ELSE [drive EXCEPT !.pc = "verify", !.plan = p, !.k = 1]
  /\ UNCHANGED <<fixed, row, step, txn, history>>

\* A proposal without authority raises: the drive ends and leaves its lease.
Refused == /\ At("plan") /\ ~Authorised(row) /\ Go("dead")
           /\ UNCHANGED <<fixed, row, run, plan, step, txn, history>>

\* The planner proposes nothing more and the drive finalises the Run.
Conclude == /\ At("plan") /\ Open = {} /\ run' = "completed" /\ drive' = Nobody
            /\ UNCHANGED <<fixed, row, plan, step, txn, history>>

\* decide reads without a lock; a plan that is too old expires with its Run.
DecideRead(p) ==
  /\ run = "waiting" /\ txn = None /\ plan[p].status = "waiting"
  /\ IF plan[p].expired
     THEN SetPlan(p, "cancelled") /\ run' = "expired" /\ UNCHANGED txn
     ELSE /\ Verified(p) /\ Active(row) /\ Authorised(row)
          /\ txn' = [plan |-> p, env |-> row.env]
          /\ UNCHANGED <<plan, run>>
  /\ UNCHANGED <<fixed, row, step, drive, history>>

DecideCommit ==
  /\ txn # None
  /\ \E s \in {"approved", "failed"} :
       plan' = [plan EXCEPT ![txn.plan].status = s, ![txn.plan].env = txn.env]
  /\ run' = "active" /\ txn' = None
  /\ UNCHANGED <<fixed, row, step, drive, history>>

Claim == /\ At("idle") /\ run = "active"
         /\ drive' = IF Open = {} THEN [Nobody EXCEPT !.pc = "plan"]
                     ELSE [Nobody EXCEPT !.pc = "verify",
                                         !.plan = CHOOSE p \in Open : TRUE]
         /\ UNCHANGED <<fixed, row, run, plan, step, txn, history>>

\* The plan is verified, and locked afterwards.
Verify == /\ At("verify")
          /\ IF Verified(drive.plan)
             THEN Go("start") /\ UNCHANGED plan
             ELSE SetPlan(drive.plan, "failed") /\ Go("plan")
          /\ UNCHANGED <<fixed, row, run, step, txn, history>>

Start == /\ At("start") /\ SetPlan(drive.plan, "running")
         /\ drive' = [drive EXCEPT !.pc = "expand", !.k = 1]
         /\ UNCHANGED <<fixed, row, run, step, txn, history>>

\* The next action of the plan, or the plan's end.
Expand ==
  /\ At("expand")
  /\ CASE Here = "absent"    -> SetStep("approved") /\ Go("check") /\ UNCHANGED plan
       [] Here = "approved"  -> Go("check") /\ UNCHANGED <<step, plan>>
       [] Here = "succeeded" -> /\ UNCHANGED step
                                /\ IF drive.k < PlanLen
                                   THEN /\ drive' = [drive EXCEPT !.k = @ + 1]
                                        /\ UNCHANGED plan
                                   ELSE SetPlan(drive.plan, "succeeded") /\ Go("plan")
       [] OTHER              -> /\ UNCHANGED step /\ SetPlan(drive.plan, "failed")
                                /\ IF run = "active" THEN Go("plan") ELSE drive' = Nobody
  /\ UNCHANGED <<fixed, row, run, txn, history>>
-----------------------------------------------------------------------------
\* execute_step looks at the step and the rows, not at the plan; it raises when
\* the authority is gone, and nothing has happened yet.
Check == /\ At("check")
         /\ IF Active(row) /\ Authorised(row)
            THEN drive' = [drive EXCEPT !.pc = "commit", !.saw = row]
            ELSE Go("dead")
         /\ UNCHANGED <<fixed, row, run, plan, step, txn, history>>

Commit == /\ At("commit") /\ SetStep("running") /\ Go("probe")
          /\ UNCHANGED <<fixed, row, run, plan, txn, history>>

\* The action is over: its plan goes on, or recovery's single round closes.
After == IF ~drive.solo THEN Go("expand")
         ELSE drive' = Nobody

\* Lost authority: a write that has begun is of unknown outcome, all else
\* fails, and the Run with it; whether the remote process group is gone
\* decides who sees to it.
Stop(begun) ==
  /\ revoked' = TRUE /\ After
  /\ \/ /\ begun /\ Kind = "write" /\ SetStep("unknown") /\ run' = "attention"
     \/ /\ begun /\ Kind = "probe" /\ SetStep("failed") /\ run' \in {"attention", "failed"}
     \/ ~begun /\ SetStep("failed") /\ run' = "failed"
  /\ UNCHANGED <<fixed, row, plan, txn, changes, deaths, late>>

\* The two forced checks: before connecting, and before the command is sent.
ProbeTwice ==
  \/ /\ At("probe") /\ Held(drive.saw) /\ Go("connect")
     /\ UNCHANGED <<fixed, row, run, plan, step, txn, history>>
  \/ /\ At("connect") /\ Held(drive.saw) /\ Go("send")
     /\ UNCHANGED <<fixed, row, run, plan, step, txn, history>>
  \/ (At("probe") \/ At("connect")) /\ ~Held(drive.saw) /\ Stop(FALSE)

\* The owner may do this on that host as it is now.
Entitled == /\ row.role # "none" /\ row.granted
            /\ mode = "auto" => row.env = "lab"
Astray   == ~Entitled \/ row.env # drive.saw.env

Send == /\ At("send") /\ Go("command")
        /\ late' = IF Astray THEN late + 1 ELSE late
        /\ UNCHANGED <<fixed, row, run, plan, step, txn, changes, deaths, revoked>>

\* While the command runs the rows are read again every half a second.
Look == At("command") /\ ~Held(drive.saw) /\ Stop(TRUE)

\* The command ends, or the connection to it does.
Ends ==
  /\ At("command")
  /\ \E s \in {"succeeded", "failed", IF Kind = "write" THEN "unknown" ELSE "failed"} :
       /\ SetStep(s)
       /\ run' = IF s = "unknown" THEN "attention"
                 ELSE IF drive.solo THEN "completed" ELSE run
  /\ After
  /\ UNCHANGED <<fixed, row, plan, txn, history>>
-----------------------------------------------------------------------------
\* The worker is killed.
Die == /\ drive.pc \notin {"idle", "dead"} /\ deaths < MaxDeaths
       /\ deaths' = deaths + 1 /\ Go("dead")
       /\ UNCHANGED <<fixed, row, run, plan, step, txn, changes, late, revoked>>

\* The lease runs out and the next worker settles what it finds: more than one
\* action, an interrupted write or an ended action need a person; a single
\* approved action runs by itself, and without one the plan is taken up.
Recover ==
  /\ At("dead") /\ run = "active"
  /\ LET again  == {p \in Open : plan[p].status = "running"}
         retry  == {a \in With("running") : plan[a[1]].kinds[a[2]] = "probe"}
         single == \E a \in Actions : Actions = {a}
         ready  == With("approved") \cup retry
     IN  IF \/ Actions # {} /\ ~single
            \/ With("running") # retry \/ With("unknown") # {}
            \/ Actions # {} /\ ready = {}
         THEN /\ run' = "attention" /\ drive' = Nobody
              /\ step' = [p \in Plan |-> [k \in Position |->
                            IF single /\ <<p, k>> \in With("running") THEN "unknown"
                            ELSE step[p][k]]]
              /\ UNCHANGED plan
         ELSE /\ plan' = [p \in Plan |-> IF p \in again
                                          THEN [plan[p] EXCEPT !.status = "approved"]
                                          ELSE plan[p]]
              /\ step' = [p \in Plan |-> [k \in Position |->
                            IF <<p, k>> \in retry THEN "approved" ELSE step[p][k]]]
              /\ IF ready = {} THEN drive' = Nobody
                 ELSE \E a \in ready :
                        drive' = [Nobody EXCEPT !.pc = "check", !.plan = a[1],
                                                !.k = a[2], !.solo = TRUE]
              /\ UNCHANGED run
  /\ UNCHANGED <<fixed, row, txn, history>>

\* Administrators change the role, the grants, the host and its environment.
Change ==
  /\ changes < MaxChanges /\ changes' = changes + 1
  /\ run # "completed"
  /\ \/ \E r \in {"user", "admin", "none"} \ {row.role} : row' = [row EXCEPT !.role = r]
     \/ row' = [row EXCEPT !.granted = ~@]
     \/ \E e \in Environments \ {row.env} : row' = [row EXCEPT !.env = e]
  /\ late' = 0
  /\ UNCHANGED <<fixed, run, plan, step, drive, txn, deaths, revoked>>

\* expires_at passes.
Expire == \E p \in Open :
  /\ ~plan[p].expired /\ plan' = [plan EXCEPT ![p].expired = TRUE]
  /\ UNCHANGED <<fixed, row, run, step, drive, txn, history>>

Init ==
  /\ mode \in Modes /\ profile \in Profiles /\ (mode # "custom" => profile = {})
  /\ row \in {r \in Rows : r.role = "user" /\ Authorised(r)}
  /\ run = "active" /\ drive = Nobody /\ txn = None
  /\ plan = [p \in Plan |-> NoPlan]
  /\ step = [p \in Plan |-> [k \in Position |-> "absent"]]
  /\ changes = 0 /\ deaths = 0 /\ late = 0 /\ revoked = FALSE

Work == \/ \E p \in Plan, kinds \in [Position -> Kinds] : Propose(p, kinds)
        \/ Refused \/ Conclude \/ Claim \/ Verify \/ Start \/ Expand \/ Check
        \/ Commit \/ ProbeTwice \/ Send \/ Look \/ Recover

Next == \/ Work \/ Ends \/ Die \/ Change \/ Expire \/ DecideCommit
        \/ \E p \in Plan : DecideRead(p)

\* The worker goes on; a command may run on for ever, and nobody has to decide.
Spec == Init /\ [][Next]_vars /\ WF_vars(Work)
-----------------------------------------------------------------------------
TypeOK ==
  /\ mode \in Modes /\ profile \in Profiles /\ row \in Rows
  /\ run \in {"active", "waiting", "completed", "failed", "attention", "expired"}
  /\ plan \in [Plan -> Snapshot]
  /\ step \in [Plan -> [Position -> {"absent", "approved", "running"} \cup Decided]]
  /\ drive \in [pc : {"idle", "plan", "verify", "start", "expand", "check", "commit",
                      "probe", "connect", "send", "command", "dead"},
                plan : Plan \cup {None}, k : Position, saw : Rows \cup {None},
                solo : BOOLEAN]
  /\ txn = None \/ txn \in [plan : Plan, env : Environments]
  /\ changes \in 0 .. MaxChanges /\ deaths \in 0 .. MaxDeaths
  /\ late \in Nat /\ revoked \in BOOLEAN

\* After the rows have changed, at most one command begins that they no longer
\* allow: the one whose last check had already read them.
OneLateCommand == late <= 1

\* A Run that was stopped for lost authority begins no other command, even when
\* the authority comes back.
StoppedForGood == revoked => drive.pc \notin {"check", "commit", "probe", "connect",
                                             "send", "command"}

\* Both, as one answer to "when does a withdrawal take effect?".
AuthorityIsKept == OneLateCommand /\ StoppedForGood

\* A command that the rows no longer allow is stopped, or ends.
Settled == ~(At("command") /\ Astray)
WithdrawalTakesEffect == []<>Settled

\* repository.py:1275: what a plan is verified against holds the environment of
\* its host, so a plan whose environment has changed since its approval asks
\* again instead of starting.
DriftAsksAgain ==
  [][At("verify") /\ drive'.pc = "start" => plan[drive.plan].env = row.env]_vars

\* plans.py:8: an approval that has expired gives no authority.
ExpiryAsksAgain ==
  [][At("check") /\ drive'.pc = "commit" => ~plan[drive.plan].expired]_vars
=============================================================================
