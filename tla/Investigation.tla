--------------------------- MODULE Investigation ---------------------------
(***************************************************************************)
(* The rounds of one Run under its budgets: the planner                    *)
(* (src/backend/app/ai/autonomy/planner.py, ToolCallingPlanner) as the     *)
(* drive loop calls it (drive.py, _planner_requires_plan/_finish, plan,    *)
(* decide).  Each round shows the model the phase and what is left of the  *)
(* budgets, takes one tool call from it, gives it at most one repair, and  *)
(* writes at most one probe, plan, verification or conclusion.             *)
(*                                                                         *)
(* The model is external and may answer anything.  One worker drives here; *)
(* claims, crashes and the owner's other requests are AutonomyRun's.       *)
(***************************************************************************)
EXTENDS Naturals, Sequences, FiniteSets

CONSTANTS Probes,      \* ids of the server's probes
          MaxActions,  \* budget.max_actions
          MaxLoops,    \* budget.max_loops
          MinProbes,   \* MIN_DISTINCT_PROBES_BEFORE_PLAN
          MaxPlan      \* PLAN_MAX_ACTIONS

InvestigationAssumption ==
  /\ MaxActions \in Nat /\ MaxLoops \in Nat \ {0}
  /\ MinProbes \in Nat /\ MaxPlan \in Nat

VARIABLES
  status,   \* of the Run
  outcome,  \* its conclusion
  steps,    \* its action and verification steps, by seq
  plan,     \* the open plan: its status and how many actions it has left
  loops,    \* the cursor's count of rounds
  node,     \* where the drive is
  ctx,      \* the phase and evidence the planner was shown this round
  tool,     \* the tool the model is asked to repair with
  more,     \* the round proposed something
  asked     \* the model has been asked since the last write

vars == <<status, outcome, steps, plan, loops, node, ctx, tool, more, asked>>

Tools == {"probe", "plan", "check", "finish"}
StepKinds == {"probe", "write", "check"}
StepStatuses == {"proposed", "approved", "succeeded", "failed",
                 "skipped", "unknown"}
NoPlan == [st |-> "none", left |-> 0]

Ids == DOMAIN steps
Actions  == Cardinality({i \in Ids : steps[i].kind \in {"probe", "write"}})
Wrote    == {i \in Ids : steps[i].kind = "write" /\ steps[i].st = "succeeded"}
Checked  == {i \in Ids : steps[i].kind = "check" /\ steps[i].st = "succeeded"}
\* the steps observe has recorded evidence of, by the end of their round
Evidence == {i \in Ids : steps[i].st \in {"succeeded", "failed", "unknown"}}

TypeOK ==
  /\ status \in {"running", "completed", "failed", "attention"}
  /\ outcome \in {"none", "resolved", "not_resolved", "inconclusive"}
  /\ steps \in Seq([kind : StepKinds, id : Probes \cup {"-"}, st : StepStatuses])
  /\ plan.st \in {"none", "waiting", "approved"} /\ plan.left \in 0..MaxPlan
  /\ loops \in 0..MaxLoops
  /\ node \in {"plan", "ask", "repair", "policy", "pause", "execute", "decide", "end"}
  /\ ctx \in [plan : BOOLEAN, finish : BOOLEAN, checks : BOOLEAN]
  /\ tool \in Tools \cup {"-"}
  /\ more \in BOOLEAN /\ asked \in BOOLEAN

Init ==
  /\ status = "running" /\ outcome = "none"
  /\ steps = <<>> /\ plan = NoPlan /\ loops = 0
  /\ node = "plan" /\ tool = "-" /\ more = FALSE /\ asked = FALSE
  /\ ctx = [plan |-> FALSE, finish |-> FALSE, checks |-> FALSE]

-----------------------------------------------------------------------------
(* The phase the server fixes for the round.                               *)

\* Enough distinct probes have run or were refused, and nothing writes yet.
RequiresPlan ==
  /\ \A i \in Ids : steps[i].kind # "write"
  /\ Cardinality({steps[i].id : i \in {j \in Ids : /\ steps[j].kind = "probe"
                                                   /\ steps[j].st \in {"succeeded", "failed"}}})
       >= MinProbes

\* The latest successful write has a later successful verification.
SwappedOrder == \E c \in Checked : \E i \in Wrote : c < i   \* mutant
RequiresFinish ==
  Wrote # {} /\ \E c \in Checked : \A i \in Wrote : i < c

SpentBudgets == MaxActions <= Actions \/ MaxLoops <= loops

\* ToolCallingPlanner.__call__ up to the call of the model
StartRound ==
  /\ node = "plan"
  /\ ctx' = [plan |-> RequiresPlan, finish |-> RequiresFinish,
             checks |-> \E i \in Evidence : steps[i].kind = "check"]
  /\ more' = FALSE
  /\ node' = IF SpentBudgets THEN "policy" ELSE "ask"
  /\ asked' = (asked \/ node' = "ask")
  /\ UNCHANGED <<status, outcome, steps, plan, loops, tool>>

-----------------------------------------------------------------------------
(* _dispatch: one answer of the model.                                     *)

\* What the model may answer: a truncated response, none or several calls, a
\* tool of its own, or a call of ours whose arguments hold (ok) or not.
Answer ==
  [call : {"cut", "none", "other"}, ok : {FALSE}, id : {"-"}, n : {0}, says : {"-"}]
  \cup [call : {"probe", "check"}, ok : BOOLEAN, id : Probes, n : {0}, says : {"-"}]
  \cup [call : {"plan"}, ok : BOOLEAN, id : {"-"}, n : 1..MaxPlan, says : {"-"}]
  \cup [call : {"finish"}, ok : BOOLEAN, id : {"-"}, n : {0},
        says : {"resolved", "not_resolved", "inconclusive"}]

\* conclude_run: a conclusion cites evidence of the Run
CanConclude == Evidence # {}

\* the tool of the phase, which alone the model may call
Phase == IF ctx.finish THEN {"finish"} ELSE IF ctx.plan THEN {"plan"} ELSE Tools
PhaseTool == IF Phase = Tools THEN "probe" ELSE CHOOSE t \in Phase : TRUE

\* The Run has room for n more actions.
Room(n) == Actions + n <= MaxActions

\* What each tool's contract and the Run say of a call the phase allows: "-"
\* accepts it, "never" is an error no repair answers.
ProbeContract(a) ==
  IF ~a.ok THEN "probe" ELSE IF ~Room(1) THEN "never" ELSE "-"
CheckContract(a) ==
  IF Wrote = {} THEN "plan" ELSE IF ~a.ok THEN "check" ELSE "-"
PlanContract(a) ==
  IF ~a.ok THEN "plan" ELSE IF plan # NoPlan \/ ~Room(a.n) THEN "never" ELSE "-"
FinishContract(a) == IF a.ok /\ CanConclude THEN "-" ELSE "finish"

Contract(a) ==
  CASE a.call = "probe"  -> ProbeContract(a)
    [] a.call = "check"  -> CheckContract(a)
    [] a.call = "plan"   -> PlanContract(a)
    [] a.call = "finish" -> FinishContract(a)
    [] a.call = "other"  -> "never"

\* The repair tool of a refused answer: the phase goes before the contract.
Verdict(a) ==
  CASE a.call = "cut" -> "never"
    [] a.call = "none" -> PhaseTool
    [] a.call \notin {"cut", "none"} ->
         IF Phase # Tools /\ a.call \notin Phase THEN PhaseTool ELSE Contract(a)

NewStep(kind, id, st) == Append(steps, [kind |-> kind, id |-> id, st |-> st])

\* Only an observation of a verification may be called resolved.
Concluded(says) ==
  IF says = "resolved" /\ \A i \in Evidence : steps[i].kind # "check"
  THEN "inconclusive" ELSE says

\* The one row an accepted answer writes.  A probe the policy denies fails at
\* once; a plan may need the owner's consent.
Write(a) ==
  \/ /\ a.call = "probe"
     /\ \E st \in {"proposed", "failed"} : steps' = NewStep("probe", a.id, st)
     /\ more' = TRUE
     /\ UNCHANGED <<plan, outcome>>
  \/ /\ a.call = "check"
     /\ steps' = NewStep("check", a.id, "proposed")
     /\ more' = TRUE
     /\ UNCHANGED <<plan, outcome>>
  \/ /\ a.call = "plan"
     /\ \E st \in {"waiting", "approved"} : plan' = [st |-> st, left |-> a.n]
     /\ more' = TRUE
     /\ UNCHANGED <<steps, outcome>>
  \/ /\ a.call = "finish"
     /\ outcome' = Concluded(a.says)
     /\ more' = FALSE
     /\ UNCHANGED <<steps, plan>>

Accept(a) ==
  /\ Verdict(a) = "-"
  /\ Write(a)
  /\ node' = "policy"
  /\ tool' = "-"
  /\ UNCHANGED <<status, loops, ctx, asked>>

\* PlannerProposalError reaches the drive: the Run fails, without a new step
Fail ==
  /\ status' = "failed"
  /\ outcome' = IF outcome = "none" THEN "not_resolved" ELSE outcome
  /\ node' = "end"
  /\ tool' = "-"
  /\ UNCHANGED <<steps, plan, loops, ctx, more, asked>>

\* The first answer.  The provider may also be missing or fail.
FirstAnswer ==
  /\ node = "ask"
  /\ \/ \E a \in Answer :
          \/ Accept(a)
          \/ /\ Verdict(a) \in Tools
             /\ node' = "repair"
             /\ tool' = Verdict(a)
             /\ UNCHANGED <<status, outcome, steps, plan, loops, ctx, more, asked>>
          \/ Verdict(a) = "never" /\ Fail
     \/ Fail

\* _safe_finish_fallback: a finish that fails twice ends inconclusive, on the
\* verification evidence the round was shown.
Fallback ==
  /\ ctx.checks /\ CanConclude
  /\ outcome' = "inconclusive"
  /\ more' = FALSE
  /\ node' = "policy"
  /\ tool' = "-"
  /\ UNCHANGED <<status, steps, plan, loops, ctx, asked>>

\* mutant: repaired until it is right
RepairUntilRight ==
  /\ node = "repair"
  /\ \E a \in Answer :
       \/ Accept(a)
       \/ /\ Verdict(a) \in Tools
          /\ tool' = Verdict(a)
          /\ UNCHANGED <<status, outcome, steps, plan, loops, node, ctx, more, asked>>

\* The repaired answer: any tool the phase allows is taken, not only the one
\* asked for; a second refusal is final.
SecondAnswer ==
  /\ node = "repair"
  /\ \/ \E a \in Answer :
          \/ Accept(a)
          \/ /\ Verdict(a) # "-"
             /\ IF tool = "finish" /\ Verdict(a) = "finish" /\ ctx.checks /\ CanConclude
                THEN Fallback ELSE Fail
     \/ Fail

-----------------------------------------------------------------------------
(* The rest of the round, as far as steps and budgets go.                  *)

Proposed == {i \in Ids : steps[i].st = "proposed"}

\* policy: a proposed step is allowed, denied or put to the owner; else an
\* open plan; else nothing is pending.
Policy ==
  /\ node = "policy"
  /\ \/ /\ Proposed # {}
        /\ \E i \in Proposed, st \in {"approved", "failed", "skipped"} :
             steps' = [steps EXCEPT ![i].st = st]
        /\ node' = "execute"
     \/ /\ Proposed = {}
        /\ node' = IF plan.st = "waiting" THEN "pause" ELSE "execute"
        /\ UNCHANGED steps
  /\ UNCHANGED <<status, outcome, plan, loops, ctx, tool, more, asked>>

\* the owner or the Guardian decides the plan, or its approval expires
Decision ==
  /\ node = "pause"
  /\ plan' \in {NoPlan, [plan EXCEPT !.st = "approved"]}
  /\ node' = "execute"
  /\ UNCHANGED <<status, outcome, steps, loops, ctx, tool, more, asked>>

Halted(st) == IF st = "unknown" THEN "attention" ELSE "running"

\* an approved probe or verification runs
ExecuteStep ==
  /\ node = "execute"
  /\ \E i \in Ids, st \in {"succeeded", "failed"} :
       /\ steps[i].st = "approved"
       /\ steps' = [steps EXCEPT ![i].st = st]
  /\ node' = "decide"
  /\ UNCHANGED <<status, outcome, plan, loops, ctx, tool, more, asked>>

\* an approved plan whose binding or budget no longer holds
InvalidatePlan ==
  /\ node = "execute"
  /\ plan.st = "approved"
  /\ plan' = NoPlan
  /\ node' = "decide"
  /\ UNCHANGED <<status, outcome, steps, loops, ctx, tool, more, asked>>

\* The next action of the plan, probe or write, is expanded and run; the first
\* that does not succeed ends the plan.
ExecutePlan ==
  /\ node = "execute"
  /\ plan.st = "approved"
  /\ Room(plan.left)
  /\ \E kind \in {"probe", "write"}, st \in {"succeeded", "failed", "unknown"} :
       /\ st = "unknown" => kind = "write"
       /\ \E id \in IF kind = "probe" THEN Probes ELSE {"-"} :
            steps' = NewStep(kind, id, st)
       /\ status' = Halted(st)
       /\ asked' = IF kind = "write" THEN FALSE ELSE asked
       /\ LET over == st # "succeeded" \/ plan.left = 1 IN
          /\ plan' = IF over THEN NoPlan ELSE [plan EXCEPT !.left = @ - 1]
          /\ node' = IF st = "unknown" THEN "end" ELSE IF over THEN "decide" ELSE "execute"
  /\ UNCHANGED <<outcome, loops, ctx, tool, more>>

\* nothing is approved: the node passes
SkipExecute ==
  /\ node = "execute"
  /\ plan.st # "approved"
  /\ \A i \in Ids : steps[i].st # "approved"
  /\ node' = "decide"
  /\ UNCHANGED <<status, outcome, steps, plan, loops, ctx, tool, more, asked>>

\* The round that is ending uses up the budget of rounds.
CountedLate == loops >= MaxLoops   \* mutant: compared before it is counted
LastRound   == loops + 1 >= MaxLoops

\* decide, and _finalize when it ends the Run
Decide ==
  /\ node = "decide"
  /\ loops' = loops + 1
  /\ \/ /\ LastRound
        /\ status' = "failed"
        /\ outcome' = (IF outcome = "none" THEN "not_resolved" ELSE outcome)
        /\ node' = "end"
     \/ /\ ~LastRound /\ ~more
        /\ status' = "completed"
        /\ outcome' = (IF outcome = "none" THEN "inconclusive" ELSE outcome)
        /\ node' = "end"
     \/ /\ ~LastRound /\ more
        /\ node' = "plan"
        /\ UNCHANGED <<status, outcome>>
  /\ UNCHANGED <<steps, plan, ctx, tool, more, asked>>

Ended == node = "end" /\ UNCHANGED vars

Round == StartRound \/ FirstAnswer \/ SecondAnswer \/ Policy \/ ExecuteStep
         \/ InvalidatePlan \/ ExecutePlan \/ SkipExecute \/ Decide

Next == Round \/ Decision \/ Ended

Spec == Init /\ [][Next]_vars

\* The worker drives on and the provider answers or times out; a plan nobody
\* decides expires.
FairSpec == Spec /\ WF_vars(Round) /\ WF_vars(Decision)

-----------------------------------------------------------------------------
(* Properties                                                              *)

\* Whatever the model asks for, probe by probe or as plans, the Run never has
\* more actions than its budget (repository.propose_probe, propose_plan and
\* the second look of drive._execute_approved_plan).
WithinActions == Actions <= MaxActions

\* Once the latest successful write has been verified no further step and no
\* further plan is added: the model may only conclude
\* (drive._planner_requires_finish, planner._dispatch).
VerifiedMeansFinish ==
  [][RequiresFinish => /\ Len(steps') = Len(steps)
                       /\ plan = NoPlan => plan' = NoPlan]_vars

\* A Run whose write was verified and whose model never gets a conclusion
\* right still gets one of the three outcomes, and every Run ends, whatever
\* the model answers, by its loops at the latest (drive.decide, _finalize).
Settled == status # "running" /\ (status = "attention" \/ outcome # "none")
RunEnds == []<>Settled

\* What planner.py:479-482 tells the model and USER_GUIDE.md:226 its reader: a
\* write is followed by a verification.  A Run may complete without one only
\* if the model was asked after the write.
AskedAfterWrite ==
  status = "completed" /\ Wrote # {} /\ ~RequiresFinish => asked

\* Both: the model does not lead the Run past its budget or its verification.
StaysInBounds == []WithinActions /\ VerifiedMeansFinish
=============================================================================
