----------------------------- MODULE RunEvidence -----------------------------
(***************************************************************************)
(* What a Run may conclude: the evidence recorded for its steps             *)
(* (drive._record_run_evidence), the conclusion of the planner              *)
(* (repository.conclude_run behind the claim fence) and the end of the Run  *)
(* (drive._finalize).  A worker whose lease has lapsed goes on until its    *)
(* next fence; recording evidence has none.                                 *)
(***************************************************************************)
EXTENDS Naturals, FiniteSets, FiniteSetsExt

CONSTANTS
  Worker,   \* calls of drive
  Writes,   \* steps that write, whose evidence is an action_observation
  Checks,   \* steps that verify, whose evidence is a verification_observation
  None

EvidenceAssumption == None \notin {"resolved", "not_resolved", "inconclusive"}

VARIABLES
  status,    \* "open", "succeeded", "failed", "outcome_unknown"
  attention, \* the Run is in needs_attention
  done,      \* the Run has ended
  claim,     \* the worker whose token is on the Run
  pc, todo,  \* per worker: where it is, and the steps it found unrecorded
  evidence,  \* how many evidence rows each step has
  outcome

Step == Writes \cup Checks

vars == <<status, attention, done, claim, pc, todo, evidence, outcome>>
-----------------------------------------------------------------------------
Executed == {"succeeded", "failed", "outcome_unknown"}
Unknown  == \E s \in Step : status[s] = "outcome_unknown"
Recorded == {s \in Step : evidence[s] > 0}
Active   == ~attention /\ ~done

Init ==
  /\ status = [s \in Step |-> "open"]
  /\ attention = FALSE /\ done = FALSE
  /\ claim = None
  /\ pc = [w \in Worker |-> "idle"] /\ todo = [w \in Worker |-> {}]
  /\ evidence = [s \in Step |-> 0]
  /\ outcome = None

\* The lease lapses and another worker claims the Run.
TakeOver(w) ==
  /\ ~done /\ claim # w /\ pc[w] = "idle"
  /\ claim' = w
  /\ UNCHANGED <<status, attention, done, pc, todo, evidence, outcome>>

\* The executor finishes a step under the claim; a write whose result is
\* not known stops the Run.
Execute(w, s) ==
  /\ claim = w /\ pc[w] = "idle" /\ Active
  /\ status[s] = "open"
  /\ \E x \in Executed :
       /\ x = "outcome_unknown" => s \in Writes
       /\ status' = [status EXCEPT ![s] = x]
       /\ attention' = (x = "outcome_unknown")
  /\ UNCHANGED <<done, claim, pc, todo, evidence, outcome>>

-----------------------------------------------------------------------------
(* _record_run_evidence                                                    *)

Missing == {s \in Step : status[s] \in Executed} \ Recorded
\* The guard is passed, and the steps without evidence are looked up.
Observe(w) ==
  /\ claim = w /\ pc[w] = "idle" /\ ~done
  /\ pc' = [pc EXCEPT ![w] = "record"]
  /\ todo' = [todo EXCEPT ![w] = Missing]
  /\ UNCHANGED <<status, attention, done, claim, evidence, outcome>>

\* One evidence row for each, in a transaction of its own, behind no fence.
Record(w) ==
  /\ pc[w] = "record"
  /\ IF todo[w] = {}
     THEN /\ pc' = [pc EXCEPT ![w] = "idle"]
          /\ UNCHANGED <<todo, evidence>>
     ELSE \E s \in todo[w] :
            /\ evidence' = [evidence EXCEPT ![s] = @ + 1]
            /\ todo' = [todo EXCEPT ![w] = @ \ {s}]
            /\ UNCHANGED pc
  /\ UNCHANGED <<status, attention, done, claim, outcome>>

-----------------------------------------------------------------------------
(* conclude_run, _finalize                                                 *)

AsAsked(asked, cited) == asked  \* mutant: the planner's word is taken
Outcome(asked, cited) ==
  IF Unknown THEN "inconclusive"
  ELSE IF asked = "resolved" /\ cited \cap Checks = {}
  THEN "inconclusive"
  ELSE asked

\* The first conclusion stays; it cites evidence of the Run.
Unset  == outcome = None
Conclude(w) ==
  /\ claim = w /\ pc[w] = "idle" /\ Active
  /\ Unset
  /\ \E asked \in {"resolved", "not_resolved", "inconclusive"},
        cited \in SUBSET Recorded \ {{}} :
       outcome' = Outcome(asked, cited)
  /\ pc' = [pc EXCEPT ![w] = "finish"]
  /\ UNCHANGED <<status, attention, done, claim, todo, evidence>>

Default(r) == CASE r = "completed" -> "inconclusive"
                [] r = "failed"    -> "not_resolved"
                [] OTHER           -> None
Finalize(w) ==
  /\ claim = w /\ pc[w] \in {"idle", "finish"} /\ Active
  /\ done' = TRUE
  /\ \E r \in {"completed", "failed", "cancelled"} :
       outcome' = IF outcome = None THEN Default(r) ELSE outcome
  /\ UNCHANGED <<status, attention, claim, pc, todo, evidence>>

\* request_cancel: the owner gives up a Run that waits for attention.
GiveUp ==
  /\ attention /\ ~done
  /\ done' = TRUE
  /\ UNCHANGED <<status, attention, claim, pc, todo, evidence, outcome>>

Next ==
  \/ GiveUp
  \/ \E w \in Worker :
       \/ TakeOver(w) \/ Observe(w) \/ Record(w) \/ Conclude(w) \/ Finalize(w)
       \/ \E s \in Step : Execute(w, s)

Spec == Init /\ [][Next]_vars
-----------------------------------------------------------------------------
\* The types of the variables.
TypeOK ==
  /\ status \in [Step -> Executed \cup {"open"}]
  /\ attention \in BOOLEAN /\ done \in BOOLEAN
  /\ claim \in Worker \cup {None}
  /\ todo \in [Worker -> SUBSET Step] /\ evidence \in [Step -> Nat]
  /\ outcome \in {None, "resolved", "not_resolved", "inconclusive"}

\* A Run is called resolved only when a verification has left evidence and no
\* write has an unknown result (repository.py:1803).
ResolvedIsVerified ==
  [][outcome = None /\ outcome' = "resolved" =>
       /\ \E s \in Recorded \cap Checks : status[s] \in Executed
       /\ ~Unknown]_vars

\* A Run concludes once (repository.py:1759).
ConcludesOnce == [][outcome # None => outcome' = outcome]_vars

\* What drive.py:770 says: every step has at most one evidence row.
OneEvidencePerStep == \A s \in Step : evidence[s] <= 1

\* What docs/ai/API.md:290 says: with an unknown write the Run is not resolved.
ResolvedHasNoUnknown == ~(outcome = "resolved" /\ Unknown)

\* Both: a Run is concluded once, and resolved only with a verification.
ConclusionHolds == ResolvedIsVerified /\ ConcludesOnce
=============================================================================
