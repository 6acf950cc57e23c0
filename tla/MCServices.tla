----------------------------- MODULE MCServices -----------------------------
(* The services around a Run and around the hosts: the mail relay, the index *)
(* of the knowledge base, a diagnosis, the rounds of an investigation, the   *)
(* stream of a Run's events, the evidence of its steps and the authority of  *)
(* its commands.  They are checked side by side; a behaviour is one of       *)
(* theirs, and the others do not move.                                       *)
EXTENDS PlanAuthority

CONSTANTS Requests, MinLimit, HourLimit, MaxRetries, MaxFaults, r1, r2,  \* MailRelay
          Client, Reader, Task, Doc, Model, MaxOps, MaxMsgs,
          NoDoc, NoModel, c1, c2, t1, t2, m1, d1,        \* KnowledgeIndex
          Host, ProbesOfProfile, Budget, Canceller,      \* Diagnostics
          Probes, MaxActions, MaxLoops, MinProbes, MaxPlan,  \* Investigation
          Batch, MaxSeq, MaxDrops,                       \* EventStream
          Drive, Writes, Checks                          \* RunEvidence

VARIABLES part,
  at, expire, count, ttl, tries, smtp, refused, copies, answer, faults,
  cfg, doc, born, index, job, saw, goal, search, msgs, task, view, todo_k, ops,
  deaths_k, past,
  run_d, report, evidence_d, granted, present, work, probe, todo_d, items, heard, ask,
  early, overrun,
  status_i, outcome_i, steps, plan_i, loops, node, ctx, tool, more, asked,
  seq, ended, open, sent, wire, got, closed, drops,
  status_e, attention, done, claim, pc, todo_e, evidence_e, outcome_e

ML == INSTANCE MailRelay
KI == INSTANCE KnowledgeIndex WITH todo <- todo_k, deaths <- deaths_k
DI == INSTANCE Diagnostics    WITH Probes <- ProbesOfProfile, run <- run_d,
                                   evidence <- evidence_d, todo <- todo_d
IV == INSTANCE Investigation  WITH status <- status_i, outcome <- outcome_i,
                                   plan <- plan_i
ES == INSTANCE EventStream
RE == INSTANCE RunEvidence    WITH Worker <- Drive, status <- status_e,
                                   todo <- todo_e, evidence <- evidence_e,
                                   outcome <- outcome_e

ASSUME ServicesAssumption ==
  /\ ML!MailAssumption /\ KI!KnowledgeAssumption /\ IV!InvestigationAssumption
  /\ ES!StreamAssumption /\ RE!EvidenceAssumption /\ DI!DiagnosisAssumption
  /\ PlanAuthorityAssumption

mail          == <<at, expire, count, ttl, tries, smtp, refused, copies, answer, faults>>
knowledge     == <<cfg, doc, born, index, job, saw, goal, search, msgs, task, view,
                   todo_k, ops, deaths_k, past>>
diagnosis     == <<run_d, report, evidence_d, granted, present, work, probe, todo_d,
                   items, heard, ask, early, overrun>>
investigation == <<status_i, outcome_i, steps, plan_i, loops, node, ctx, tool, more, asked>>
stream        == <<seq, ended, open, sent, wire, got, closed, drops>>
evidence      == <<status_e, attention, done, claim, pc, todo_e, evidence_e, outcome_e>>
all == <<part, vars, mail, knowledge, diagnosis, investigation, stream, evidence>>

In(p) == part = p

\* an action of one part is a step in which the others stand still
Turn(mail_, knowledge_, diagnosis_, investigation_, stream_, authority_) ==
  /\ UNCHANGED <<part, evidence>>
  /\ \/ /\ In("mail") /\ mail_
        /\ UNCHANGED <<knowledge, diagnosis, investigation, stream, vars>>
     \/ /\ In("knowledge") /\ knowledge_
        /\ UNCHANGED <<mail, diagnosis, investigation, stream, vars>>
     \/ /\ In("diagnosis") /\ diagnosis_
        /\ UNCHANGED <<mail, knowledge, investigation, stream, vars>>
     \/ /\ In("investigation") /\ investigation_
        /\ UNCHANGED <<mail, knowledge, diagnosis, stream, vars>>
     \/ /\ In("stream") /\ stream_
        /\ UNCHANGED <<mail, knowledge, diagnosis, investigation, vars>>
     \/ /\ In("authority") /\ authority_
        /\ UNCHANGED <<mail, knowledge, diagnosis, investigation, stream>>

\* The models and the documents are alike: the index starts with m1 and d1.
\* The host is a lab at first, and the mode varies only where it matters.
MCInit ==
  /\ part \in {"mail", "knowledge", "diagnosis", "investigation", "stream", "evidence",
              "authority"}
  /\ ML!Init /\ DI!Init /\ IV!Init /\ ES!Init /\ RE!Init
  /\ KI!Init /\ cfg.model = m1 /\ born = {d1}
  /\ Init /\ row.env = "lab" /\ (In("authority") \/ mode = "ask")

MCNext ==
  \/ Turn(ML!Next, KI!Next, DI!Next, IV!Next, ES!Next, Next)
  \/ /\ In("evidence") /\ RE!Next
     /\ UNCHANGED <<part, vars, mail, knowledge, diagnosis, investigation, stream>>

\* The fairness of the parts.  As part never changes, fairness to a turn is
\* fairness to the action of the part that moves; nothing of RunEvidence is fair.
MCFairness ==
  /\ WF_all(Turn(ML!Step(r1),     KI!Dispatch(c1), DI!Diagnose, IV!Round,    ES!Connect, Work))
  /\ WF_all(Turn(ML!Step(r2),     KI!Dispatch(c2), FALSE,       IV!Decision, ES!Poll,    FALSE))
  /\ WF_all(Turn(ML!WindowPasses, KI!Rebuild(t1),  FALSE,       FALSE,       ES!Receive, FALSE))
  /\ WF_all(Turn(FALSE,           KI!Rebuild(t2),  FALSE,       FALSE,       FALSE,      FALSE))

MCSpec == MCInit /\ [][MCNext]_all /\ MCFairness

\* The types of the part that moves; the others are as Init left them.
AllTypesOK == /\ In("mail")          => ML!TypeOK
              /\ In("knowledge")     => KI!TypeOK
              /\ In("diagnosis")     => DI!TypeOK
              /\ In("investigation") => IV!TypeOK
              /\ In("stream")        => ES!TypeOK
              /\ In("evidence")      => RE!TypeOK
              /\ In("authority")     => TypeOK

MailIsTrue        == In("mail") => ML!MailIsTrue
AnswersAreCurrent == In("knowledge") => KI!AnswersAreCurrent
DiagnosisIsTrue   == In("diagnosis") => DI!DiagnosisIsTrue
StaysInBounds     == IV!StaysInBounds
StreamIsWhole     == In("stream") => ES!StreamIsWhole
ConclusionHolds   == RE!ConclusionHolds

\* Each part comes to its end, as EveryoneAnswered, RebuildEnds, DiagnosisEnds,
\* RunEnds, EndIsSeen and WithdrawalTakesEffect say of it.
ServicesSettle ==
  []<>(CASE In("mail")          -> ML!Settled
         [] In("knowledge")     -> KI!Settled
         [] In("diagnosis")     -> DI!Settled
         [] In("investigation") -> IV!Settled
         [] In("stream")        -> ES!Settled
         [] In("authority")     -> Settled
         [] In("evidence")      -> TRUE)
=============================================================================
