------------------------------ MODULE RunIntake ------------------------------
(***************************************************************************)
(* How Runs come in for one host: POST /ai/autonomous-runs and .../start,   *)
(* the Alertmanager webhook with the notifications of one alert (views.py), *)
(* and the transactions of repository.py behind them.  They run with those  *)
(* of the worker and of the expiry sweep.  A transaction reads the Run once *)
(* and is decided when its first event meets the unique key on (run_id,     *)
(* sequence); only cancelling and the worker's own steps lock the Run.      *)
(***************************************************************************)
EXTENDS Naturals, Sequences, FiniteSets

CONSTANTS
  Req,        \* requests in flight
  Run,        \* ids for new Runs
  Worker, Sweeper, None,
  Budget,     \* run_artifact_bytes
  StepLimit,  \* step_output_bytes
  MaxSeq      \* bound: events of a Run when a request arrives

ASSUME IntakeAssumption ==
  /\ {Worker, Sweeper, None} \cap Req = {}
  /\ Worker # Sweeper /\ Worker # None /\ Sweeper # None
  /\ Budget \in Nat /\ StepLimit \in Nat /\ MaxSeq \in Nat

VARIABLES
  run,    \* t_ai_autonomous_run: status, trigger, sequence, artifact bytes;
          \* None: no such Run
  log,    \* t_ai_autonomous_event
  stale,  \* Runs not updated within the time to live
  tx,     \* per actor: the Run as its transaction has read it
  req,    \* per request: what it is, where it is, the Run it works on and the
          \* status it has read
  accepted  \* a firing notification was answered with 202 (history)

vars == <<run, log, stale, tx, req, accepted>>
-----------------------------------------------------------------------------
Actor    == Req \cup {Worker, Sweeper}
Terminal == {"completed", "failed", "cancelled", "expired"}
Status   == Terminal \cup {"draft", "queued", "running"}
Rows     == [status : Status, alert : BOOLEAN, seq : Nat, bytes : Nat]
Reads    == [run : Run, status : Status, seq : Nat, bytes : Nat]
ASSUME NoneAssumption == None \notin Run \cup Status /\ None \notin Rows \cup Reads

Runs     == {r \in Run : run[r] # None}
Active   == {r \in Runs : run[r].status \notin Terminal}
Alerted  == {r \in Runs : run[r].alert}

\* The status an event tells of.
Told(e) == CASE e = "run_created"      -> "draft"
             [] e = "run_started"      -> "queued"
             [] e = "run_completed"    -> "completed"
             [] e = "budget_exhausted" -> "failed"
             [] e = "run_cancelled"    -> "cancelled"
             [] e = "run_expired"      -> "expired"
             [] OTHER                  -> None
\* The status after the events of a transaction, of which one may tell of a change.
StatusAfter(s, events) ==
  LET told == {Told(events[i]) : i \in DOMAIN events} \ {None} IN
  IF told = {} THEN s ELSE CHOOSE n \in told : TRUE

AnySeq(t) == TRUE  \* mutant: nothing keeps two events of one number apart
Fresh(t)  == run[t.run].seq = t.seq

Row(r)     == [run |-> r, status |-> run[r].status, seq |-> run[r].seq,
               bytes |-> run[r].bytes]
Read(a, r) == tx' = [tx EXCEPT ![a] = Row(r)]
Close(a)   == tx' = [tx EXCEPT ![a] = None]

\* The events of a transaction, the change they tell of and size more bytes of
\* artifacts, if it was not overtaken.
Write(t, events, size) ==
  LET r == t.run IN
  IF Fresh(t)
  THEN /\ run' = [run EXCEPT
                    ![r] = [status |-> StatusAfter(@.status, events), alert |-> @.alert,
                            seq |-> t.seq + Len(events), bytes |-> @.bytes + size]]
       /\ log' = [log EXCEPT ![r] = @ \o events]
       /\ stale' = stale \ {r}
  ELSE UNCHANGED <<run, log, stale>>

\* How much create_artifact keeps of an output: the sum of the artifacts is
\* that of the snapshot the transaction began with, though the row is locked.
Remaining(t) == Budget - t.bytes
Sizes(t)     == {IF n < Remaining(t) THEN n ELSE Remaining(t) : n \in 1 .. StepLimit}

Idle == [pc |-> "idle", what |-> None, run |-> None, status |-> None]

Init ==
  /\ run = [r \in Run |-> None] /\ log = [r \in Run |-> <<>>]
  /\ stale = {}
  /\ tx = [a \in Actor |-> None]
  /\ req = [q \in Req |-> Idle]
  /\ accepted = FALSE

At(q, l) == req[q].pc = l
Go(q, l) == req' = [req EXCEPT ![q].pc = l]
Hold(q, l, r, s) ==
  req' = [req EXCEPT ![q] = [pc |-> l, what |-> @.what, run |-> r, status |-> s]]
Reply(q, a) ==
  /\ req' = [req EXCEPT ![q] = Idle]
  /\ accepted' = (accepted \/ (a = "accepted" /\ req[q].what = "firing"))
-----------------------------------------------------------------------------
(* create_run                                                              *)

Arrive(q) ==
  /\ At(q, "idle")
  /\ \A r \in Runs : run[r].seq < MaxSeq
  /\ \E what \in {"firing", "resolved", "create", "start"} :
     \E r \in IF what = "start" THEN Runs ELSE {None} :
       req' = [req EXCEPT ![q] =
                 [pc |-> CASE what = "create" -> "check"
                           [] what = "start"  -> "start"
                           [] OTHER           -> "find",
                  what |-> what, run |-> r, status |-> None]]
  /\ UNCHANGED <<run, log, stale, tx, accepted>>

\* The goal, the mode, the grants and the host are checked, and that the host
\* has no active Run.
Check(q) ==
  /\ At(q, "check")
  /\ \/ Reply(q, "refused")
     \/ /\ Go(q, IF Active = {} THEN "insert" ELSE "conflict")
        /\ UNCHANGED accepted
  /\ UNCHANGED <<run, log, stale, tx>>

\* The unique keys on the active host and on the trigger.
Clash(alert)      == Active # {} \/ (alert /\ Alerted # {})
Insert(q) ==
  /\ At(q, "insert")
  /\ LET alert == req[q].what = "firing" IN
     IF Clash(alert)
     THEN Go(q, "conflict") /\ UNCHANGED <<run, log, accepted>>
     ELSE \E r \in Run \ Runs :
            /\ run' = [run EXCEPT ![r] = [status |-> "draft", alert |-> alert,
                                         seq |-> 1, bytes |-> 0]]
            /\ log' = [log EXCEPT ![r] = <<"run_created">>]
            /\ IF alert
               THEN Hold(q, "firing", r, "draft") /\ UNCHANGED accepted
               ELSE Reply(q, "created")
  /\ UNCHANGED <<stale, tx>>

-----------------------------------------------------------------------------
(* alertmanager_webhook                                                    *)

\* find_run_by_trigger, at first or after a conflict.
Found(q, l) ==
  \E r \in Alerted : Hold(q, l, r, run[r].status) /\ UNCHANGED accepted
Find(q) ==
  /\ At(q, "find")
  /\ CASE Alerted # {} -> Found(q, IF req[q].what = "firing"
                                  THEN "decide" ELSE "resolved")
       [] Alerted = {} /\ req[q].what = "firing" ->
            Go(q, "check") /\ UNCHANGED accepted
       [] OTHER -> Reply(q, "ignored")
  /\ UNCHANGED <<run, log, stale, tx>>
Conflict(q) ==
  /\ At(q, "conflict")
  /\ IF req[q].what = "firing" /\ Alerted # {}
     THEN Found(q, "decide")
     ELSE Reply(q, "conflict")
  /\ UNCHANGED <<run, log, stale, tx>>

\* record_evidence with an event: of the notification, or, when the query has
\* been answered or has failed, of Prometheus with its artifact.
Open(q) ==
  /\ tx[q] = None
  /\ \/ req[q].pc \in {"firing", "resolved"} /\ Read(q, req[q].run)
        /\ UNCHANGED req
     \/ At(q, "query") /\ Read(q, req[q].run)
        /\ \E l \in {"observed", "failed"} : Go(q, l)
     \/ At(q, "query") /\ Go(q, "decide") /\ UNCHANGED tx
  /\ UNCHANGED <<run, log, stale, accepted>>

\* A transaction that was overtaken ends in an error of the server.
Then(q, next) ==
  IF Fresh(tx[q]) THEN next ELSE Reply(q, "error")
Record(q) ==
  /\ tx[q] # None
  /\ \/ At(q, "firing") /\ Write(tx[q], <<"alert_firing">>, 0)
        /\ Then(q, Go(q, "query") /\ UNCHANGED accepted)
     \/ At(q, "resolved") /\ Write(tx[q], <<"alert_resolved">>, 0)
        /\ Then(q, Reply(q, "accepted"))
     \/ /\ At(q, "observed")
        /\ \E n \in Sizes(tx[q]) :
             Write(tx[q], <<"artifact_created", "prometheus_observed">>, n)
        /\ Then(q, Go(q, "decide") /\ UNCHANGED accepted)
     \/ At(q, "failed") /\ Write(tx[q], <<"prometheus_observed">>, 0)
        /\ Then(q, Go(q, "decide") /\ UNCHANGED accepted)
  /\ Close(q)

\* By the status it has read: a draft is started, an ended Run left alone.
AsIs(s) == "dispatch"  \* mutant: only the creator starts the Run
Way(s)  == CASE s = "draft" -> "start" [] s \in Terminal -> "reply"
             [] OTHER -> "dispatch"
Decide(q) ==
  /\ At(q, "decide")
  /\ Go(q, Way(req[q].status))
  /\ UNCHANGED <<run, log, stale, tx, accepted>>

-----------------------------------------------------------------------------
(* start_run, _dispatch_drive                                              *)

\* The grants are checked again; only a draft may be started.
Start(q) ==
  /\ At(q, "start") /\ tx[q] = None
  /\ \/ Reply(q, "refused") /\ UNCHANGED tx
     \/ run[req[q].run].status # "draft" /\ Reply(q, "conflict") /\ UNCHANGED tx
     \/ /\ run[req[q].run].status = "draft"
        /\ Read(q, req[q].run)
        /\ Go(q, IF req[q].run \in stale THEN "expire" ELSE "queue")
        /\ UNCHANGED accepted
  /\ UNCHANGED <<run, log, stale>>
Queue(q) ==
  /\ \/ At(q, "queue") /\ Write(tx[q], <<"run_started">>, 0)
        /\ Then(q, Go(q, "dispatch") /\ UNCHANGED accepted)
     \/ At(q, "expire") /\ Write(tx[q], <<"run_expired">>, 0)
        /\ Then(q, Reply(q, "conflict"))
  /\ Close(q)

\* A dispatch that fails is logged; the worker's scan finds the Run.
Dispatch(q) ==
  /\ req[q].pc \in {"dispatch", "reply"}
  /\ Reply(q, "accepted")
  /\ UNCHANGED <<run, log, stale, tx>>

\* The server dies, or the client is gone and its request is cut off.
Die(q) ==
  /\ ~At(q, "idle")
  /\ Reply(q, "lost") /\ Close(q)
  /\ UNCHANGED <<run, log, stale>>

-----------------------------------------------------------------------------
(* The worker, the sweep and the owner                                     *)

\* claim_run: one conditional UPDATE, and no event tells of it.
Take(r) ==
  /\ run[r].status = "queued"
  /\ run' = [run EXCEPT ![r].status = "running"]
  /\ UNCHANGED <<log, stale, tx, req, accepted>>

\* Under the row's lock, which the transaction takes first.
Locked(r, e) == Write(Row(r), <<e>>, 0)
Finish(r) ==
  /\ run[r].status = "running"
  /\ \E e \in {"run_completed", "budget_exhausted", "run_cancelled"} :
       Locked(r, e)
  /\ UNCHANGED <<tx, req, accepted>>
Cancel(r) ==
  /\ run[r].status \in {"draft", "queued"} /\ Locked(r, "run_cancelled")
  /\ UNCHANGED <<tx, req, accepted>>

\* The output of a step becomes an artifact; create_artifact has read the Run
\* before it locks it.
Output(r) ==
  /\ tx[Worker] = None /\ run[r].status = "running" /\ run[r].seq <= MaxSeq
  /\ Read(Worker, r)
  /\ UNCHANGED <<run, log, stale, req, accepted>>
Keep ==
  /\ tx[Worker] # None
  /\ \E n \in Sizes(tx[Worker]) : Write(tx[Worker], <<"artifact_created">>, n)
  /\ Close(Worker)
  /\ UNCHANGED <<req, accepted>>

\* Time passes over a Run nobody changes; the sweep expires it as a draft.
Age(r) ==
  /\ run[r].status = "draft" /\ r \notin stale
  /\ stale' = stale \cup {r}
  /\ UNCHANGED <<run, log, tx, req, accepted>>
Sweep(r) ==
  /\ tx[Sweeper] = None /\ r \in stale /\ run[r].status = "draft"
  /\ Read(Sweeper, r)
  /\ UNCHANGED <<run, log, stale, req, accepted>>
Expire ==
  /\ tx[Sweeper] # None
  /\ Write(tx[Sweeper], <<"run_expired">>, 0) /\ Close(Sweeper)
  /\ UNCHANGED <<req, accepted>>

Next ==
  \/ \E q \in Req :
       \/ Arrive(q) \/ Check(q) \/ Insert(q) \/ Find(q) \/ Conflict(q)
       \/ Open(q) \/ Record(q) \/ Decide(q) \/ Start(q) \/ Queue(q)
       \/ Dispatch(q) \/ Die(q)
  \/ \E r \in Runs :
       Take(r) \/ Finish(r) \/ Cancel(r) \/ Output(r) \/ Age(r) \/ Sweep(r)
  \/ Keep \/ Expire

Spec == Init /\ [][Next]_vars
-----------------------------------------------------------------------------
TypeOK ==
  /\ \A r \in Run : run[r] \in Rows \cup {None}
  /\ stale \subseteq Runs
  /\ \A a \in Actor : tx[a] # None => tx[a] \in Reads /\ tx[a].run \in Runs
  /\ \A q \in Req : req[q].run \in Runs \cup {None} /\ (At(q, "idle") => tx[q] = None)

\* The events of a Run are numbered without a gap and tell its status, but for
\* the claim of a queued Run, although most transactions lock nothing: the last
\* event that tells of a status tells of this one (repository.py:429).
Tells(events, s) ==
  \E i \in DOMAIN events :
    /\ Told(events[i]) = s
    /\ \A k \in DOMAIN events : k > i => Told(events[k]) = None
LogTellsStatus ==
  \A r \in Runs :
    /\ run[r].seq = Len(log[r])
    /\ Tells(log[r], IF run[r].status = "running" THEN "queued" ELSE run[r].status)

\* However often and at once its notifications come, an alert has one Run, and
\* the Run one record that it fires; a host has one active Run
\* (repository.py:640, views.py:300).
OneRunPerAlert ==
  /\ Cardinality(Alerted) <= 1 /\ Cardinality(Active) <= 1
  /\ \A r \in Runs :
       Cardinality({i \in 1 .. Len(log[r]) : log[r][i] = "alert_firing"}) <= 1

\* A firing notification is accepted when a Run has been started for it or has
\* ended, whichever request created the Run (views.py:322).
AcceptedIsStarted ==
  accepted =>
    \E r \in Alerted : run[r].status # "draft"

\* Two outputs stored at once do not exceed the budget of the Run, although
\* each has summed up the artifacts before it had the lock (repository.py:1596).
WithinBudget == \A r \in Runs : run[r].bytes <= Budget

\* What docs/ai/API.md:145 says: an accepted alert has a Run that was started.
FiringStartsRun ==
  accepted =>
    \E r \in Alerted : \E i \in DOMAIN log[r] : log[r][i] = "run_started"

\* All of this: what comes in is taken once, started, within the budget and told
\* by its events.
IntakeIsSound == LogTellsStatus /\ OneRunPerAlert /\ AcceptedIsStarted /\ WithinBudget
=============================================================================
