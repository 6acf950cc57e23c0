-------------------------- MODULE RunIntake_proofs --------------------------
(* What comes in is taken once, started, within the budget and told by its  *)
(* events, for any requests, Runs, outputs and budget: IntakeIsSound.       *)
(*                                                                          *)
(* A transaction follows the Run it has read (Follows): as long as no event *)
(* was added since, the bytes it has summed up are those of the Run, and so *)
(* is the status but for the claim of a queued one.  Whoever is about to    *)
(* tell that an alert fires has made its Run, and nobody has told so yet    *)
(* (Unrecorded); whoever is about to accept an alert knows of its Run what  *)
(* no later step takes back (Placed).                                       *)
EXTENDS RunIntake, FiniteSetTheorems, TLAPS

Event == {"run_created", "run_started", "run_completed", "budget_exhausted", "run_cancelled",
          "run_expired", "alert_firing", "alert_resolved", "artifact_created",
          "prometheus_observed"}
Quiet == {"alert_firing", "alert_resolved", "artifact_created", "prometheus_observed"}

\* What a transaction adds to the events of a Run.
Added == {<<e>> : e \in Event \ {"run_created"}}
           \cup {<<"artifact_created", "prometheus_observed">>}

Unfired(r) == \A i \in DOMAIN log[r] : log[r][i] # "alert_firing"

\* The rows.
OneRun ==
  /\ \A r, s \in Alerted : r = s
  /\ \A r, s \in Active : r = s
  /\ \A r \in Runs : \A i, k \in DOMAIN log[r] :
       (log[r][i] = "alert_firing" /\ log[r][k] = "alert_firing") => i = k
Store ==
  /\ run \in [Run -> Rows \cup {None}] /\ log \in [Run -> Seq(Event)]
  /\ stale \subseteq Runs
  /\ LogTellsStatus /\ WithinBudget /\ OneRun

\* The open transactions.
Follows(t) ==
  /\ t.run \in Runs /\ t.seq <= run[t.run].seq
  /\ Fresh(t) => /\ t.bytes = run[t.run].bytes
                 /\ t.status # run[t.run].status => t.status = "queued"
Snapshots ==
  /\ tx \in [Actor -> Reads \cup {None}]
  /\ \A a \in Actor : tx[a] # None => Follows(tx[a])

\* The requests: where one has a Run, where it has a transaction on it.
Pc   == {"idle", "check", "insert", "conflict", "find", "start", "firing", "resolved", "query",
         "observed", "failed", "decide", "queue", "expire", "dispatch", "reply"}
Held == Pc \ {"idle", "check", "insert", "conflict", "find"}
Reading == {"firing", "resolved", "observed", "failed", "queue", "expire"}
What == {"firing", "resolved", "create", "start"}
Request == [pc : Pc, what : What \cup {None}, run : Run \cup {None}, status : Status \cup {None}]

Started(r) == run[r].status # "draft"
Placed(q) ==
  /\ req[q].run \in (IF req[q].pc \in Held THEN Runs ELSE {None})
  /\ tx[q] # None => req[q].pc \in Reading /\ tx[q].run = req[q].run
  /\ req[q].pc \in {"queue", "expire"} => tx[q] # None /\ tx[q].status = "draft"
  /\ req[q].pc = "find" => req[q].what \in {"firing", "resolved"}
  /\ req[q].pc = "resolved" => req[q].what = "resolved"
  /\ (req[q].pc \in Held /\ req[q].what = "firing") =>
       /\ run[req[q].run].alert
       /\ (req[q].status # "draft" \/ req[q].pc \in {"dispatch", "reply"})
            => Started(req[q].run)
Unrecorded ==
  \A q \in Req : At(q, "firing") =>
    /\ Unfired(req[q].run)
    /\ \A k \in Req : (At(k, "firing") /\ req[k].run = req[q].run) => k = q
Requests ==
  /\ req \in [Req -> Request] /\ accepted \in BOOLEAN
  /\ \A q \in Req : Placed(q)
  /\ Unrecorded
  /\ accepted => \E r \in Alerted : Started(r)

IInv == Store /\ Snapshots /\ Requests

-----------------------------------------------------------------------------
(* Events                                                                  *)

LEMMA ToldIs ==
  /\ \A e \in Event : Told(e) = None <=> e \in Quiet
  /\ \A e \in Event \ (Quiet \cup {"run_created"}) :
       Told(e) \in Terminal \/ (e = "run_started" /\ Told(e) = "queued")
  /\ Told("run_created") = "draft"
  BY NoneAssumption DEF Told, Event, Quiet, Status, Terminal

LEMMA AfterIs ==
  ASSUME NEW events \in Added, NEW s
  PROVE  \/ \E e \in Event \ (Quiet \cup {"run_created"}) :
              events = <<e>> /\ StatusAfter(s, events) = Told(e)
         \/ /\ \A i \in DOMAIN events : events[i] \in Quiet
            /\ StatusAfter(s, events) = s
<1> DEFINE told == {Told(events[i]) : i \in DOMAIN events} \ {None}
<1>1. ASSUME NEW e \in Event \ (Quiet \cup {"run_created"}), events = <<e>>
      PROVE  StatusAfter(s, events) = Told(e)
  <2>1. Told(e) # None
    BY ToldIs
  <2>2. told = {Told(e)}
    BY <1>1, <2>1
  <2> QED
    BY <2>2 DEF StatusAfter
<1>2. ASSUME \A i \in DOMAIN events : events[i] \in Quiet
      PROVE  StatusAfter(s, events) = s
  <2>1. \A i \in DOMAIN events : Told(events[i]) = None
    BY <1>2, ToldIs DEF Event, Quiet
  <2>2. told = {}
    BY <2>1
  <2> QED
    BY <2>2 DEF StatusAfter
<1>3. CASE \E e \in Event \ {"run_created"} : events = <<e>>
  <2>1. PICK e \in Event \ {"run_created"} : events = <<e>>
    BY <1>3
  <2>2. CASE e \in Quiet
    <3>1. \A i \in DOMAIN events : events[i] \in Quiet
      BY <2>1, <2>2
    <3> QED
      BY <1>2, <3>1
  <2>3. CASE e \notin Quiet
    BY <1>1, <2>1, <2>3
  <2> QED
    BY <2>2, <2>3
<1>4. CASE events = <<"artifact_created", "prometheus_observed">>
  <2>1. \A i \in DOMAIN events : events[i] \in Quiet
    BY <1>4 DEF Quiet
  <2> QED
    BY <1>2, <2>1
<1> QED
  BY <1>3, <1>4 DEF Added

LEMMA AddedIs ==
  ASSUME NEW events \in Added
  PROVE  /\ events \in Seq(Event) /\ Len(events) \in {1, 2} /\ DOMAIN events = 1 .. Len(events)
         /\ events # <<"alert_firing">> => \A i \in DOMAIN events : events[i] # "alert_firing"
         /\ \A i, k \in DOMAIN events :
              (events[i] = "alert_firing" /\ events[k] = "alert_firing") => i = k
<1>1. CASE \E e \in Event \ {"run_created"} : events = <<e>>
  <2>1. PICK e \in Event \ {"run_created"} : events = <<e>>
    BY <1>1
  <2> QED
    BY <2>1
<1>2. CASE events = <<"artifact_created", "prometheus_observed">>
  BY <1>2 DEF Event
<1> QED
  BY <1>1, <1>2 DEF Added

-----------------------------------------------------------------------------
(* Writes.                                                                 *)

\* What no later step takes back of a Run.
Grew == \A r \in Runs : /\ r \in Runs' /\ run'[r].alert = run[r].alert
                        /\ Started(r) => Started(r)'

LEMMA RowIs ==
  ASSUME Store, NEW r \in Runs
  PROVE  /\ r \in Run /\ run[r] \in Rows /\ run[r] # None
         /\ run[r].status \in Status /\ run[r].seq \in Nat /\ run[r].bytes \in Nat
         /\ log[r] \in Seq(Event) /\ Len(log[r]) = run[r].seq
  BY DEF Store, Runs, Rows, LogTellsStatus

\* A transaction that is not overtaken changes one row and adds to one log.
LEMMA WriteIs ==
  ASSUME Store, NEW t \in Reads, t.run \in Runs, NEW events \in Added, NEW n \in Nat,
         Write(t, events, n), Fresh(t)
  PROVE  \E row \in Rows :
           /\ run' = [run EXCEPT ![t.run] = row]
           /\ log' = [log EXCEPT ![t.run] = log[t.run] \o events]
           /\ stale' = stale \ {t.run}
           /\ row.status = StatusAfter(run[t.run].status, events)
           /\ row.alert = run[t.run].alert
           /\ row.seq = run[t.run].seq + Len(events)
           /\ row.bytes = run[t.run].bytes + n
<1>1. PICK r, o, st, m, b :
        /\ r = t.run /\ o = run[r] /\ st = StatusAfter(o.status, events)
        /\ m = t.seq + Len(events) /\ b = o.bytes + n
  OBVIOUS
<1>2. /\ r \in Run /\ o \in Rows /\ o.status \in Status /\ o.bytes \in Nat /\ o.seq \in Nat
  BY <1>1, RowIs
<1>3. st \in Status
  <2>1. \A e \in Event \ (Quiet \cup {"run_created"}) : Told(e) \in Status
    BY ToldIs DEF Status
  <2> QED
    BY <1>1, <1>2, <2>1, AfterIs
<1>4. Len(events) \in Nat /\ t.seq = o.seq /\ m \in Nat /\ b \in Nat
  BY <1>1, <1>2, AddedIs DEF Fresh
<1>5. PICK row : row = [status |-> st, alert |-> o.alert, seq |-> m, bytes |-> b]
  OBVIOUS
<1>6. /\ row \in Rows /\ row.status = st /\ row.alert = o.alert /\ row.seq = m
      /\ row.bytes = b
  BY <1>2, <1>3, <1>4, <1>5 DEF Rows
<1>7. /\ run' = [run EXCEPT ![r] = row] /\ log' = [log EXCEPT ![r] = log[r] \o events]
      /\ stale' = stale \ {r}
  BY <1>1, <1>5 DEF Write
<1> QED
  BY <1>1, <1>4, <1>6, <1>7

LEMMA TellsOn ==
  ASSUME NEW l \in Seq(Event), NEW events \in Added, NEW s \in Status, Tells(l, s)
  PROVE  Tells(l \o events, StatusAfter(s, events))
<1> DEFINE m == l \o events
<1>1. /\ events \in Seq(Event) /\ Len(events) \in {1, 2} /\ DOMAIN events = 1 .. Len(events)
      /\ DOMAIN l = 1 .. Len(l) /\ Len(l) \in Nat
      /\ DOMAIN m = 1 .. (Len(l) + Len(events))
      /\ \A i \in DOMAIN l : m[i] = l[i]
      /\ \A i \in DOMAIN events : m[Len(l) + i] = events[i]
  <2>1. events \in Seq(Event) /\ Len(events) \in {1, 2} /\ DOMAIN events = 1 .. Len(events)
    BY AddedIs
  <2> QED
    BY <2>1
<1>2. \A k \in DOMAIN m : k \notin DOMAIN l => \E i \in DOMAIN events : k = Len(l) + i
  <2> SUFFICES ASSUME NEW k \in 1 .. (Len(l) + Len(events)), k \notin 1 .. Len(l)
               PROVE  \E i \in 1 .. Len(events) : k = Len(l) + i
    BY <1>1
  <2>1. k - Len(l) \in 1 .. Len(events) /\ k = Len(l) + (k - Len(l))
    BY <1>1
  <2> QED
    BY <2>1
<1>3. CASE \E e \in Event \ (Quiet \cup {"run_created"}) :
             events = <<e>> /\ StatusAfter(s, events) = Told(e)
  <2>1. PICK e \in Event \ (Quiet \cup {"run_created"}) :
               events = <<e>> /\ StatusAfter(s, events) = Told(e)
    BY <1>3
  <2>2. /\ Len(events) = 1 /\ Len(l) + 1 \in DOMAIN m /\ m[Len(l) + 1] = e
        /\ \A k \in DOMAIN m : ~(k > Len(l) + 1)
    BY <1>1, <2>1
  <2> QED
    BY <2>1, <2>2 DEF Tells
<1>4. CASE (\A i \in DOMAIN events : events[i] \in Quiet) /\ StatusAfter(s, events) = s
  <2>1. PICK i \in DOMAIN l : /\ Told(l[i]) = s
                              /\ \A k \in DOMAIN l : k > i => Told(l[k]) = None
    BY DEF Tells
  <2>2. \A j \in DOMAIN events : Told(events[j]) = None
    BY <1>4, ToldIs DEF Event, Quiet
  <2>3. i \in DOMAIN m /\ Told(m[i]) = s
    BY <1>1, <2>1
  <2>4. \A k \in DOMAIN m : k > i => Told(m[k]) = None
    BY <1>1, <1>2, <2>1, <2>2
  <2> QED
    BY <1>4, <2>3, <2>4 DEF Tells
<1> QED
  BY <1>3, <1>4, AfterIs

LEMMA AlertsIn ==
  ASSUME Store, NEW r \in Runs, NEW l, l = log[r], NEW events \in Added,
         events = <<"alert_firing">> => Unfired(r)
  PROVE  /\ \A i, k \in DOMAIN (l \o events) :
              ((l \o events)[i] = "alert_firing" /\ (l \o events)[k] = "alert_firing") => i = k
         /\ (Unfired(r) /\ events # <<"alert_firing">>) =>
              \A i \in DOMAIN (l \o events) : (l \o events)[i] # "alert_firing"
<1> DEFINE m == l \o events
<1>1. /\ l \in Seq(Event) /\ events \in Seq(Event)
      /\ \A i, k \in DOMAIN l : (l[i] = "alert_firing" /\ l[k] = "alert_firing") => i = k
      /\ Unfired(r) => \A i \in DOMAIN l : l[i] # "alert_firing"
  BY RowIs, AddedIs DEF Store, OneRun, Unfired
<1>2. /\ DOMAIN m = 1 .. (Len(l) + Len(events)) /\ Len(l) \in Nat /\ Len(events) \in Nat
      /\ DOMAIN l = 1 .. Len(l) /\ DOMAIN events = 1 .. Len(events)
      /\ \A i \in DOMAIN l : m[i] = l[i]
      /\ \A i \in DOMAIN events : m[Len(l) + i] = events[i]
  BY <1>1
<1>3. ASSUME NEW k \in DOMAIN m PROVE k \in DOMAIN l \/ k - Len(l) \in DOMAIN events
  BY <1>2
<1>4. ASSUME NEW k \in DOMAIN m, m[k] = "alert_firing"
      PROVE  \/ k \in DOMAIN l /\ l[k] = "alert_firing"
             \/ k - Len(l) \in DOMAIN events /\ events[k - Len(l)] = "alert_firing"
  <2>1. CASE k \in DOMAIN l
    BY <1>2, <1>4, <2>1
  <2>2. CASE k - Len(l) \in DOMAIN events
    <3>1. m[Len(l) + (k - Len(l))] = events[k - Len(l)] /\ Len(l) + (k - Len(l)) = k
      BY <1>2, <2>2
    <3> QED
      BY <1>4, <2>2, <3>1
  <2> QED
    BY <1>3, <2>1, <2>2
<1>5. /\ events # <<"alert_firing">> => \A i \in DOMAIN events : events[i] # "alert_firing"
      /\ \A i, k \in DOMAIN events :
           (events[i] = "alert_firing" /\ events[k] = "alert_firing") => i = k
  BY AddedIs
<1>6. ASSUME NEW i \in DOMAIN m, NEW k \in DOMAIN m, m[i] = "alert_firing", m[k] = "alert_firing"
      PROVE  i = k
  <2>1. CASE events = <<"alert_firing">>
    <3>1. \A x \in DOMAIN l : l[x] # "alert_firing"
      BY <1>1, <2>1
    <3>2. i - Len(l) = k - Len(l)
      BY <1>4, <1>5, <1>6, <3>1
    <3> QED
      BY <1>2, <3>2
  <2>2. CASE events # <<"alert_firing">>
    BY <1>1, <1>4, <1>5, <1>6, <2>2
  <2> QED
    BY <2>1, <2>2
<1>7. ASSUME Unfired(r), events # <<"alert_firing">>, NEW i \in DOMAIN m
      PROVE  m[i] # "alert_firing"
  BY <1>1, <1>4, <1>5, <1>7
<1> QED
  BY <1>6, <1>7

LEMMA WriteKeeps ==
  ASSUME Store, NEW t \in Reads, Follows(t), NEW events \in Added, NEW n,
         Fresh(t) => n \in Nat /\ t.bytes + n <= Budget,
         events = <<"run_started">> => t.status = "draft",
         events = <<"alert_firing">> => Unfired(t.run),
         Write(t, events, n)
  PROVE  /\ Store' /\ Grew
         /\ \A s \in Reads : Follows(s) => Follows(s)'
         /\ \A r \in Runs : (Unfired(r) /\ (r # t.run \/ events # <<"alert_firing">>))
              => Unfired(r)'
         /\ (Fresh(t) /\ events = <<"run_started">>) => Started(t.run)'
<1>1. CASE ~Fresh(t)
  <2>1. UNCHANGED <<run, log, stale>>
    BY <1>1 DEF Write
  <2>2. Runs' = Runs /\ Active' = Active /\ Alerted' = Alerted
    BY <2>1 DEF Runs, Active, Alerted
  <2>3. Store'
    BY <2>1, <2>2 DEF Store, LogTellsStatus, WithinBudget, OneRun
  <2> QED
    BY <1>1, <2>1, <2>2, <2>3 DEF Grew, Started, Follows, Fresh, Unfired
<1>2. CASE Fresh(t)
  <2>1. PICK r \in Runs : r = t.run
    BY DEF Follows
  <2>2. PICK row \in Rows :
          /\ run' = [run EXCEPT ![r] = row]
          /\ log' = [log EXCEPT ![r] = log[r] \o events]
          /\ stale' = stale \ {r}
          /\ row.status = StatusAfter(run[r].status, events)
          /\ row.alert = run[r].alert
          /\ row.seq = run[r].seq + Len(events)
          /\ row.bytes = run[r].bytes + n
    BY <1>2, <2>1, WriteIs
  <2>3. /\ run \in [Run -> Rows \cup {None}] /\ log \in [Run -> Seq(Event)] /\ stale \subseteq Runs
        /\ r \in Run /\ run[r] \in Rows /\ run[r].status \in Status
        /\ run[r].seq \in Nat /\ run[r].bytes \in Nat /\ Len(log[r]) = run[r].seq
        /\ log[r] \in Seq(Event)
    BY <2>1, RowIs DEF Store
  <2>4. events \in Seq(Event) /\ Len(events) \in {1, 2}
    BY AddedIs
  <2>5. /\ run' \in [Run -> Rows \cup {None}] /\ run'[r] = row /\ row # None
        /\ \A x \in Run : x # r => run'[x] = run[x]
        /\ log' \in [Run -> Seq(Event)] /\ log'[r] = log[r] \o events
        /\ \A x \in Run : x # r => log'[x] = log[x]
        /\ Len(log[r] \o events) = row.seq
    <3>1. row # None
      BY NoneAssumption, <2>2
    <3> QED
      BY <2>2, <2>3, <2>4, <3>1
  <2>6. Runs' = Runs /\ stale' \subseteq Runs' /\ Alerted' = Alerted
    BY <2>2, <2>3, <2>5 DEF Runs, Alerted
  <2>7. /\ row.status \in Terminal \/ row.status = run[r].status
             \/ (row.status = "queued" /\ run[r].status = "draft")
        /\ events = <<"run_started">> => row.status = "queued"
    <3>1. CASE \E e \in Event \ (Quiet \cup {"run_created"}) :
                 events = <<e>> /\ StatusAfter(run[r].status, events) = Told(e)
      <4>1. PICK e \in Event \ (Quiet \cup {"run_created"}) :
                   events = <<e>> /\ StatusAfter(run[r].status, events) = Told(e)
        BY <3>1
      <4>2. CASE Told(e) \in Terminal /\ e # "run_started"
        BY <2>2, <4>1, <4>2
      <4>3. CASE e = "run_started" /\ Told(e) = "queued"
        <5>1. t.status = "draft" /\ (t.status # run[r].status => t.status = "queued")
          BY <1>2, <2>1, <4>1, <4>3 DEF Follows
        <5> QED
          BY <2>2, <4>1, <4>3, <5>1
      <4>4. Told("run_started") = "queued"
        BY DEF Told
      <4> QED
        BY <4>2, <4>3, <4>4, ToldIs DEF Terminal
    <3>2. CASE /\ \A i \in DOMAIN events : events[i] \in Quiet
               /\ StatusAfter(run[r].status, events) = run[r].status
      <4>1. events # <<"run_started">>
        BY <3>2 DEF Quiet
      <4> QED
        BY <2>2, <3>2, <4>1
    <3> QED
      BY <3>1, <3>2, AfterIs
  <2>8. LogTellsStatus'
    <3>1. ASSUME NEW x \in Runs, x # r
          PROVE  /\ run'[x].seq = Len(log'[x])
                 /\ Tells(log'[x], IF run'[x].status = "running" THEN "queued" ELSE run'[x].status)
      BY <2>5, <3>1 DEF Store, LogTellsStatus, Runs
    <3>2. run'[r].seq = Len(log'[r])
      BY <2>5
    <3>3. Tells(log[r], IF run[r].status = "running" THEN "queued" ELSE run[r].status)
      BY <2>1 DEF Store, LogTellsStatus
    <3>4. Tells(log'[r], IF row.status = "running" THEN "queued" ELSE row.status)
      <4>1. PICK s \in Status : s = IF run[r].status = "running" THEN "queued" ELSE run[r].status
        BY <2>3 DEF Status
      <4>2. Tells(log'[r], StatusAfter(s, events))
        BY <2>3, <2>5, <3>3, <4>1, TellsOn
      <4>3. StatusAfter(s, events) = IF row.status = "running" THEN "queued" ELSE row.status
        <5>1. CASE \A i \in DOMAIN events : events[i] \in Quiet
          <6>1. ~ \E e \in Event \ (Quiet \cup {"run_created"}) : events = <<e>>
            BY <5>1
          <6>2. StatusAfter(s, events) = s /\ StatusAfter(run[r].status, events) = run[r].status
            BY <6>1, AfterIs
          <6> QED
            BY <2>2, <4>1, <6>2
        <5>2. CASE ~ \A i \in DOMAIN events : events[i] \in Quiet
          <6>1. PICK e \in Event \ (Quiet \cup {"run_created"}) :
                  events = <<e>> /\ StatusAfter(s, events) = Told(e)
            BY <5>2, AfterIs
          <6>2. StatusAfter(run[r].status, events) = Told(e)
            <7>1. PICK f \in Event \ (Quiet \cup {"run_created"}) :
                    events = <<f>> /\ StatusAfter(run[r].status, events) = Told(f)
              BY <5>2, AfterIs
            <7>2. e = f
              BY <6>1, <7>1
            <7> QED
              BY <7>1, <7>2
          <6>3. Told(e) # "running"
            BY <6>1, ToldIs DEF Terminal
          <6> QED
            BY <2>2, <6>1, <6>2, <6>3
        <5> QED
          BY <5>1, <5>2
      <4> QED
        BY <4>2, <4>3
    <3> QED
      BY <2>5, <2>6, <3>1, <3>2, <3>4 DEF LogTellsStatus
  <2>9. WithinBudget'
    <3>1. t.bytes = run[r].bytes
      BY <1>2, <2>1 DEF Follows
    <3>2. row.bytes <= Budget
      BY <1>2, <2>2, <3>1
    <3> QED
      BY <2>5, <2>6, <3>2 DEF Store, WithinBudget, Runs
  <2>10. OneRun'
    <3>1. Active' \subseteq Active
      BY <2>3, <2>5, <2>6, <2>7 DEF Active, Runs, Terminal
    <3>2. \A i, k \in DOMAIN log'[r] :
            (log'[r][i] = "alert_firing" /\ log'[r][k] = "alert_firing") => i = k
      <4>1. PICK l : l = log[r]
        OBVIOUS
      <4>2. events = <<"alert_firing">> => Unfired(r)
        BY <2>1
      <4>3. \A i, k \in DOMAIN (l \o events) :
              ((l \o events)[i] = "alert_firing" /\ (l \o events)[k] = "alert_firing") => i = k
        BY <2>1, <4>1, <4>2, AlertsIn
      <4> QED
        BY <2>5, <4>1, <4>3
    <3> QED
      BY <2>5, <2>6, <3>1, <3>2 DEF Store, OneRun, Runs
  <2>11. Store'
    BY <2>5, <2>6, <2>8, <2>9, <2>10 DEF Store
  <2>12. Grew
    BY <2>2, <2>3, <2>5, <2>6, <2>7 DEF Grew, Started, Runs, Terminal
  <2>13. ASSUME NEW s \in Reads, Follows(s) PROVE Follows(s)'
    <3>1. s.run \in Runs /\ s.seq <= run[s.run].seq /\ s.seq \in Nat /\ s.run \in Run
      BY <2>13 DEF Follows, Reads, Runs
    <3>2. CASE s.run = r
      <4>1. row.seq > run[r].seq /\ row.seq \in Nat
        <5>1. row.seq = run[r].seq + Len(events) /\ run[r].seq \in Nat /\ Len(events) \in {1, 2}
          BY <2>2, <2>3, <2>4
        <5>2. \A b \in Nat, c \in {1, 2} : b + c > b /\ b + c \in Nat
          OBVIOUS
        <5> QED
          BY <5>1, <5>2
      <4>2. run'[s.run] = row /\ s.seq <= row.seq /\ s.seq # row.seq
        BY <2>3, <2>5, <3>1, <3>2, <4>1
      <4> QED
        BY <2>6, <3>1, <4>2 DEF Follows, Fresh
    <3>3. CASE s.run # r
      BY <2>5, <2>6, <2>13, <3>1, <3>3 DEF Follows, Fresh
    <3> QED
      BY <3>2, <3>3
  <2>14. ASSUME NEW x \in Runs, Unfired(x), x # t.run \/ events # <<"alert_firing">>
         PROVE  Unfired(x)'
    <3>1. CASE x = r
      <4>1. \A i \in DOMAIN (log[r] \o events) : (log[r] \o events)[i] # "alert_firing"
        BY <2>1, <2>14, <3>1, AlertsIn
      <4> QED
        BY <2>5, <3>1, <4>1 DEF Unfired
    <3>2. CASE x # r
      BY <2>5, <2>14, <3>2 DEF Unfired, Runs
    <3> QED
      BY <3>1, <3>2
  <2>15. events = <<"run_started">> => Started(t.run)'
    BY <2>1, <2>2, <2>5, <2>7 DEF Started
  <2> QED
    BY <2>11, <2>12, <2>13, <2>14, <2>15
<1> QED
  BY <1>1, <1>2

-----------------------------------------------------------------------------
(* Requests.                                                               *)

\* A step of q leaves the others their transactions, and no record of an alert
\* where one of them is to make it.
Alone(q) ==
  \A k \in Req \ {q} :
    /\ tx'[k] = tx[k]
    /\ \A r \in Runs : (At(k, "firing") /\ req[k].run = r) => Unfired(r)'

LEMMA AloneIs ==
  ASSUME IInv, NEW q \in Req, \A r \in Runs : Unfired(r) => Unfired(r)',
         \A k \in Req \ {q} : tx'[k] = tx[k]
  PROVE  Alone(q)
  BY DEF IInv, Requests, Unrecorded, Alone

LEMMA Still ==
  ASSUME IInv, UNCHANGED <<run, log, stale>>
  PROVE  /\ Store' /\ Grew /\ Runs' = Runs /\ Alerted' = Alerted
         /\ \A s \in Reads : Follows(s) => Follows(s)'
         /\ \A r \in Runs : Unfired(r) => Unfired(r)'
<1>1. Runs' = Runs /\ Active' = Active /\ Alerted' = Alerted
  BY DEF Runs, Active, Alerted
<1>2. Store'
  BY <1>1 DEF IInv, Store, LogTellsStatus, WithinBudget, OneRun
<1> QED
  BY <1>1, <1>2 DEF Grew, Started, Follows, Fresh, Unfired

LEMMA RequestIs ==
  ASSUME IInv, NEW q \in Req
  PROVE  /\ req[q] \in Request /\ Placed(q) /\ q \in Actor /\ tx[q] \in Reads \cup {None}
         /\ tx[q] # None => Follows(tx[q]) /\ tx[q] \in Reads
  BY DEF IInv, Requests, Snapshots, Actor

LEMMA Snapped ==
  ASSUME IInv, NEW a \in Actor, NEW v \in Reads \cup {None}, tx' = [tx EXCEPT ![a] = v],
         v # None => Follows(v)', \A s \in Reads : Follows(s) => Follows(s)'
  PROVE  /\ Snapshots' /\ tx'[a] = v /\ \A b \in Actor : b # a => tx'[b] = tx[b]
<1>1. tx \in [Actor -> Reads \cup {None}] /\ \A b \in Actor : tx[b] # None => Follows(tx[b])
  BY DEF IInv, Snapshots
<1>2. /\ tx' \in [Actor -> Reads \cup {None}] /\ tx'[a] = v
      /\ \A b \in Actor : b # a => tx'[b] = tx[b]
  BY <1>1
<1>3. ASSUME NEW b \in Actor, tx'[b] # None PROVE Follows(tx[b])' \/ b = a
  <2>1. CASE b # a
    <3>1. PICK s \in Reads : s = tx[b] /\ Follows(s)
      BY <1>1, <1>2, <1>3, <2>1
    <3>2. Follows(s)' /\ tx'[b] = s
      BY <1>2, <2>1, <3>1
    <3> QED
      BY <3>2 DEF Follows, Fresh
  <2> QED
    BY <2>1
<1>4. v # None => Follows(tx[a])'
  BY <1>2 DEF Follows, Fresh
<1> QED
  BY <1>2, <1>3, <1>4 DEF Snapshots

LEMMA SnapsStay ==
  ASSUME IInv, tx' = tx, \A s \in Reads : Follows(s) => Follows(s)'
  PROVE  Snapshots'
<1>1. tx \in [Actor -> Reads \cup {None}] /\ \A b \in Actor : tx[b] # None => Follows(tx[b])
  BY DEF IInv, Snapshots
<1>2. ASSUME NEW b \in Actor, tx'[b] # None PROVE Follows(tx[b])'
  <2>1. PICK s \in Reads : s = tx[b] /\ Follows(s)
    BY <1>1, <1>2
  <2>2. Follows(s)' /\ tx'[b] = s
    BY <2>1
  <2> QED
    BY <2>2 DEF Follows, Fresh
<1> QED
  BY <1>1, <1>2 DEF Snapshots

\* A request whose place stays as it is goes on being placed.
LEMMA OthersPlaced ==
  ASSUME IInv, Grew, NEW k \in Req, req'[k] = req[k], tx'[k] = tx[k]
  PROVE  Placed(k)'
<1>1. Placed(k)
  BY DEF IInv, Requests
<1> QED
  BY <1>1 DEF Placed, Grew, Held, Started, Pc, Reading

LEMMA AsksMove ==
  ASSUME IInv, NEW q \in Req, NEW v \in Request, req' = [req EXCEPT ![q] = v], Grew,
         Alone(q),
         accepted' \in BOOLEAN,
         accepted' => accepted \/ \E r \in Alerted : Started(r),
         Placed(q)',
         v.pc = "firing" => (v = req[q] \/ v.run \notin Runs) /\ Unfired(v.run)'
  PROVE  Requests'
<1>1. /\ req \in [Req -> Request] /\ \A k \in Req : Placed(k)
      /\ Unrecorded /\ (accepted => \E r \in Alerted : Started(r))
  BY DEF IInv, Requests
<1>2. req' \in [Req -> Request] /\ req'[q] = v /\ \A k \in Req : k # q => req'[k] = req[k]
  BY <1>1
<1>3. \A k \in Req : Placed(k)'
  BY <1>2, OthersPlaced DEF Alone
<1>4. accepted' => (\E r \in Alerted : Started(r))'
  <2> SUFFICES ASSUME accepted' PROVE (\E r \in Alerted : Started(r))'
    OBVIOUS
  <2>1. PICK r \in Alerted : Started(r)
    BY <1>1
  <2>2. r \in Runs' /\ run'[r].alert /\ Started(r)'
    BY <2>1 DEF Grew, Alerted
  <2> QED
    BY <2>2 DEF Alerted
<1>5. \A k \in Req : At(k, "firing") => req[k].run \in Runs
  BY <1>1 DEF At, Placed, Held, Pc
<1>6. Unrecorded'
  <2>1. ASSUME NEW k \in Req, At(k, "firing")' PROVE Unfired(req[k].run)'
    <3>1. CASE k = q
      BY <1>2, <2>1, <3>1 DEF At, Unfired
    <3>2. CASE k # q
      <4>1. PICK r \in Runs : r = req[k].run /\ At(k, "firing")
        BY <1>2, <1>5, <2>1, <3>2 DEF At
      <4>2. Unfired(r)' /\ req'[k].run = r
        BY <1>2, <3>2, <4>1 DEF Alone
      <4> QED
        BY <4>2 DEF Unfired
    <3> QED
      BY <3>1, <3>2
  <2>2. ASSUME NEW k \in Req, NEW j \in Req, At(k, "firing")', At(j, "firing")',
               req'[k].run = req'[j].run
        PROVE  k = j
    <3>1. CASE k # q /\ j # q
      BY <1>1, <1>2, <2>2, <3>1 DEF At, Unrecorded
    <3>2. CASE k = q /\ j # q
      <4>1. At(j, "firing") /\ req[j].run = v.run /\ v.pc = "firing"
        BY <1>2, <2>2, <3>2 DEF At
      <4> QED
        BY <1>1, <1>5, <3>2, <4>1 DEF At, Unrecorded
    <3>3. CASE k # q /\ j = q
      <4>1. At(k, "firing") /\ req[k].run = v.run /\ v.pc = "firing"
        BY <1>2, <2>2, <3>3 DEF At
      <4> QED
        BY <1>1, <1>5, <3>3, <4>1 DEF At, Unrecorded
    <3> QED
      BY <3>1, <3>2, <3>3
  <2> QED
    BY <2>1, <2>2 DEF Unrecorded
<1> QED
  BY <1>2, <1>3, <1>4, <1>6 DEF Requests

LEMMA AsksStay ==
  ASSUME IInv, UNCHANGED <<req, accepted>>, Grew, \A k \in Req : tx'[k] = tx[k],
         \A r \in Runs : Unfired(r) => Unfired(r)'
  PROVE  Requests'
<1>1. /\ req \in [Req -> Request] /\ \A k \in Req : Placed(k)
      /\ Unrecorded /\ (accepted => \E r \in Alerted : Started(r)) /\ accepted \in BOOLEAN
  BY DEF IInv, Requests
<1>2. \A k \in Req : Placed(k)'
  BY OthersPlaced
<1>3. accepted' => (\E r \in Alerted : Started(r))'
  <2> SUFFICES ASSUME accepted' PROVE (\E r \in Alerted : Started(r))'
    OBVIOUS
  <2>1. PICK r \in Alerted : Started(r)
    BY <1>1
  <2>2. r \in Runs' /\ run'[r].alert /\ Started(r)'
    BY <2>1 DEF Grew, Alerted
  <2> QED
    BY <2>2 DEF Alerted
<1>4. Unrecorded'
  <2>1. ASSUME NEW k \in Req, At(k, "firing")' PROVE Unfired(req[k].run)'
    <3>1. PICK r \in Runs : r = req[k].run /\ Unfired(r)
      BY <1>1, <2>1 DEF At, Unrecorded, Placed, Held, Pc
    <3>2. Unfired(r)' /\ req'[k].run = r
      BY <3>1
    <3> QED
      BY <3>2 DEF Unfired
  <2> QED
    BY <1>1, <2>1 DEF Unrecorded, At
<1> QED
  BY <1>1, <1>2, <1>3, <1>4 DEF Requests

LEMMA GoKeeps ==
  ASSUME IInv, NEW q \in Req, NEW l \in Pc \ {"find", "firing", "resolved"}, Go(q, l),
         accepted' = accepted, Grew,
         Alone(q),
         l \in Held <=> req[q].pc \in Held,
         tx'[q] # None => l \in Reading /\ tx'[q].run = req[q].run,
         l \in {"queue", "expire"} => tx'[q] # None /\ tx'[q].status = "draft",
         \A r : (l \in {"dispatch", "reply"} /\ req[q].what = "firing" /\ req[q].run = r) =>
                  req[q].status # "draft" \/ Started(r)'
  PROVE  Requests'
<1>1. req \in [Req -> Request] /\ Placed(q) /\ req[q] \in Request /\ accepted \in BOOLEAN
  BY DEF IInv, Requests
<1>2. PICK v : v = [req[q] EXCEPT !.pc = l]
  OBVIOUS
<1>3. /\ v \in Request /\ v.pc = l /\ v.what = req[q].what /\ v.run = req[q].run
      /\ v.status = req[q].status
  BY <1>1, <1>2 DEF Request
<1>4. req' = [req EXCEPT ![q] = v]
  BY <1>1, <1>2 DEF Go
<1>5. req'[q] = v
  BY <1>1, <1>4
<1>6. Placed(q)'
  <2>1. /\ v.run \in (IF l \in Held THEN Runs' ELSE {None})
        /\ l \in Held => v.run \in Runs
    BY <1>1, <1>3 DEF Placed, Grew
  <2>2. (l \in Held /\ v.what = "firing") =>
          /\ run'[v.run].alert
          /\ (v.status # "draft" \/ l \in {"dispatch", "reply"}) => Started(v.run)'
    <3> SUFFICES ASSUME l \in Held, v.what = "firing"
                 PROVE  /\ run'[v.run].alert
                        /\ (v.status # "draft" \/ l \in {"dispatch", "reply"}) => Started(v.run)'
      OBVIOUS
    <3>1. /\ v.run \in Runs /\ run[v.run].alert
          /\ v.status # "draft" => run[v.run].status # "draft"
      BY <1>1, <1>3, <2>1 DEF Placed, Started
    <3>2. run'[v.run].alert /\ (v.status # "draft" => run'[v.run].status # "draft")
      BY <3>1 DEF Grew, Started
    <3>3. (v.status = "draft" /\ l \in {"dispatch", "reply"}) => run'[v.run].status # "draft"
      <4>1. req[q].run = v.run /\ req[q].what = "firing" /\ req[q].status = v.status
        BY <1>3
      <4> QED
        BY <4>1 DEF Started
    <3> QED
      BY <3>2, <3>3 DEF Started
  <2> QED
    BY <1>3, <1>5, <2>1, <2>2 DEF Placed, Started
<1> QED
  BY <1>1, <1>3, <1>4, <1>6, AsksMove

LEMMA HoldKeeps ==
  ASSUME IInv, NEW q \in Req, NEW l \in {"firing", "resolved", "decide"}, NEW r \in Run,
         NEW s \in Status, Hold(q, l, r, s), accepted' = accepted, Grew,
         Alone(q),
         r \in Runs', tx'[q] = None,
         l = "resolved" => req[q].what = "resolved",
         run'[r].alert, s # "draft" => Started(r)',
         l = "firing" => r \notin Runs /\ Unfired(r)'
  PROVE  Requests'
<1>1. req \in [Req -> Request] /\ req[q] \in Request /\ accepted \in BOOLEAN
  BY DEF IInv, Requests
<1>2. PICK v : v = [pc |-> l, what |-> req[q].what, run |-> r, status |-> s]
  OBVIOUS
<1>3. /\ v \in Request /\ v.pc = l /\ v.what = req[q].what /\ v.run = r /\ v.status = s
      /\ l \in Held /\ l \notin {"queue", "expire", "dispatch", "reply"}
  BY <1>1, <1>2 DEF Request, Pc, Held
<1>4. req' = [req EXCEPT ![q] = v]
  BY <1>1, <1>2 DEF Hold
<1>5. req'[q] = v
  BY <1>1, <1>4
<1>6. Placed(q)'
  BY <1>3, <1>5 DEF Placed, Started
<1>7. v.pc = "firing" => v.run \notin Runs /\ Unfired(v.run)'
  BY <1>3 DEF Unfired
<1> QED
  BY <1>1, <1>3, <1>4, <1>6, <1>7, AsksMove

LEMMA ReplyKeeps ==
  ASSUME IInv, NEW q \in Req, NEW a, Reply(q, a), Grew,
         Alone(q),
         tx'[q] = None,
         (a = "accepted" /\ req[q].what = "firing") => \E r \in Alerted : Started(r)
  PROVE  Requests'
<1>1. req \in [Req -> Request] /\ accepted \in BOOLEAN
  BY DEF IInv, Requests
<1>2. /\ Idle \in Request /\ Idle.pc = "idle" /\ Idle.run = None /\ "idle" \notin Held
  BY DEF Idle, Request, Pc, Held
<1>3. req' = [req EXCEPT ![q] = Idle] /\ req'[q] = Idle
  BY <1>1 DEF Reply
<1>4. Placed(q)'
  BY <1>2, <1>3 DEF Placed
<1>5. accepted' \in BOOLEAN /\ (accepted' => accepted \/ \E r \in Alerted : Started(r))
  BY <1>1 DEF Reply
<1> QED
  BY <1>2, <1>3, <1>4, <1>5, AsksMove

-----------------------------------------------------------------------------
(* The steps of a request.                                                 *)

\* Nothing is written and no transaction opened or ended.
LEMMA CalmIs ==
  ASSUME IInv, UNCHANGED <<run, log, stale, tx>>
  PROVE  /\ Store' /\ Snapshots' /\ Grew /\ Runs' = Runs
         /\ \A q \in Req : Alone(q) /\ tx'[q] = tx[q]
  BY Still, SnapsStay, AloneIs

LEMMA RowReads ==
  ASSUME Store, NEW r \in Runs
  PROVE  /\ Row(r) \in Reads /\ Row(r) # None /\ Follows(Row(r)) /\ Fresh(Row(r))
         /\ Row(r).run = r /\ Row(r).status = run[r].status /\ Row(r).bytes = run[r].bytes
<1>1. Row(r) \in Reads
  BY RowIs DEF Row, Reads
<1>2. Row(r).run = r /\ Row(r).status = run[r].status /\ Row(r).bytes = run[r].bytes
      /\ Row(r).seq = run[r].seq
  BY DEF Row
<1>3. run[r].seq \in Nat
  BY RowIs
<1> QED
  BY <1>1, <1>2, <1>3, NoneAssumption DEF Follows, Fresh

LEMMA ArriveKeeps == ASSUME IInv, NEW q \in Req, Arrive(q) PROVE IInv'
<1>1. UNCHANGED <<run, log, stale, tx, accepted>> /\ req[q].pc = "idle"
  BY DEF Arrive, At
<1>2. PICK what \in What, r \in Run \cup {None} :
        /\ r \in IF what = "start" THEN Runs ELSE {None}
        /\ req' = [req EXCEPT ![q] =
             [pc |-> CASE what = "create" -> "check" [] what = "start" -> "start"
                       [] OTHER -> "find",
              what |-> what, run |-> r, status |-> None]]
  BY DEF Arrive, What, Runs
<1>3. PICK v : v = [pc |-> CASE what = "create" -> "check" [] what = "start" -> "start"
                             [] OTHER -> "find",
                    what |-> what, run |-> r, status |-> None]
  OBVIOUS
<1>4. /\ v.pc \in {"check", "start", "find"} /\ v.pc \in Pc /\ v.what = what /\ v.run = r
      /\ v.status = None /\ (v.pc = "start" <=> what = "start") /\ v \in Request
      /\ v.pc = "find" => what \in {"firing", "resolved"}
  BY <1>2, <1>3 DEF Pc, What, Request
<1>5. req' = [req EXCEPT ![q] = v] /\ req'[q] = v /\ tx'[q] = None /\ accepted \in BOOLEAN
  BY <1>1, <1>2, <1>3, RequestIs DEF Placed, Reading, IInv, Requests
<1>6. Placed(q)'
  <2>1. v.run \in IF v.pc \in Held THEN Runs' ELSE {None}
    BY <1>1, <1>2, <1>4, CalmIs DEF Held
  <2> QED
    BY <1>2, <1>4, <1>5, <2>1 DEF Placed, Held
<1>7. Requests'
  BY <1>1, <1>2, <1>4, <1>5, <1>6, AsksMove, CalmIs
<1> QED
  BY <1>1, <1>7, CalmIs DEF IInv

LEMMA CheckKeeps == ASSUME IInv, NEW q \in Req, Check(q) PROVE IInv'
<1>1. UNCHANGED <<run, log, stale, tx>> /\ req[q].pc = "check"
  BY DEF Check, At
<1>2. tx'[q] = None
  BY <1>1, RequestIs DEF Placed, Reading
<1>3. CASE Reply(q, "refused")
  BY <1>1, <1>2, <1>3, CalmIs, ReplyKeeps DEF IInv
<1>4. CASE Go(q, IF Active = {} THEN "insert" ELSE "conflict") /\ UNCHANGED accepted
  <2>1. PICK l \in Pc : Go(q, l) /\ l \in {"insert", "conflict"}
    BY <1>4 DEF Pc
  <2>2. Requests'
    BY <1>1, <1>2, <1>4, <2>1, CalmIs, GoKeeps DEF Held, Pc
  <2> QED
    BY <1>1, <2>2, CalmIs DEF IInv
<1> QED
  BY <1>3, <1>4 DEF Check

\* find_run_by_trigger, at first or after a conflict.
LEMMA FoundKeeps ==
  ASSUME IInv, NEW q \in Req, UNCHANGED <<run, log, stale, tx>>, tx[q] = None,
         NEW l \in {"resolved", "decide"}, l = "resolved" => req[q].what = "resolved", Found(q, l)
  PROVE  IInv'
<1>1. PICK r \in Alerted : Hold(q, l, r, run[r].status) /\ UNCHANGED accepted
  BY DEF Found
<1>2. r \in Runs /\ r \in Run /\ run[r].status \in Status /\ run'[r].alert
  BY <1>1, RowIs DEF Alerted, IInv
<1>3. run[r].status # "draft" => Started(r)'
  BY DEF Started
<1>4. Requests'
  BY <1>1, <1>2, <1>3, CalmIs, HoldKeeps
<1> QED
  BY <1>4, CalmIs DEF IInv

LEMMA FindKeeps == ASSUME IInv, NEW q \in Req, Find(q) PROVE IInv'
<1>1. UNCHANGED <<run, log, stale, tx>> /\ req[q].pc = "find" /\ req[q].what \in What \cup {None}
  BY RequestIs DEF Find, At, Request
<1>2. tx[q] = None
  BY <1>1, RequestIs DEF Placed, Reading
<1>3. CASE Alerted # {}
  <2>1. CASE req[q].what = "firing"
    BY <1>1, <1>2, <1>3, <2>1, FoundKeeps DEF Find
  <2>2. CASE req[q].what # "firing"
    <3>1. Found(q, "resolved")
      BY <1>3, <2>2 DEF Find
    <3>2. req[q].what = "resolved"
      BY <1>1, <2>2, RequestIs DEF Placed
    <3> QED
      BY <1>1, <1>2, <3>1, <3>2, FoundKeeps
  <2> QED
    BY <2>1, <2>2
<1>4. CASE Alerted = {} /\ req[q].what = "firing"
  <2>1. Go(q, "check") /\ UNCHANGED accepted
    BY <1>4 DEF Find
  <2>2. Requests'
    BY <1>1, <1>2, <2>1, CalmIs, GoKeeps DEF Held, Pc
  <2> QED
    BY <1>1, <2>2, CalmIs DEF IInv
<1>5. CASE Alerted = {} /\ req[q].what # "firing"
  <2>1. Reply(q, "ignored")
    BY <1>5 DEF Find
  <2> QED
    BY <1>1, <1>2, <2>1, CalmIs, ReplyKeeps DEF IInv
<1> QED
  BY <1>3, <1>4, <1>5

LEMMA ConflictKeeps == ASSUME IInv, NEW q \in Req, Conflict(q) PROVE IInv'
<1>1. UNCHANGED <<run, log, stale, tx>> /\ req[q].pc = "conflict"
  BY DEF Conflict, At
<1>2. tx[q] = None
  BY <1>1, RequestIs DEF Placed, Reading
<1>3. CASE Found(q, "decide")
  BY <1>1, <1>2, <1>3, FoundKeeps
<1>4. CASE Reply(q, "conflict")
  BY <1>1, <1>2, <1>4, CalmIs, ReplyKeeps DEF IInv
<1> QED
  BY <1>3, <1>4 DEF Conflict

LEMMA DecideKeeps == ASSUME IInv, NEW q \in Req, Decide(q) PROVE IInv'
<1>1. UNCHANGED <<run, log, stale, tx, accepted>> /\ req[q].pc = "decide"
  BY DEF Decide, At
<1>2. tx'[q] = None
  BY <1>1, RequestIs DEF Placed, Reading
<1>3. PICK l \in {"start", "reply", "dispatch"} :
        Go(q, l) /\ (l \in {"dispatch", "reply"} => req[q].status # "draft")
  <2>1. PICK l : l = Way(req[q].status) /\ Go(q, l)
    BY DEF Decide
  <2>2. /\ l \in {"start", "reply", "dispatch"}
        /\ l \in {"dispatch", "reply"} => req[q].status # "draft"
    BY <2>1 DEF Way, Terminal
  <2> QED
    BY <2>1, <2>2
<1>4. Requests'
  BY <1>1, <1>2, <1>3, CalmIs, GoKeeps DEF Held, Pc
<1> QED
  BY <1>1, <1>4, CalmIs DEF IInv

LEMMA DispatchKeeps == ASSUME IInv, NEW q \in Req, Dispatch(q) PROVE IInv'
<1>1. /\ UNCHANGED <<run, log, stale, tx>> /\ req[q].pc \in {"dispatch", "reply"}
      /\ Reply(q, "accepted")
  BY DEF Dispatch
<1>2. tx'[q] = None
  BY <1>1, RequestIs DEF Placed, Reading
<1>3. req[q].what = "firing" => \E r \in Alerted : Started(r)
  BY <1>1, RequestIs DEF Placed, Held, Pc, Alerted
<1>4. Requests'
  BY <1>1, <1>2, <1>3, CalmIs, ReplyKeeps
<1> QED
  BY <1>1, <1>4, CalmIs DEF IInv

\* A transaction of q is opened or ended, and nothing written.
LEMMA TurnIs ==
  ASSUME IInv, UNCHANGED <<run, log, stale>>, NEW q \in Req, NEW v \in Reads \cup {None},
         tx' = [tx EXCEPT ![q] = v], v # None => Follows(v)
  PROVE  Store' /\ Snapshots' /\ Grew /\ Runs' = Runs /\ Alone(q) /\ tx'[q] = v
<1>1. /\ Store' /\ Grew /\ Runs' = Runs /\ \A s \in Reads : Follows(s) => Follows(s)'
      /\ \A r \in Runs : Unfired(r) => Unfired(r)'
  BY Still
<1>2. q \in Actor /\ \A k \in Req \ {q} : k \in Actor
  BY DEF Actor
<1>3. v # None => Follows(v)'
  BY <1>1
<1>4. Snapshots' /\ tx'[q] = v /\ \A k \in Req \ {q} : tx'[k] = tx[k]
  BY <1>1, <1>2, <1>3, Snapped
<1> QED
  BY <1>1, <1>4, AloneIs

LEMMA DieKeeps == ASSUME IInv, NEW q \in Req, Die(q) PROVE IInv'
<1>1. UNCHANGED <<run, log, stale>> /\ Reply(q, "lost") /\ tx' = [tx EXCEPT ![q] = None]
  BY DEF Die, Close
<1>2. Store' /\ Snapshots' /\ Grew /\ Alone(q) /\ tx'[q] = None
  BY <1>1, TurnIs
<1> QED
  BY <1>1, <1>2, ReplyKeeps DEF IInv

LEMMA OpenKeeps == ASSUME IInv, NEW q \in Req, Open(q) PROVE IInv'
<1>1. UNCHANGED <<run, log, stale, accepted>> /\ tx[q] = None
  BY DEF Open
<1>2. ASSUME req[q].pc \in {"firing", "resolved", "query"}
      PROVE  req[q].run \in Runs /\ req[q].run # None
  BY <1>2, RequestIs, NoneAssumption DEF Placed, Held, Pc, Runs
<1>3. CASE req[q].pc \in {"firing", "resolved"} /\ Read(q, req[q].run) /\ UNCHANGED req
  <2>1. PICK r \in Runs, v \in Reads : r = req[q].run /\ v = Row(r) /\ Follows(v) /\ v.run = r
    BY <1>2, <1>3, RowReads DEF IInv
  <2>2. Store' /\ Snapshots' /\ Grew /\ Runs' = Runs /\ Alone(q) /\ tx'[q] = v
    BY <1>1, <1>3, <2>1, TurnIs DEF Read
  <2>3. PICK w \in Request : w = req[q] /\ Placed(q)
    BY RequestIs
  <2>4. req' = [req EXCEPT ![q] = w] /\ req'[q] = w /\ w.pc \in {"firing", "resolved"}
    BY <1>3, <2>3 DEF IInv, Requests
  <2>5. Placed(q)'
    <3>1. req[q].run \in Runs' /\ w = req'[q] /\ w = req[q]
      BY <2>1, <2>2, <2>3, <2>4
    <3>2. (w.pc \in Held /\ w.what = "firing") =>
            /\ run'[w.run].alert
            /\ (w.status # "draft" \/ w.pc \in {"dispatch", "reply"}) => Started(w.run)'
      BY <1>1, <2>3, <3>1 DEF Placed, Started
    <3> QED
      BY <2>1, <2>2, <2>3, <2>4, <3>1, <3>2 DEF Placed, Held, Pc, Reading, Started
  <2>6. w.pc = "firing" => Unfired(w.run)'
    <3>1. w.pc = "firing" => Unfired(req[q].run)
      BY <2>3 DEF IInv, Requests, Unrecorded, At
    <3> QED
      BY <1>1, <2>3, <3>1 DEF Unfired
  <2>7. Requests'
    BY <1>1, <2>2, <2>3, <2>4, <2>5, <2>6, AsksMove DEF IInv, Requests
  <2> QED
    BY <2>2, <2>7 DEF IInv
<1>4. CASE req[q].pc = "query" /\ Read(q, req[q].run) /\ \E l \in {"observed", "failed"} : Go(q, l)
  <2>1. PICK r \in Runs, v \in Reads : r = req[q].run /\ v = Row(r) /\ Follows(v) /\ v.run = r
    BY <1>2, <1>4, RowReads DEF IInv
  <2>2. Store' /\ Snapshots' /\ Grew /\ Alone(q) /\ tx'[q] = v
    BY <1>1, <1>4, <2>1, TurnIs DEF Read
  <2>3. PICK l \in {"observed", "failed"} : Go(q, l)
    BY <1>4
  <2>4. Requests'
    BY <1>1, <1>4, <2>1, <2>2, <2>3, GoKeeps DEF Held, Pc, Reading
  <2> QED
    BY <2>2, <2>4 DEF IInv
<1>5. CASE req[q].pc = "query" /\ Go(q, "decide") /\ UNCHANGED tx
  <2>1. Requests'
    BY <1>1, <1>5, CalmIs, GoKeeps DEF Held, Pc
  <2> QED
    BY <1>1, <1>5, <2>1, CalmIs DEF IInv
<1> QED
  BY <1>3, <1>4, <1>5 DEF Open, At

LEMMA StartKeeps == ASSUME IInv, NEW q \in Req, Start(q) PROVE IInv'
<1>1. UNCHANGED <<run, log, stale>> /\ tx[q] = None /\ req[q].pc = "start"
  BY DEF Start, At
<1>2. CASE \E a \in {"refused", "conflict"} : Reply(q, a) /\ UNCHANGED tx
  <2>1. Requests'
    BY <1>1, <1>2, CalmIs, ReplyKeeps
  <2> QED
    BY <1>1, <1>2, <2>1, CalmIs DEF IInv
<1>3. CASE /\ run[req[q].run].status = "draft" /\ Read(q, req[q].run)
           /\ Go(q, IF req[q].run \in stale THEN "expire" ELSE "queue") /\ UNCHANGED accepted
  <2>1. req[q].run \in Runs
    BY <1>1, RequestIs DEF Placed, Held, Pc
  <2>2. PICK r \in Runs, v \in Reads :
          /\ r = req[q].run /\ v = Row(r) /\ v # None /\ Follows(v) /\ v.run = r
          /\ v.status = run[r].status
    BY <2>1, RowReads DEF IInv
  <2>3. Store' /\ Snapshots' /\ Grew /\ Alone(q) /\ tx'[q] = v
    BY <1>1, <1>3, <2>2, TurnIs DEF Read
  <2>4. PICK l \in {"expire", "queue"} : Go(q, l)
    BY <1>3
  <2>5. Requests'
    BY <1>1, <1>3, <2>2, <2>3, <2>4, GoKeeps DEF Held, Pc, Reading
  <2> QED
    BY <2>3, <2>5 DEF IInv
<1> QED
  BY <1>2, <1>3 DEF Start

\* The new row of a Run.
LEMMA NewRow ==
  ASSUME IInv, NEW r \in Run \ Runs, NEW alert \in BOOLEAN, ~Clash(alert),
         run' = [run EXCEPT ![r] = [status |-> "draft", alert |-> alert, seq |-> 1, bytes |-> 0]],
         log' = [log EXCEPT ![r] = <<"run_created">>], UNCHANGED <<stale, tx>>
  PROVE  /\ Store' /\ Snapshots' /\ Grew /\ r \in Runs' /\ run'[r].alert = alert /\ Unfired(r)'
         /\ \A q \in Req : Alone(q) /\ tx'[q] = tx[q]
<1>1. PICK row : row = [status |-> "draft", alert |-> alert, seq |-> 1, bytes |-> 0]
  OBVIOUS
<1>2. /\ row \in Rows /\ row # None /\ row.status = "draft" /\ row.alert = alert /\ row.seq = 1
      /\ row.bytes = 0
  BY <1>1, NoneAssumption DEF Rows, Status
<1>3. PICK l : l = <<"run_created">>
  OBVIOUS
<1>4. /\ l \in Seq(Event) /\ Len(l) = 1 /\ DOMAIN l = {1} /\ l[1] = "run_created"
  BY <1>3 DEF Event
<1>5. /\ run \in [Run -> Rows \cup {None}] /\ log \in [Run -> Seq(Event)] /\ stale \subseteq Runs
      /\ LogTellsStatus /\ WithinBudget /\ OneRun
  BY DEF IInv, Store
<1>6. /\ run' \in [Run -> Rows \cup {None}] /\ run'[r] = row
      /\ \A x \in Run : x # r => run'[x] = run[x]
      /\ log' \in [Run -> Seq(Event)] /\ log'[r] = l /\ \A x \in Run : x # r => log'[x] = log[x]
  BY <1>1, <1>2, <1>3, <1>4, <1>5
<1>7. /\ Runs' = Runs \cup {r} /\ r \in Run /\ r \notin Runs /\ Runs \subseteq Run
      /\ Active = {} /\ (alert => Alerted = {})
  BY <1>2, <1>6 DEF Runs, Clash
<1>8. /\ Active' \subseteq {r}
      /\ Alerted' \subseteq IF alert THEN {r} ELSE Alerted
  BY <1>2, <1>6, <1>7 DEF Active, Alerted
<1>9. LogTellsStatus'
  <2>1. ASSUME NEW x \in Runs
        PROVE  /\ run'[x].seq = Len(log'[x])
               /\ Tells(log'[x], IF run'[x].status = "running" THEN "queued" ELSE run'[x].status)
    <3>1. x # r /\ run'[x] = run[x] /\ log'[x] = log[x]
      BY <1>6, <1>7
    <3> QED
      BY <1>5, <3>1 DEF LogTellsStatus
  <2>2. Tells(l, "draft")
    BY <1>4, ToldIs DEF Tells
  <2>3. run'[r].seq = Len(log'[r]) /\ run'[r].status = "draft" /\ log'[r] = l
    BY <1>2, <1>4, <1>6
  <2> QED
    BY <1>7, <2>1, <2>2, <2>3 DEF LogTellsStatus
<1>10. WithinBudget'
  BY <1>2, <1>5, <1>6, <1>7, IntakeAssumption DEF WithinBudget
<1>11. OneRun'
  <2>1. \A x \in Runs' : \A i, k \in DOMAIN log'[x] :
          (log'[x][i] = "alert_firing" /\ log'[x][k] = "alert_firing") => i = k
    BY <1>4, <1>5, <1>6, <1>7 DEF OneRun
  <2>2. (\A x, y \in Alerted' : x = y) /\ \A x, y \in Active' : x = y
    BY <1>5, <1>8 DEF OneRun
  <2> QED
    BY <2>1, <2>2 DEF OneRun
<1>12. Store'
  BY <1>5, <1>6, <1>7, <1>9, <1>10, <1>11 DEF Store
<1>13. Grew
  BY <1>6, <1>7 DEF Grew, Started
<1>14. \A s \in Reads : Follows(s) => Follows(s)'
  BY <1>6, <1>7 DEF Follows, Fresh
<1>15. Snapshots'
  BY <1>14, SnapsStay
<1>16. \A x \in Runs : Unfired(x) => Unfired(x)'
  BY <1>6, <1>7 DEF Unfired
<1>17. Unfired(r)'
  BY <1>4, <1>6 DEF Unfired
<1>18. \A q \in Req : Alone(q)
  BY <1>16, AloneIs
<1> QED
  BY <1>2, <1>6, <1>7, <1>12, <1>13, <1>15, <1>17, <1>18

LEMMA InsertKeeps == ASSUME IInv, NEW q \in Req, Insert(q) PROVE IInv'
<1>1. UNCHANGED <<stale, tx>> /\ req[q].pc = "insert"
  BY DEF Insert, At
<1>2. tx[q] = None
  BY <1>1, RequestIs DEF Placed, Reading
<1>3. PICK alert \in BOOLEAN : alert = (req[q].what = "firing")
  OBVIOUS
<1>4. CASE Clash(alert)
  <2>1. Go(q, "conflict") /\ UNCHANGED <<run, log, accepted>>
    BY <1>3, <1>4 DEF Insert
  <2>2. Requests'
    BY <1>1, <1>2, <2>1, CalmIs, GoKeeps DEF Held, Pc
  <2> QED
    BY <1>1, <2>1, <2>2, CalmIs DEF IInv
<1>5. CASE ~Clash(alert)
  <2>1. PICK r \in Run \ Runs :
          /\ run' = [run EXCEPT
               ![r] = [status |-> "draft", alert |-> alert, seq |-> 1, bytes |-> 0]]
          /\ log' = [log EXCEPT ![r] = <<"run_created">>]
          /\ IF alert THEN Hold(q, "firing", r, "draft") /\ UNCHANGED accepted
             ELSE Reply(q, "created")
    BY <1>3, <1>5 DEF Insert
  <2>2. /\ Store' /\ Snapshots' /\ Grew /\ r \in Runs' /\ run'[r].alert = alert /\ Unfired(r)'
        /\ Alone(q) /\ tx'[q] = None
    BY <1>1, <1>2, <1>5, <2>1, NewRow
  <2>3. CASE alert
    <3>1. Hold(q, "firing", r, "draft") /\ UNCHANGED accepted /\ "draft" \in Status
      BY <2>1, <2>3 DEF Status
    <3>2. Requests'
      BY <2>2, <2>3, <3>1, HoldKeeps
    <3> QED
      BY <2>2, <3>2 DEF IInv
  <2>4. CASE ~alert
    BY <2>1, <2>2, <2>4, ReplyKeeps DEF IInv
  <2> QED
    BY <2>3, <2>4
<1> QED
  BY <1>4, <1>5

\* What an output may add.
LEMMA SizesFit ==
  ASSUME IInv, NEW t \in Reads, Follows(t), NEW n \in Sizes(t), Fresh(t)
  PROVE  n \in Nat /\ t.bytes + n <= Budget
<1>1. t.bytes \in Nat /\ t.bytes <= Budget /\ Budget \in Nat /\ StepLimit \in Nat
  BY IntakeAssumption DEF IInv, Store, WithinBudget, Follows, Reads
<1>2. PICK m \in 1 .. StepLimit : n = IF m < Budget - t.bytes THEN m ELSE Budget - t.bytes
  BY DEF Sizes, Remaining
<1> QED
  BY <1>1, <1>2

\* A transaction of q ends, overtaken or not.
LEMMA EndIs ==
  ASSUME IInv, NEW a \in Actor, NEW t \in Reads, t = tx[a], Follows(t), NEW events \in Added, NEW n,
         Fresh(t) => n \in Nat /\ t.bytes + n <= Budget,
         events = <<"run_started">> => t.status = "draft",
         events = <<"alert_firing">> => Unfired(t.run),
         Write(t, events, n), Close(a)
  PROVE  /\ Store' /\ Snapshots' /\ Grew /\ tx'[a] = None
         /\ \A b \in Actor : b # a => tx'[b] = tx[b]
         /\ \A r \in Runs : (Unfired(r) /\ (r # t.run \/ events # <<"alert_firing">>))
              => Unfired(r)'
         /\ (Fresh(t) /\ events = <<"run_started">>) => Started(t.run)'
<1>1. Store
  BY DEF IInv
<1>2. /\ Store' /\ Grew
      /\ \A s \in Reads : Follows(s) => Follows(s)'
      /\ \A r \in Runs : (Unfired(r) /\ (r # t.run \/ events # <<"alert_firing">>))
           => Unfired(r)'
      /\ (Fresh(t) /\ events = <<"run_started">>) => Started(t.run)'
  BY <1>1, WriteKeeps
<1>3. tx' = [tx EXCEPT ![a] = None]
  BY DEF Close
<1>4. Snapshots' /\ tx'[a] = None /\ \A b \in Actor : b # a => tx'[b] = tx[b]
  BY <1>2, <1>3, Snapped
<1> QED
  BY <1>2, <1>4

LEMMA EndKeeps ==
  ASSUME IInv, NEW q \in Req, NEW t, t = tx[q], t # None, NEW events \in Added, NEW n,
         Fresh(t) => n \in Nat /\ t.bytes + n <= Budget,
         events = <<"run_started">> => t.status = "draft",
         events = <<"alert_firing">> => req[q].pc = "firing",
         Write(t, events, n), Close(q)
  PROVE  /\ Store' /\ Snapshots' /\ Grew /\ Alone(q) /\ tx'[q] = None
         /\ (Fresh(t) /\ events = <<"run_started">>) => Started(t.run)'
         /\ t.run = req[q].run
<1>1. t \in Reads /\ Follows(t) /\ q \in Actor /\ t.run = req[q].run /\ t.run \in Runs
  BY RequestIs DEF Placed, Follows
<1>2. PICK r \in Runs : r = t.run /\ r = req[q].run
  BY <1>1
<1>3. events = <<"alert_firing">> =>
        /\ Unfired(r)
        /\ \A k \in Req \ {q} : At(k, "firing") => req[k].run # r
  BY <1>2 DEF IInv, Requests, Unrecorded, At, Unfired
<1>4. /\ Store' /\ Snapshots' /\ Grew /\ tx'[q] = None
      /\ \A b \in Actor : b # q => tx'[b] = tx[b]
      /\ \A x \in Runs : (Unfired(x) /\ (x # t.run \/ events # <<"alert_firing">>)) => Unfired(x)'
      /\ (Fresh(t) /\ events = <<"run_started">>) => Started(t.run)'
  <2>1. events = <<"alert_firing">> => Unfired(t.run)
    BY <1>2, <1>3
  <2> QED
    BY <1>1, <2>1, EndIs
<1>5. Alone(q)
  <2> SUFFICES ASSUME NEW k \in Req \ {q}
               PROVE  /\ tx'[k] = tx[k]
                      /\ \A x \in Runs : (At(k, "firing") /\ req[k].run = x) => Unfired(x)'
    BY DEF Alone
  <2>1. tx'[k] = tx[k]
    BY <1>4 DEF Actor
  <2>2. ASSUME NEW x \in Runs, At(k, "firing"), req[k].run = x PROVE Unfired(x)'
    <3>1. Unfired(x)
      BY <2>2 DEF IInv, Requests, Unrecorded, Unfired
    <3> QED
      BY <1>2, <1>3, <1>4, <2>2, <3>1
  <2> QED
    BY <2>1, <2>2
<1> QED
  BY <1>1, <1>4, <1>5

LEMMA RecordKeeps == ASSUME IInv, NEW q \in Req, Record(q) PROVE IInv'
<1>1. PICK t : t = tx[q] /\ t # None
  BY DEF Record
<1>2. Close(q) /\ t \in Reads /\ Follows(t)
  BY <1>1, RequestIs DEF Record
<1>3. Fresh(t) => t.bytes + 0 <= Budget /\ t.bytes + 0 \in Nat
  BY <1>2 DEF Follows, IInv, Store, WithinBudget, Reads
<1>4. /\ <<"alert_firing">> \in Added /\ <<"alert_resolved">> \in Added
      /\ <<"prometheus_observed">> \in Added
      /\ <<"artifact_created", "prometheus_observed">> \in Added
  BY DEF Added, Event
<1>5. CASE At(q, "firing") /\ Write(t, <<"alert_firing">>, 0)
           /\ Then(q, Go(q, "query") /\ UNCHANGED accepted)
  <2>1. Store' /\ Snapshots' /\ Grew /\ Alone(q) /\ tx'[q] = None
    BY <1>1, <1>2, <1>3, <1>4, <1>5, EndKeeps DEF At
  <2>2. CASE Go(q, "query") /\ UNCHANGED accepted
    <3>1. Requests'
      BY <1>5, <2>1, <2>2, GoKeeps DEF At, Held, Pc
    <3> QED
      BY <2>1, <3>1 DEF IInv
  <2>3. CASE Reply(q, "error")
    BY <2>1, <2>3, ReplyKeeps DEF IInv
  <2> QED
    BY <1>5, <2>2, <2>3 DEF Then
<1>6. CASE At(q, "resolved") /\ Write(t, <<"alert_resolved">>, 0)
           /\ Then(q, Reply(q, "accepted"))
  <2>1. Store' /\ Snapshots' /\ Grew /\ Alone(q) /\ tx'[q] = None
    BY <1>1, <1>2, <1>3, <1>4, <1>6, EndKeeps
  <2>2. req[q].what # "firing"
    BY <1>6, RequestIs DEF Placed, At
  <2>3. PICK a : Reply(q, a)
    BY <1>6 DEF Then
  <2> QED
    BY <2>1, <2>2, <2>3, ReplyKeeps DEF IInv
<1>7. ASSUME At(q, "observed") \/ At(q, "failed"), NEW events \in Added,
             events # <<"alert_firing">>, events # <<"run_started">>, NEW n,
             Fresh(t) => n \in Nat /\ t.bytes + n <= Budget, Write(t, events, n),
             Then(q, Go(q, "decide") /\ UNCHANGED accepted)
      PROVE  IInv'
  <2>1. Store' /\ Snapshots' /\ Grew /\ Alone(q) /\ tx'[q] = None
    BY <1>1, <1>2, <1>7, EndKeeps
  <2>2. CASE Go(q, "decide") /\ UNCHANGED accepted
    <3>1. Requests'
      BY <1>7, <2>1, <2>2, GoKeeps DEF At, Held, Pc
    <3> QED
      BY <2>1, <3>1 DEF IInv
  <2>3. CASE Reply(q, "error")
    BY <2>1, <2>3, ReplyKeeps DEF IInv
  <2> QED
    BY <1>7, <2>2, <2>3 DEF Then
<1>8. CASE /\ At(q, "observed")
           /\ \E n \in Sizes(t) : Write(t, <<"artifact_created", "prometheus_observed">>, n)
           /\ Then(q, Go(q, "decide") /\ UNCHANGED accepted)
  <2>1. PICK n \in Sizes(t) : Write(t, <<"artifact_created", "prometheus_observed">>, n)
    BY <1>8
  <2>2. Fresh(t) => n \in Nat /\ t.bytes + n <= Budget
    BY <1>2, SizesFit
  <2> QED
    BY <1>4, <1>7, <1>8, <2>1, <2>2
<1>9. CASE At(q, "failed") /\ Write(t, <<"prometheus_observed">>, 0)
           /\ Then(q, Go(q, "decide") /\ UNCHANGED accepted)
  BY <1>3, <1>4, <1>7, <1>9
<1> QED
  BY <1>1, <1>5, <1>6, <1>8, <1>9 DEF Record

LEMMA QueueKeeps == ASSUME IInv, NEW q \in Req, Queue(q) PROVE IInv'
<1>1. req[q].pc \in {"queue", "expire"} /\ Close(q)
  BY DEF Queue, At
<1>2. PICK t : t = tx[q] /\ t # None /\ t.status = "draft" /\ t \in Reads /\ Follows(t)
  BY <1>1, RequestIs DEF Placed
<1>3. Fresh(t) => t.bytes + 0 <= Budget /\ t.bytes + 0 \in Nat
  BY <1>2 DEF Follows, IInv, Store, WithinBudget, Reads
<1>4. <<"run_started">> \in Added /\ <<"run_expired">> \in Added
  BY DEF Added, Event
<1>5. CASE At(q, "queue") /\ Write(t, <<"run_started">>, 0)
           /\ Then(q, Go(q, "dispatch") /\ UNCHANGED accepted)
  <2>1. /\ Store' /\ Snapshots' /\ Grew /\ Alone(q) /\ tx'[q] = None
        /\ Fresh(t) => Started(t.run)'
        /\ t.run = req[q].run
    BY <1>1, <1>2, <1>3, <1>4, <1>5, EndKeeps
  <2>2. CASE Fresh(t) /\ Go(q, "dispatch") /\ UNCHANGED accepted
    <3>1. PICK r \in Runs : r = t.run /\ r = req[q].run
      BY <1>2, <2>1 DEF Follows
    <3>2. Started(r)'
      BY <2>1, <2>2, <3>1 DEF Started
    <3>3. Requests'
      BY <1>1, <2>1, <2>2, <3>1, <3>2, GoKeeps DEF Held, Pc
    <3> QED
      BY <2>1, <3>3 DEF IInv
  <2>3. CASE Reply(q, "error")
    BY <2>1, <2>3, ReplyKeeps DEF IInv
  <2> QED
    BY <1>2, <1>5, <2>2, <2>3 DEF Then
<1>6. CASE At(q, "expire") /\ Write(t, <<"run_expired">>, 0) /\ Then(q, Reply(q, "conflict"))
  <2>1. Store' /\ Snapshots' /\ Grew /\ Alone(q) /\ tx'[q] = None
    BY <1>1, <1>2, <1>3, <1>4, <1>6, EndKeeps
  <2>2. PICK a \in {"error", "conflict"} : Reply(q, a)
    BY <1>6 DEF Then
  <2> QED
    BY <2>1, <2>2, ReplyKeeps DEF IInv
<1> QED
  BY <1>2, <1>5, <1>6 DEF Queue

-----------------------------------------------------------------------------
(* The steps of the worker, the sweep and the owner.                       *)

LEMMA TakeKeeps == ASSUME IInv, NEW r \in Runs, Take(r) PROVE IInv'
<1>1. /\ run[r].status = "queued" /\ run' = [run EXCEPT ![r].status = "running"]
      /\ UNCHANGED <<log, stale, tx, req, accepted>>
  BY DEF Take
<1>2. /\ run \in [Run -> Rows \cup {None}] /\ log \in [Run -> Seq(Event)] /\ stale \subseteq Runs
      /\ LogTellsStatus /\ WithinBudget /\ OneRun
  BY DEF IInv, Store
<1>3. PICK o \in Rows : o = run[r]
  BY RowIs DEF IInv
<1>4. PICK row : row = [o EXCEPT !.status = "running"]
  OBVIOUS
<1>5. /\ row \in Rows /\ row # None /\ row.status = "running" /\ row.alert = o.alert
      /\ row.seq = o.seq /\ row.bytes = o.bytes
  <2>1. /\ row \in Rows /\ row.status = "running" /\ row.alert = o.alert
        /\ row.seq = o.seq /\ row.bytes = o.bytes
    BY <1>4 DEF Rows, Status
  <2> QED
    BY <2>1, NoneAssumption
<1>6. /\ run' \in [Run -> Rows \cup {None}] /\ run'[r] = row
      /\ \A x \in Run : x # r => run'[x] = run[x]
  BY <1>1, <1>2, <1>3, <1>4, <1>5 DEF Runs
<1>7. Runs' = Runs /\ Alerted' = Alerted /\ Active' = Active /\ r \in Run /\ Runs \subseteq Run
  BY <1>1, <1>3, <1>5, <1>6 DEF Runs, Alerted, Active, Terminal
<1>8. LogTellsStatus'
  <2>1. /\ run[r].seq = Len(log[r])
        /\ Tells(log[r], IF run[r].status = "running" THEN "queued" ELSE run[r].status)
    BY <1>2 DEF LogTellsStatus
  <2>2. run'[r].seq = Len(log[r]) /\ Tells(log[r], "queued") /\ run'[r].status = "running"
    BY <1>1, <1>3, <1>5, <1>6, <2>1
  <2>3. ASSUME NEW x \in Runs
        PROVE  /\ run'[x].seq = Len(log[x])
               /\ Tells(log[x], IF run'[x].status = "running" THEN "queued" ELSE run'[x].status)
    BY <1>2, <1>6, <1>7, <2>2 DEF LogTellsStatus
  <2> QED
    BY <1>1, <1>7, <2>3 DEF LogTellsStatus
<1>9. WithinBudget' /\ OneRun'
  BY <1>1, <1>2, <1>3, <1>5, <1>6, <1>7 DEF WithinBudget, OneRun
<1>10. Store'
  BY <1>1, <1>2, <1>6, <1>7, <1>8, <1>9 DEF Store
<1>11. Grew
  BY <1>3, <1>5, <1>6, <1>7 DEF Grew, Started
<1>12. ASSUME NEW s \in Reads, Follows(s) PROVE Follows(s)'
  <2>1. CASE s.run = r
    <3>1. /\ s.seq <= o.seq
          /\ s.seq = o.seq => s.bytes = o.bytes /\ s.status = "queued"
      BY <1>1, <1>3, <1>12, <2>1 DEF Follows, Fresh
    <3> QED
      BY <1>5, <1>6, <1>7, <2>1, <3>1 DEF Follows, Fresh
  <2>2. CASE s.run # r
    BY <1>6, <1>7, <1>12, <2>2 DEF Follows, Fresh
  <2> QED
    BY <2>1, <2>2
<1>13. \A x \in Runs : Unfired(x) => Unfired(x)'
  BY <1>1 DEF Unfired
<1>14. Snapshots' /\ Requests'
  BY <1>1, <1>11, <1>12, <1>13, SnapsStay, AsksStay
<1> QED
  BY <1>10, <1>14 DEF IInv

LEMMA AgeKeeps == ASSUME IInv, NEW r \in Runs, Age(r) PROVE IInv'
<1>1. stale' = stale \cup {r} /\ UNCHANGED <<run, log, tx, req, accepted>>
  BY DEF Age
<1>2. Runs' = Runs /\ Active' = Active /\ Alerted' = Alerted
  BY <1>1 DEF Runs, Active, Alerted
<1>3. Store'
  BY <1>1, <1>2 DEF IInv, Store, LogTellsStatus, WithinBudget, OneRun
<1>4. /\ Grew /\ \A s \in Reads : Follows(s) => Follows(s)'
      /\ \A x \in Runs : Unfired(x) => Unfired(x)'
  BY <1>1, <1>2 DEF Grew, Started, Follows, Fresh, Unfired
<1>5. Snapshots' /\ Requests'
  BY <1>1, <1>4, SnapsStay, AsksStay
<1> QED
  BY <1>3, <1>5 DEF IInv

\* Under the row's lock.
LEMMA LockedKeeps ==
  ASSUME IInv, NEW r \in Runs, NEW e \in {"run_completed", "budget_exhausted", "run_cancelled"},
         Locked(r, e), UNCHANGED <<tx, req, accepted>>
  PROVE  IInv'
<1>1. PICK t \in Reads : t = Row(r) /\ Follows(t)
  BY RowReads DEF IInv
<1>2. t.bytes + 0 <= Budget /\ 0 \in Nat
  BY <1>1, RowReads, RowIs DEF IInv, Store, WithinBudget
<1>3. PICK events \in Added :
        events = <<e>> /\ events # <<"run_started">> /\ events # <<"alert_firing">>
  BY DEF Added, Event
<1>4. Write(t, events, 0)
  BY <1>1, <1>3 DEF Locked
<1>5. /\ Store' /\ Grew /\ \A s \in Reads : Follows(s) => Follows(s)'
      /\ \A x \in Runs : Unfired(x) => Unfired(x)'
  BY <1>1, <1>2, <1>3, <1>4, WriteKeeps DEF IInv
<1>6. Snapshots' /\ Requests'
  BY <1>5, SnapsStay, AsksStay
<1> QED
  BY <1>5, <1>6 DEF IInv

\* The worker and the sweep are no requests.
LEMMA OutsideIs ==
  ASSUME NEW a \in {Worker, Sweeper}
  PROVE  a \in Actor /\ \A k \in Req : k \in Actor /\ k # a
  BY IntakeAssumption DEF Actor

LEMMA OutReadKeeps ==
  ASSUME IInv, NEW a \in {Worker, Sweeper}, NEW r \in Runs, Read(a, r),
         UNCHANGED <<run, log, stale, req, accepted>>
  PROVE  IInv'
<1>1. PICK v \in Reads : v = Row(r) /\ Follows(v)
  BY RowReads DEF IInv
<1>2. /\ Store' /\ Grew /\ \A s \in Reads : Follows(s) => Follows(s)'
      /\ \A x \in Runs : Unfired(x) => Unfired(x)'
  BY Still
<1>3. tx' = [tx EXCEPT ![a] = v] /\ Follows(v)'
  BY <1>1, <1>2 DEF Read
<1>4. Snapshots' /\ \A k \in Req : tx'[k] = tx[k]
  BY <1>2, <1>3, OutsideIs, Snapped
<1>5. Requests'
  BY <1>2, <1>4, AsksStay
<1> QED
  BY <1>2, <1>4, <1>5 DEF IInv

LEMMA OutEndKeeps ==
  ASSUME IInv, NEW a \in {Worker, Sweeper}, NEW t, t = tx[a], t # None, NEW events \in Added,
         events # <<"run_started">>, events # <<"alert_firing">>, NEW n,
         Fresh(t) => n \in Nat /\ t.bytes + n <= Budget,
         Write(t, events, n), Close(a), UNCHANGED <<req, accepted>>
  PROVE  IInv'
<1>1. a \in Actor /\ t \in Reads /\ Follows(t)
  BY OutsideIs DEF IInv, Snapshots
<1>2. /\ Store' /\ Snapshots' /\ Grew /\ \A b \in Actor : b # a => tx'[b] = tx[b]
      /\ \A x \in Runs : Unfired(x) => Unfired(x)'
  BY <1>1, EndIs
<1>3. \A k \in Req : tx'[k] = tx[k]
  BY <1>2, OutsideIs
<1>4. Requests'
  BY <1>2, <1>3, AsksStay
<1> QED
  BY <1>2, <1>4 DEF IInv

LEMMA KeepKeeps == ASSUME IInv, Keep PROVE IInv'
<1>1. PICK t : t = tx[Worker] /\ t # None
  BY DEF Keep
<1>2. PICK n \in Sizes(t) : Write(t, <<"artifact_created">>, n)
  BY <1>1 DEF Keep
<1>3. t \in Reads /\ Follows(t)
  BY <1>1, OutsideIs DEF IInv, Snapshots
<1>4. Fresh(t) => n \in Nat /\ t.bytes + n <= Budget
  BY <1>3, SizesFit
<1>5. PICK events \in Added : /\ events = <<"artifact_created">> /\ events # <<"run_started">>
                              /\ events # <<"alert_firing">>
  <2>1. /\ <<"artifact_created">> \in Added
        /\ <<"artifact_created">> # <<"run_started">> /\ <<"artifact_created">> # <<"alert_firing">>
    BY DEF Added, Event
  <2> QED
    BY <2>1
<1>6. Close(Worker) /\ UNCHANGED <<req, accepted>>
  BY DEF Keep
<1> QED
  BY <1>1, <1>2, <1>4, <1>5, <1>6, OutEndKeeps

LEMMA ExpireKeeps == ASSUME IInv, Expire PROVE IInv'
<1>1. PICK t : t = tx[Sweeper] /\ t # None
  BY DEF Expire
<1>2. t \in Reads /\ Follows(t)
  BY <1>1, OutsideIs DEF IInv, Snapshots
<1>3. Fresh(t) => 0 \in Nat /\ t.bytes + 0 <= Budget
  BY <1>2 DEF Follows, IInv, Store, WithinBudget, Reads
<1>4. PICK events \in Added : /\ events = <<"run_expired">> /\ events # <<"run_started">>
                              /\ events # <<"alert_firing">>
  <2>1. /\ <<"run_expired">> \in Added
        /\ <<"run_expired">> # <<"run_started">> /\ <<"run_expired">> # <<"alert_firing">>
    BY DEF Added, Event
  <2> QED
    BY <2>1
<1>5. Write(t, events, 0) /\ Close(Sweeper) /\ UNCHANGED <<req, accepted>>
  BY <1>1, <1>4 DEF Expire
<1> QED
  BY <1>1, <1>3, <1>4, <1>5, OutEndKeeps

LEMMA RunStepKeeps ==
  ASSUME IInv, NEW r \in Runs,
         Take(r) \/ Finish(r) \/ Cancel(r) \/ Output(r) \/ Age(r) \/ Sweep(r)
  PROVE  IInv'
<1>1. CASE Finish(r)
  BY <1>1, LockedKeeps DEF Finish
<1>2. CASE Cancel(r)
  BY <1>2, LockedKeeps DEF Cancel
<1>3. CASE Output(r)
  BY <1>3, OutReadKeeps DEF Output
<1>4. CASE Sweep(r)
  BY <1>4, OutReadKeeps DEF Sweep
<1> QED
  BY <1>1, <1>2, <1>3, <1>4, TakeKeeps, AgeKeeps

LEMMA StutterKeeps == ASSUME IInv, UNCHANGED vars PROVE IInv'
<1>1. UNCHANGED <<run, log, stale, tx, req, accepted>>
  BY DEF vars
<1>2. /\ Store' /\ Snapshots' /\ Grew /\ \A q \in Req : tx'[q] = tx[q]
      /\ \A x \in Runs : Unfired(x) => Unfired(x)'
  BY <1>1, CalmIs, Still
<1>3. Requests'
  BY <1>1, <1>2, AsksStay
<1> QED
  BY <1>2, <1>3 DEF IInv

LEMMA StepKeeps == ASSUME IInv, [Next]_vars PROVE IInv'
  BY ArriveKeeps, CheckKeeps, InsertKeeps, FindKeeps, ConflictKeeps, OpenKeeps, RecordKeeps,
     DecideKeeps, StartKeeps, QueueKeeps, DispatchKeeps, DieKeeps, RunStepKeeps, KeepKeeps,
     ExpireKeeps, StutterKeeps DEF Next

LEMMA StartHolds == ASSUME Init PROVE IInv
<1>1. Runs = {} /\ Alerted = {} /\ Active = {} /\ stale = {}
  BY DEF Init, Runs, Alerted, Active
<1>2. run \in [Run -> Rows \cup {None}] /\ log \in [Run -> Seq(Event)]
  BY DEF Init
<1>3. Store
  BY <1>1, <1>2 DEF Store, LogTellsStatus, WithinBudget, OneRun
<1>4. Snapshots
  BY DEF Init, Snapshots
<1>5. Idle \in Request /\ Idle.pc = "idle" /\ Idle.run = None
  BY DEF Idle, Request, Pc
<1>6. req \in [Req -> Request] /\ (\A q \in Req : req[q] = Idle /\ tx[q] = None) /\ ~accepted
  BY <1>5 DEF Init, Actor
<1>7. \A q \in Req : Placed(q)
  BY <1>5, <1>6 DEF Placed, Held
<1>8. Requests
  <2>1. accepted = FALSE /\ \A q \in Req : ~At(q, "firing")
    BY <1>5, <1>6 DEF Init, At
  <2> QED
    BY <1>6, <1>7, <2>1 DEF Requests, Unrecorded
<1> QED
  BY <1>3, <1>4, <1>8 DEF IInv

-----------------------------------------------------------------------------
(* What comes in.                                                          *)

LEMMA AtMostOne ==
  ASSUME NEW S, \A x, y \in S : x = y
  PROVE  Cardinality(S) <= 1
<1>1. CASE S = {}
  BY <1>1, FS_EmptySet
<1>2. CASE S # {}
  <2>1. PICK x \in S : TRUE
    BY <1>2
  <2>2. S = {x}
    BY <2>1
  <2> QED
    BY <2>2, FS_Singleton
<1> QED
  BY <1>1, <1>2

LEMMA IntakeFollows == ASSUME IInv PROVE TypeOK /\ IntakeIsSound
<1>1. LogTellsStatus /\ WithinBudget /\ OneRun
  BY DEF IInv, Store
<1>2. OneRunPerAlert
  <2>1. Cardinality(Alerted) <= 1 /\ Cardinality(Active) <= 1
    BY <1>1, AtMostOne DEF OneRun
  <2>2. ASSUME NEW r \in Runs
        PROVE  Cardinality({i \in 1 .. Len(log[r]) : log[r][i] = "alert_firing"}) <= 1
    <3>1. DOMAIN log[r] = 1 .. Len(log[r])
      BY RowIs DEF IInv
    <3>2. \A i, k \in {j \in 1 .. Len(log[r]) : log[r][j] = "alert_firing"} : i = k
      BY <1>1, <3>1 DEF OneRun
    <3> QED
      BY <3>2, AtMostOne
  <2> QED
    BY <2>1, <2>2 DEF OneRunPerAlert
<1>3. AcceptedIsStarted
  BY DEF IInv, Requests, AcceptedIsStarted, Started
<1>4. TypeOK
  <2>1. (\A r \in Run : run[r] \in Rows \cup {None}) /\ stale \subseteq Runs
    BY DEF IInv, Store
  <2>2. \A a \in Actor : tx[a] # None => tx[a] \in Reads /\ tx[a].run \in Runs
    BY DEF IInv, Snapshots, Follows
  <2>3. \A q \in Req : req[q].run \in Runs \cup {None} /\ (At(q, "idle") => tx[q] = None)
    BY RequestIs DEF Placed, At, Reading
  <2> QED
    BY <2>1, <2>2, <2>3 DEF TypeOK
<1> QED
  BY <1>1, <1>2, <1>3, <1>4 DEF IntakeIsSound

(* However the notifications of an alert, the requests, the worker and the   *)
(* sweep interleave, overtake each other and break off: a Run's events are   *)
(* numbered without a gap and tell its status, an alert has one Run that     *)
(* records it once, a host one active Run, an accepted notification a Run    *)
(* that was started, and no Run keeps more bytes than its budget             *)
(* (repository.py:429, 600, 1596; views.py:300).                             *)
THEOREM IntakeHolds == Spec => []IntakeIsSound
<1>1. Init => IInv
  BY StartHolds
<1>2. IInv /\ [Next]_vars => IInv'
  BY StepKeeps
<1>3. IInv => IntakeIsSound
  BY IntakeFollows
<1> QED
  BY <1>1, <1>2, <1>3, PTL DEF Spec

(* The types, and that a Run a request or a transaction works on exists.     *)
THEOREM IntakeIsTyped == Spec => []TypeOK
<1>1. Init => IInv
  BY StartHolds
<1>2. IInv /\ [Next]_vars => IInv'
  BY StepKeeps
<1>3. IInv => TypeOK
  BY IntakeFollows
<1> QED
  BY <1>1, <1>2, <1>3, PTL DEF Spec
=============================================================================
