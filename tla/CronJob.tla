------------------------------- MODULE CronJob -------------------------------
(***************************************************************************)
(* One job name of cron/cron.py: its row in MySQL, its job in the          *)
(* scheduler of the one server process, and the Redis key that is to keep  *)
(* additions of the name apart.  Row and job change in different steps of  *)
(* a request, other requests run while it waits for MySQL or Redis, and a  *)
(* restart loses the scheduler and builds it again from the rows.          *)
(***************************************************************************)
EXTENDS Naturals, FiniteSets

CONSTANTS
  Req, None,
  Unusable  \* requests whose five fields the scheduler refuses, or that name no
            \* day that ever comes: what add_job writes is not checked before

CronAssumption ==
  Unusable \subseteq Req /\ None \notin Req \cup [on : BOOLEAN, deleted : BOOLEAN, def : Req] \cup [on : BOOLEAN, def : Req]

VARIABLES
  row,   \* t_cron: job_status, is_deleted and who defined it; None: no row
  job,   \* the scheduler's job: not paused, and whose definition it runs
  lock,  \* lock:job_name:*
  pc,    \* where each request is
  seen,  \* the row it has read
  past   \* since the last restart (history): "mixed" two operations, not both
         \* additions, were under way at once; "loose" an addition was without
         \* the lock; "failed" a commit failed; "hostless" no target was found

vars == <<row, job, lock, pc, seen, past>>
-----------------------------------------------------------------------------
Adding == {"lock", "check", "write", "resolve", "schedule", "unlock"}
Other  == {"pause", "pause job", "pause row", "resume", "resume job",
           "register", "resume row", "remove", "remove job", "remove row",
           "close jobs", "close rows"}
Busy   == {r \in Req : pc[r] \in Adding \cup Other}

\* scheduler.add_job raises (None), or adds a job that has no next run and so
\* counts as paused; else the job runs.
Added(d)   == IF d \in Unusable THEN {None, [on |-> FALSE, def |-> d]}
              ELSE {[on |-> TRUE, def |-> d]}

Started(d) == [on |-> TRUE, deleted |-> FALSE, def |-> d]
Live(x)    == x # None /\ ~x.deleted

\* A request goes on; what it has read is lost when it needs it no more.
GotoWith(r, l, x) ==
  /\ pc' = [pc EXCEPT ![r] = l]
  /\ seen' = [seen EXCEPT ![r] = IF l \in {"write", "resume job", "register"} THEN x ELSE None]
Goto(r, l) == GotoWith(r, l, seen[r])
Look(r, l) == GotoWith(r, l, row)
Note(p)    == past' = past \cup {p}

Init ==
  /\ row = None /\ job = None /\ lock = None
  /\ pc = [r \in Req |-> "idle"]
  /\ seen = [r \in Req |-> None]
  /\ past = {}

Begin(r) ==
  /\ pc[r] = "idle"
  /\ \E l \in {"lock", "pause", "resume", "remove", "close jobs"} :
       /\ Goto(r, l)
       /\ IF l = "lock" /\ \A q \in Busy : pc[q] \in Adding
          THEN UNCHANGED past
          ELSE past' = past \cup {p \in {"mixed"} : Busy # {}}
  /\ UNCHANGED <<row, job, lock>>

-----------------------------------------------------------------------------
(* add_job                                                                 *)

FreeAlways == TRUE  \* mutant: SET without NX
Free       == lock = None
\* SET NX; an error of Redis lets the request go on without the lock.
Lock(r) ==
  /\ pc[r] = "lock"
  /\ \/ Free /\ lock' = r /\ Goto(r, "check") /\ UNCHANGED past
     \/ ~Free /\ Goto(r, "idle") /\ UNCHANGED <<lock, past>>
     \/ Goto(r, "check") /\ Note("loose") /\ UNCHANGED lock
  /\ UNCHANGED <<row, job>>

Check(r) ==
  /\ pc[r] = "check"
  /\ Look(r, IF Live(row) THEN "unlock" ELSE "write")
  /\ UNCHANGED <<row, job, lock, past>>

\* A new row, which the unique name refuses if there is one by now, or the
\* deleted row written over with the new definition.
Write(r) ==
  /\ pc[r] = "write"
  /\ \/ /\ seen[r] = None => row = None
        /\ row' = Started(r)
        /\ Goto(r, "resolve")
     \/ Goto(r, "unlock") /\ UNCHANGED row
  /\ UNCHANGED <<job, lock, past>>

\* No target: the request fails, and the row stays.
Resolve(r) ==
  /\ pc[r] = "resolve"
  /\ \/ Goto(r, "schedule") /\ UNCHANGED past
     \/ Goto(r, "unlock") /\ Note("hostless")
  /\ UNCHANGED <<row, job, lock>>

\* The scheduler refuses a name it has, and fields it cannot read: the row,
\* already committed as started, stays.
Schedule(r) ==
  /\ pc[r] = "schedule"
  /\ IF job = None THEN job' \in Added(r) ELSE UNCHANGED job
  /\ Goto(r, "unlock")
  /\ UNCHANGED <<row, lock, past>>

\* The key is deleted, whoever has set it, unless Redis fails.
Unlock(r) ==
  /\ pc[r] = "unlock"
  /\ \/ lock' = None
     \/ UNCHANGED lock
  /\ Goto(r, "idle")
  /\ past' = past \cup {p \in {"loose"} : lock \notin {r, lock'}}
  /\ UNCHANGED <<row, job>>

-----------------------------------------------------------------------------
(* pause_job, resume_job, remove_job, close_job                            *)

\* The row is read and must not be deleted; the owner may operate on it.
Read(r, from, to) ==
  /\ pc[r] = from
  /\ Look(r, IF Live(row) THEN to ELSE "idle")
  /\ UNCHANGED <<row, job, lock, past>>

Paused  == job' = IF job = None THEN None ELSE [job EXCEPT !.on = FALSE]
\* A job without a next run is removed.
Resumed == job' = IF job.def \in Unusable THEN None ELSE [job EXCEPT !.on = TRUE]
PauseJob(r) ==
  /\ pc[r] = "pause job" /\ Paused
  /\ Goto(r, "pause row")
  /\ UNCHANGED <<row, lock, past>>

\* UPDATE ... WHERE not deleted; or the commit fails and is rolled back.
RowTo(r, from, on) ==
  /\ pc[r] = from
  /\ \/ /\ row' = IF Live(row) THEN [row EXCEPT !.on = on] ELSE row
        /\ UNCHANGED past
     \/ UNCHANGED row /\ Note("failed")
  /\ Goto(r, "idle")
  /\ UNCHANGED <<job, lock>>

ResumeJob(r) ==
  /\ pc[r] = "resume job"
  /\ \/ /\ job # None /\ Resumed
        /\ Goto(r, "resume row") /\ UNCHANGED past
     \/ /\ job = None
        /\ \/ Goto(r, "register") /\ UNCHANGED past
           \/ Goto(r, "resume row") /\ Note("hostless")
        /\ UNCHANGED job
  /\ UNCHANGED <<row, lock>>

\* The targets were resolved in between; a job that came up is a conflict, and
\* that or fields the scheduler refuses end the request with the row as it was.
Register(r) ==
  /\ pc[r] = "register"
  /\ IF job = None THEN job' \in Added(seen[r].def) ELSE UNCHANGED job
  /\ Goto(r, IF job = None /\ job' # None THEN "resume row" ELSE "idle")
  /\ UNCHANGED <<row, lock, past>>

Removed == None
RemoveJob(r) ==
  /\ pc[r] = "remove job"
  /\ job' = Removed
  /\ Goto(r, "remove row")
  /\ UNCHANGED <<row, lock, past>>

RemoveRow(r) ==
  /\ pc[r] = "remove row"
  /\ \/ row' = [row EXCEPT !.deleted = TRUE] /\ UNCHANGED past
     \/ UNCHANGED row /\ Note("failed")
  /\ Goto(r, "idle")
  /\ UNCHANGED <<job, lock>>

\* close_job pauses every job, then every row, the deleted ones too.
CloseJobs(r) ==
  /\ pc[r] = "close jobs" /\ Paused
  /\ Goto(r, "close rows")
  /\ UNCHANGED <<row, lock, past>>
CloseRows(r) ==
  /\ pc[r] = "close rows"
  /\ \/ /\ row' = IF row = None THEN row ELSE [row EXCEPT !.on = FALSE]
        /\ UNCHANGED past
     \/ UNCHANGED row /\ Note("failed")
  /\ Goto(r, "idle")
  /\ UNCHANGED <<job, lock>>

Add(r) == Lock(r) \/ Check(r) \/ Write(r) \/ Resolve(r) \/ Schedule(r)
          \/ Unlock(r)
Operate(r) ==
  \/ Read(r, "pause", "pause job") \/ PauseJob(r) \/ RowTo(r, "pause row", FALSE)
  \/ Read(r, "resume", "resume job") \/ ResumeJob(r) \/ Register(r)
  \/ RowTo(r, "resume row", TRUE)
  \/ Read(r, "remove", "remove job") \/ RemoveJob(r) \/ RemoveRow(r)
  \/ CloseJobs(r) \/ CloseRows(r)

-----------------------------------------------------------------------------
\* ADD_JOB_LOCK_TTL runs out.
Expire ==
  /\ lock # None
  /\ lock' = None
  /\ past' = past \cup {p \in {"loose"} : pc[lock] \in Adding}
  /\ UNCHANGED <<row, job, pc, seen>>

\* The process restarts: requests and jobs are gone; load_cron_from_db, which
\* passes over a row the scheduler refuses.
Loadable     == Live(row) /\ row.on
Restart ==
  /\ pc' = [r \in Req |-> "idle"] /\ seen' = [r \in Req |-> None]
  /\ \/ /\ job' \in IF Loadable THEN Added(row.def) ELSE {None}
        /\ past' = {}
     \/ job' = None /\ past' = {"hostless"}
  /\ UNCHANGED <<row, lock>>

Next == \/ \E r \in Req : Begin(r) \/ Add(r) \/ Operate(r)
        \/ Expire \/ Restart
Spec == Init /\ [][Next]_vars
-----------------------------------------------------------------------------
TypeOK ==
  /\ row \in [on : BOOLEAN, deleted : BOOLEAN, def : Req] \cup {None}
  /\ job \in [on : BOOLEAN, def : Req] \cup {None}
  /\ lock \in Req \cup {None}
  /\ pc \in [Req -> Adding \cup Other \cup {"idle"}]
  /\ past \subseteq {"mixed", "loose", "failed", "hostless"}

\* Row and job, kept in two places, tell the same once no request is under way:
\* a started row has a running job, a paused or deleted one has none; unless the
\* scheduler cannot use the row's fields, or operations crossed, a commit failed,
\* an addition was loose or no target was found since it was last built.
RowDecides ==
  (Busy = {} /\ past = {}) =>
    ((job # None /\ job.on) <=> (Live(row) /\ row.on /\ row.def \notin Unusable))

\* cron.py:33 and 213: whatever additions of one name are under way together,
\* the job runs the definition that the row shows.
JobRunsItsRow ==
  (job # None /\ past \cap {"mixed", "loose"} = {}) =>
    (row # None /\ job.def = row.def)

\* Both: the scheduler does what the table of jobs says.
JobsFollowRows == RowDecides /\ JobRunsItsRow
=============================================================================
