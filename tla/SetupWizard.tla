---------------------------- MODULE SetupWizard ----------------------------
(* The first deployment: the three modes of the backend, the apply requests  *)
(* of the wizard with their bootstrap child processes, the files they leave, *)
(* and the autonomy worker that waits for them.  A deployment configured by  *)
(* hand never meets the wizard and is left out.                              *)
(* src/backend/setup/, wsgi.py, app/ai/autonomy/celery_entry.py.             *)
(*                                                                           *)
(* A request stands for its secrets: the keys apply r generated and the      *)
(* password its operator typed.                                              *)
EXTENDS Naturals, FiniteSets, FiniteSetsExt

CONSTANTS Reqs,      \* apply requests
          Names,     \* account names the operator may type
          Seed,      \* the seeded account, "admin"
          None,      \* no configuration, no name
          MaxCrashes \* bound: deaths of the web process, breaks of the config

\* A password typed into the wizard is not the seeded one, which is too short.
SetupAssumption ==
  /\ Seed \in Names /\ None \notin Names /\ MaxCrashes \in Nat
  /\ IsFiniteSet(Reqs) /\ None \notin Reqs
  /\ {"seed", "own", "unusable"} \cap (Reqs \cup {None}) = {}

VARIABLES
  \* the host
  web,       \* mode of the running process
  flag,      \* OGS_SETUP_MODE in its environment
  runtime,   \* runtime.env: whose configuration
  sentinel,  \* .setup_completed
  token,     \* setup_token.txt
  worker,    \* the autonomy worker
  \* the database
  rows, seeded,
  \* the requests
  par, child, name, saw,
  crossed,   \* ghost: two children have run side by side
  spoiled,   \* ghost: since the sentinel was last written it could not be
             \* written again, or was lost with the data directory
  faults

files  == <<runtime, sentinel, token, spoiled>>
db     == <<rows, seeded>>
asked  == <<name, crossed>>
vars   == <<web, flag, files, worker, db, par, child, asked, saw, faults>>

Ids  == 1..(Cardinality(Reqs) + 2)
NoRow == [name |-> None, live |-> FALSE, admin |-> FALSE, pwd |-> None]
Row(n, p, a) == [name |-> n, live |-> TRUE, admin |-> a, pwd |-> p]

(* The database an operator may point the wizard at: empty, filled by the    *)
(* compose seed, or with a member account besides.                           *)
SeedPwd == "seed"
Databases ==
  LET Two(a, b) == [i \in Ids |-> IF i = 1 THEN a ELSE IF i = 2 THEN b ELSE NoRow]
      admin     == Row(Seed, SeedPwd, TRUE)
  IN {Two(NoRow, NoRow), Two(admin, NoRow)}
       \cup {Two(admin, Row(n, "own", FALSE)) : n \in Names \ {Seed}}

Init ==
  /\ web = "down" /\ flag = "auto" /\ spoiled = FALSE /\ runtime = None /\ sentinel = FALSE /\ token = FALSE
  /\ worker = "waits"
  /\ rows \in Databases /\ seeded = FALSE
  /\ par = [r \in Reqs |-> "idle"] /\ child = [r \in Reqs |-> "none"]
  /\ name = [r \in Reqs |-> Seed]
  /\ saw = [r \in Reqs |-> [existing |-> 0, legacy |-> 0]]
  /\ crossed = FALSE /\ faults = 0

(* ------------------------------ the modes -------------------------------- *)

Flags    == {"auto", "off", "force"}
Complete == runtime # None

\* "auto" stands for the flag not set.
ShouldEnterSetup(f) == f = "force" \/ (f = "auto" /\ ~Complete /\ ~sentinel)
Mode(f) == IF ShouldEnterSetup(f) THEN "setup"
           ELSE IF Complete THEN "normal" ELSE "maintenance"

(* mark_configured: "the data directory not being writable does not keep the *)
(* service from starting; only the maintenance protection is lost" (128).    *)
WriteSentinel ==
  \/ sentinel' = TRUE /\ spoiled' = FALSE
  \/ UNCHANGED sentinel /\ spoiled' = IF sentinel THEN spoiled ELSE TRUE

(* Importing wsgi.py, in an environment the operator may have changed.  A    *)
(* normal start may fail (Redis or a table missing) and then serves the      *)
(* maintenance page; a good one renews the sentinel.                         *)
Boot ==
  /\ web = "down"
  /\ \E f \in Flags :
       /\ flag' = f
       /\ \/ /\ web' = Mode(f) /\ Mode(f) = "setup"
             /\ token' = TRUE /\ UNCHANGED <<sentinel, spoiled>>
          \/ /\ web' = "maintenance" /\ Mode(f) # "setup"
             /\ UNCHANGED <<token, sentinel, spoiled>>
          \/ /\ web' = Mode(f) /\ Mode(f) = "normal"
             /\ WriteSentinel /\ UNCHANGED token
  /\ UNCHANGED <<runtime, worker, db, par, child, asked, saw, faults>>

InFlight == {"boot", "write", "mark", "drop"}

(* The web process goes: its requests are lost, their children live on.      *)
Down ==
  /\ web' = "down"
  /\ par' = [r \in Reqs |-> IF par[r] \in InFlight THEN "lost" ELSE par[r]]
  /\ UNCHANGED <<flag, files, worker, db, child, asked, saw>>

(* SIGTERM to itself, one second after an apply has answered.                *)
Suicide == web = "setup" /\ (\E r \in Reqs : par[r] = "ok") /\ Down /\ UNCHANGED faults

Crash == /\ web # "down" /\ faults < MaxCrashes
         /\ faults' = faults + 1 /\ Down

(* An operator removes runtime.env, or the data directory is lost (a volume  *)
(* not mounted) with the sentinel, the token, and runtime.env too unless     *)
(* OGS_RUNTIME_ENV_FILE names a place elsewhere.                             *)
LoseConfig ==
  /\ faults < MaxCrashes /\ faults' = faults + 1
  /\ \/ runtime' = None /\ UNCHANGED <<sentinel, token, spoiled>>
     \/ /\ runtime' \in {None, runtime}
        /\ sentinel' = FALSE /\ token' = FALSE /\ spoiled' = TRUE
  /\ UNCHANGED <<web, flag, worker, db, par, child, asked, saw>>

(* The worker has an environment of its own, and OGS_SETUP_MODE=force in it  *)
(* only keeps it waiting.                                                    *)
PollMode ==
  /\ worker = "waits" /\ Complete
  /\ worker' = "runs"
  /\ UNCHANGED <<web, flag, files, db, par, child, asked, saw, faults>>

(* ------------------------- apply, in the web process --------------------- *)

Working == {"seed", "read", "admin", "mail"}
To(r, s) == par' = [par EXCEPT ![r] = s]

Allowed == ShouldEnterSetup(flag)

(* MySQL, Redis or the mail server does not answer, or is refused.           *)
CheckFails(r) == To(r, "failed")

(* The guard, the check that the system is not configured, the connections   *)
(* tried again: then the child starts.                                       *)
Apply(r) ==
  /\ par[r] = "idle" /\ web = "setup"
  /\ \E n \in Names : name' = [name EXCEPT ![r] = n]
  /\ token' = TRUE
  /\ crossed' = (crossed \/ \E s \in Reqs : par[s] \in InFlight \/ child[s] \in Working)
  /\ \/ ~Allowed /\ To(r, "refused") /\ UNCHANGED child
     \/ Allowed /\ CheckFails(r) /\ UNCHANGED child
     \/ /\ Allowed /\ To(r, "boot")
        /\ child' = [child EXCEPT ![r] = "seed"]
  /\ UNCHANGED <<web, flag, runtime, sentinel, spoiled, worker, db, saw, faults>>

(* 120 s: subprocess.run kills the child.                                    *)
TimedOut(r) ==
  /\ par[r] = "boot" /\ child[r] # "ok"
  /\ To(r, "failed") /\ child' = [child EXCEPT ![r] = "killed"]
  /\ UNCHANGED <<web, flag, files, worker, db, asked, saw, faults>>

Exited(r) ==
  /\ par[r] = "boot" /\ child[r] \in {"ok", "bad"}
  /\ To(r, IF child[r] = "ok" THEN "write" ELSE "failed")
  /\ UNCHANGED <<web, flag, files, worker, db, child, asked, saw, faults>>

(* A temporary file, fsync, replace: all of it or nothing.                   *)
WriteEnv(r) ==
  /\ par[r] = "write"
  /\ \/ runtime' = r /\ To(r, "mark")
     \/ UNCHANGED runtime /\ To(r, "failed")
  /\ UNCHANGED <<web, flag, sentinel, token, spoiled, worker, db, child, asked, saw, faults>>

MarkConfigured(r) ==
  /\ par[r] = "mark"
  /\ WriteSentinel /\ To(r, "drop")
  /\ UNCHANGED <<web, flag, runtime, token, worker, db, child, asked, saw, faults>>

(* The answer is given, whether or not the files could be written and removed. *)
DropToken(r) ==
  /\ par[r] = "drop"
  /\ token' \in {FALSE, token} /\ To(r, "ok")
  /\ UNCHANGED <<web, flag, runtime, sentinel, spoiled, worker, db, child, asked, saw, faults>>

(* ------------------------- bootstrap_db, the child ----------------------- *)

On(r, s) == child' = [child EXCEPT ![r] = s]

(* An error rolls the open transaction back; what was committed stays.       *)
ChildFails(r) ==
  /\ child[r] \in Working
  /\ On(r, "bad")
  /\ UNCHANGED <<web, flag, files, worker, db, par, asked, saw, faults>>

ChildSeeds(r) ==
  /\ child[r] = "seed"
  /\ seeded' = TRUE /\ On(r, "read")
  /\ UNCHANGED <<web, flag, files, worker, rows, par, asked, saw, faults>>

(* The row of a name, 0 if there is none: a deleted row counts too.          *)
Find(n) == LET at == {i \in Ids : rows[i].name = n} IN IF at = {} THEN 0 ELSE Min(at)

ChildReads(r) ==
  /\ child[r] = "read"
  /\ saw' = [saw EXCEPT ![r] = [existing |-> Find(name[r]), legacy |-> Find(Seed)]]
  /\ On(r, "admin")
  /\ UNCHANGED <<web, flag, files, worker, db, par, asked, faults>>

Unused == Min({i \in Ids : rows[i] = NoRow})

(* An existing account becomes the administrator and the seeded one is       *)
(* deleted; else the seeded one is renamed; else an account is created.      *)
Promote(r, old) == [rows EXCEPT ![old] = [@ EXCEPT !.live = TRUE, !.admin = TRUE, !.pwd = r]]
Retire(table, i) == [table EXCEPT ![i] = [@ EXCEPT !.live = FALSE, !.admin = FALSE,
                                                   !.pwd = "unusable"]]
RenameOnly(r, i) == [rows EXCEPT ![i] = [@ EXCEPT !.name = name[r], !.admin = TRUE]]
Rename(r, i) == [rows EXCEPT ![i] = [@ EXCEPT !.name = name[r], !.pwd = r, !.admin = TRUE]]
Create(r) == [rows EXCEPT ![Unused] = Row(name[r], r, TRUE)]

Administrator(r) ==
  LET old == saw[r].existing
      leg == saw[r].legacy
  IN IF old # 0
     THEN IF leg \notin {0, old} THEN Retire(Promote(r, old), leg) ELSE Promote(r, old)
     ELSE IF leg # 0 THEN Rename(r, leg) ELSE Create(r)

(* The name is unique in the table.                                          *)
Clash(r) == saw[r].existing = 0 /\ Find(name[r]) \notin {0, saw[r].legacy}

ChildCommits(r) ==
  /\ child[r] = "admin"
  /\ IF Clash(r) THEN On(r, "bad") /\ UNCHANGED rows
     ELSE On(r, "mail") /\ rows' = Administrator(r)
  /\ UNCHANGED <<web, flag, files, worker, seeded, par, asked, saw, faults>>

(* The mail settings, if the operator gave any, with the password encrypted. *)
ChildMails(r) ==
  /\ child[r] = "mail"
  /\ On(r, "ok")
  /\ UNCHANGED <<web, flag, files, worker, db, par, asked, saw, faults>>

Next ==
  \/ Boot \/ Suicide \/ Crash \/ LoseConfig \/ PollMode
  \/ \E r \in Reqs :
       \/ Apply(r) \/ TimedOut(r) \/ Exited(r)
       \/ WriteEnv(r) \/ MarkConfigured(r) \/ DropToken(r)
       \/ ChildFails(r) \/ ChildSeeds(r) \/ ChildReads(r) \/ ChildCommits(r)
       \/ ChildMails(r)

Spec == Init /\ [][Next]_vars

(* ------------------------------ properties ------------------------------- *)

(* The types of the variables.                                               *)
TypeOK ==
  /\ web \in {"down", "setup", "normal", "maintenance"} /\ flag \in Flags
  /\ runtime \in Reqs \cup {None}
  /\ sentinel \in BOOLEAN /\ spoiled \in BOOLEAN /\ token \in BOOLEAN /\ seeded \in BOOLEAN
  /\ worker \in {"waits", "runs"}
  /\ \A i \in Ids : /\ rows[i].name \in Names \cup {None}
                    /\ rows[i].pwd \in Reqs \cup {None, SeedPwd, "own", "unusable"}
  /\ \A i, j \in Ids : rows[i].name = rows[j].name /\ i # j => rows[i] = NoRow
  /\ \A r \in Reqs :
       /\ par[r] \in InFlight \cup {"idle", "refused", "failed", "lost", "ok"}
       /\ child[r] \in Working \cup {"none", "ok", "bad", "killed"}
       /\ name[r] \in Names

Administers(i) == rows[i].live /\ rows[i].admin

(* "the built-in admin/admin account is replaced by the wizard's             *)
(* administrator" (DEPLOY.md:88): once a configuration is written, no live   *)
(* account has the seeded password, and somebody can administer, whatever    *)
(* attempts failed, were killed or still run beside the one that succeeded.  *)
NoSeedLogin ==
  Complete => /\ \A i \in Ids : rows[i].pwd # SeedPwd
              /\ \E i \in Ids : Administers(i)

(* The worker waits "until the configuration is ready" (celery_entry.py:27):  *)
(* when it starts, the database has its seed and an administrator.           *)
WorkerFindsDatabase ==
  worker = "runs" => seeded /\ \E i \in Ids : Administers(i)

(* "A configured system, even with a broken configuration, only enters the   *)
(* read-only maintenance page; the wizard is not opened again; the rescue is  *)
(* OGS_SETUP_MODE=force" (DEPLOY.md:95-97, test_force_overrides_sentinel):    *)
(* once an apply has been answered no restart brings the wizard back by      *)
(* itself, whatever died on the way and whatever became of runtime.env,      *)
(* unless the sentinel could not be written or went with its directory.      *)
WizardStaysClosed ==
  [][(\E r \in Reqs : par[r] = "ok") /\ web # "setup" /\ web' = "setup" =>
       flag' = "force" \/ spoiled]_vars

(* The answer "administrator created" (bootstrap_db.py:149): the account of  *)
(* the apply that succeeded exists, alive, with the password it was given,   *)
(* if no two attempts ever ran side by side.                                 *)
AdministratorCanLogin ==
  \A r \in Reqs : par[r] = "ok" /\ ~crossed =>
    \E i \in Ids : Administers(i) /\ rows[i].name = name[r] /\ rows[i].pwd = r

(* All of this: a system is set up once, by its operator, and for good.      *)
SetupIsSafe == [](NoSeedLogin /\ WorkerFindsDatabase) /\ WizardStaysClosed
=============================================================================
