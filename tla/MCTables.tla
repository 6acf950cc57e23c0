------------------------------ MODULE MCTables ------------------------------
(* What web requests do to shared tables: accounts and groups, assets and    *)
(* the all-access rule, scheduled jobs, and the setup of an empty system.    *)
(* They are checked side by side; a behaviour is one of theirs, and the      *)
(* others do not move.                                                       *)
EXTENDS Accounts, TLC

CONSTANTS Titles, Hosts,                          \* AssetDirectory
          Callers, Unusable, None,                \* CronJob
          People, Seed, MaxCrashes                \* SetupWizard

VARIABLES part,
  live, dead, listed, host, nums_a, req_a, ops_a, crossed_a,
  row_c, job, lock, pc, seen, past,
  web, flag, runtime, sentinel, token, spoiled, worker, rows, seeded,
  par, child, name, saw, crossed_s, faults

AD == INSTANCE AssetDirectory WITH Names <- Titles, nums <- nums_a, req <- req_a,
                                   ops <- ops_a, crossed <- crossed_a
CR == INSTANCE CronJob WITH row <- row_c, Req <- Callers
SW == INSTANCE SetupWizard WITH Reqs <- Requests, Names <- People, crossed <- crossed_s

ASSUME TablesAssumption == AD!AssetsAssumption /\ CR!CronAssumption /\ SW!SetupAssumption

assets == <<live, dead, listed, host, nums_a, req_a, ops_a, crossed_a>>
cron   == <<row_c, job, lock, pc, seen, past>>
setup  == <<web, flag, runtime, sentinel, token, spoiled, worker, rows, seeded,
            par, child, name, saw, crossed_s, faults>>

In(p) == part = p

MCInit ==
  /\ part \in {"accounts", "assets", "cron", "setup"}
  /\ Init /\ AD!Init /\ CR!Init
  /\ SW!Init /\ (In("setup") \/ \A i \in SW!Ids : rows[i] = SW!NoRow)

MCNext ==
  /\ UNCHANGED part
  /\ \/ In("accounts") /\ Next    /\ UNCHANGED <<assets, cron, setup>>
     \/ In("assets")   /\ AD!Next /\ UNCHANGED <<vars, cron, setup>>
     \/ In("cron")     /\ CR!Next /\ UNCHANGED <<vars, assets, setup>>
     \/ In("setup")    /\ SW!Next /\ UNCHANGED <<vars, assets, cron>>

MCSpec == MCInit /\ [][MCNext]_<<part, vars, assets, cron, setup>>

\* Requests are interchangeable.
Symmetry == Permutations(Requests)

\* The invariants of the part that moves; the others are as Init left them.
AllTypesOK == /\ In("accounts") => TypeOK
              /\ In("assets")   => AD!TypeOK
              /\ In("cron")     => CR!TypeOK
              /\ In("setup")    => SW!TypeOK

DirectoryIsWhole == In("assets") => AD!DirectoryIsWhole
JobsFollowRows   == In("cron") => CR!JobsFollowRows
SetupIsSafe      == SW!SetupIsSafe
=============================================================================
