------------------------------ MODULE Accounts ------------------------------
(* User accounts: the rows of t_acc_user, the bindings of account names to   *)
(* authorisation rules (t_auth_host_user), the role that Redis caches under  *)
(* <name>_role, and the member counts of t_acc_group.  An account is edited  *)
(* by a request that checks, commits one transaction, then corrects Redis    *)
(* key by key and recounts the group: other requests run between any two of  *)
(* these steps.  src/backend/app/users/user.py, tools/auto_update.py; the    *)
(* edits of the rules, app/auth/AuthHost.py.                                 *)
(*                                                                           *)
(* Nothing but the unique key on the name orders two requests about the same *)
(* account.  "crossed" remembers the names two requests worked on at once,   *)
(* or one left half done: the properties are about the other names.          *)
EXTENDS Integers, Sequences, FiniteSets

CONSTANTS Requests,  \* requests the server may be working on at once
          Names,     \* account names
          Groups,    \* user groups
          MaxRows,   \* bound: account rows ever inserted
          MaxOps     \* bound: requests and edits of rules ever started

\* "none" stands for no name and no group.
ASSUME AccountsAssumption ==
  MaxRows \in Nat /\ MaxOps \in Nat /\ "none" \notin Names \cup Groups

VARIABLES row,      \* t_acc_user by id
          bound,    \* names bound to the all-access rule
          granted,  \* names bound to some other rule
          strays,   \* ghost: names bound while nobody had them, since then
          role,     \* Redis: the cached role of each name
          nums,     \* t_acc_group.nums
          req,      \* what each request is doing
          ops,      \* requests and edits started
          crossed   \* names whose requests overlapped or failed half way, or met an
            \* edit of their bindings, or whose deleted account was edited

vars == <<row, bound, granted, strays, role, nums, req, ops, crossed>>

Roles == {"admin", "user"}
Ids   == 1..MaxRows
NoRow == [st |-> "none", name |-> "none", role |-> "none", grp |-> "none"]
Rows  == [st: {"live", "deleted"}, name: Names, role: Roles, grp: Groups]
Idle  == [pc |-> "idle", kind |-> "none", id |-> 0, old |-> "none",
          new |-> "none", role |-> "none", grp |-> "none", was |-> FALSE,
          count |-> <<>>, seen |-> 0]

Init ==
  /\ row = [i \in Ids |-> NoRow]
  /\ bound = {} /\ granted = {} /\ strays = {}
  /\ role = [n \in Names |-> "none"]
  /\ nums = [g \in Groups |-> 0]
  /\ req = [p \in Requests |-> Idle]
  /\ ops = 0 /\ crossed = {}

Used(i)       == row[i].st # "none"
Holders(n)    == {i \in Ids : Used(i) /\ row[i].name = n}
LiveAs(n)     == {i \in Holders(n) : row[i].st = "live"}
Members(g)    == {i \in Ids : row[i].st = "live" /\ row[i].grp = g}
FreshIds      == {i \in Ids : row[i].st = "none"}
Touches(r)    == {r.old, r.new} \cap Names

(* The requests about the same account or name that r meets.                 *)
Meets(r) == {q \in Requests : /\ req[q].pc # "idle"
                              /\ \/ Touches(req[q]) \cap Touches(r) # {}
                                 \/ req[q].id = r.id /\ r.id # 0}

(* A request takes its place; the names it shares with another are crossed.  *)
Begin(p, r) ==
  LET met == UNION {Touches(req[q]) : q \in Meets(r)} IN
  /\ req[p].pc = "idle" /\ ops < MaxOps
  /\ req' = [req EXCEPT ![p] = r]
  /\ ops' = ops + 1
  /\ crossed' = IF \/ met # {} \/ Touches(r) \cap crossed # {}
                   \/ r.kind = "update" /\ row[r.id].st = "deleted"
                THEN crossed \cup met \cup Touches(r) ELSE crossed

At(p, pc)   == req[p].pc = pc
Goto(p, pc) == req' = [req EXCEPT ![p].pc = pc]
Finish(p)   == req' = [req EXCEPT ![p] = Idle]

(* ------------------------- the requests ---------------------------------- *)

(* AccUserAdd: any row with the name, deleted or not, refuses it.            *)
StartAdd(p, n, r, g) ==
  /\ Holders(n) = {}
  /\ Begin(p, [Idle EXCEPT !.pc = "commit", !.kind = "add", !.new = n,
                           !.role = r, !.grp = g])
  /\ UNCHANGED <<row, bound, granted, strays, role, nums>>

(* AccUserUpdate: found by id, so a deleted account can be edited too; a name *)
(* another row holds is refused; the old name and role are read here.        *)
StartUpdate(p, i, n, r, g) ==
  /\ Used(i)
  /\ Holders(n) \subseteq {i}
  /\ Begin(p, [Idle EXCEPT !.pc = "commit", !.kind = "update", !.id = i,
                           !.old = row[i].name, !.new = n, !.role = r, !.grp = g,
                           !.was = row[i].role = "admin"])
  /\ UNCHANGED <<row, bound, granted, strays, role, nums>>

StartDelete(p, n) ==
  \E i \in LiveAs(n) :
    /\ Begin(p, [Idle EXCEPT !.pc = "commit", !.kind = "delete", !.id = i,
                             !.old = n])
    /\ UNCHANGED <<row, bound, granted, strays, role, nums>>

(* UserLogin2: the row is read, the password is checked (slowly), and the    *)
(* role that was read is cached.                                             *)
StartLogin(p, n) ==
  \E i \in LiveAs(n) :
    /\ Begin(p, [Idle EXCEPT !.pc = "set", !.kind = "login", !.id = i,
                             !.new = n, !.role = row[i].role])
    /\ UNCHANGED <<row, bound, granted, strays, role, nums>>

(* -------------------- edits of the rules --------------------------------- *)

(* An account's transaction may have read the bindings and not yet written.  *)
Committing(p) == req[p].pc = "commit" /\ req[p].kind \in {"add", "update"}
Meeting(S) == UNION {Touches(req[p]) :
                       p \in {q \in Requests : Committing(q) /\ Touches(req[q]) \cap S # {}}}

(* AuthHostAdd, AuthHostUpdate: an administrator gives a rule its list of    *)
(* names; nothing asks whether anybody has them.                             *)
Changed(S) == (S \ granted) \cup (granted \ S)
EditRule(S) ==
  /\ ops < MaxOps /\ ops' = ops + 1
  /\ granted' = S
  /\ strays' = (strays \cap S) \cup {n \in S \ granted : Holders(n) = {}}
  /\ crossed' = crossed \cup Meeting(Changed(S))
  /\ UNCHANGED <<row, bound, role, nums, req>>

(* Only the new name of a rule is checked (266): under its old name the      *)
(* all-access rule can be renamed, and its bindings go.                      *)
RenameAllRights ==
  LET met == {p \in Requests : Committing(p) \/ Touches(req[p]) \cap bound # {}} IN
  /\ ops < MaxOps /\ ops' = ops + 1
  /\ bound' = {}
  /\ crossed' = crossed \cup bound \cup UNION {Touches(req[p]) : p \in met}
  /\ UNCHANGED <<row, granted, strays, role, nums, req>>

(* ----------------------- the transactions -------------------------------- *)

Renamed(S, old, new) == IF old \in S THEN (S \ {old}) \cup {new} ELSE S

(* Mutant: a former administrator keeps the binding.                         *)
SyncKeepsOld(r) ==
  LET moved == Renamed(bound, r.old, r.new) IN
  /\ bound' = IF r.role = "admin" THEN moved \cup {r.new} ELSE moved
  /\ granted' = Renamed(granted, r.old, r.new)

(* sync_user_permissions: bindings follow a rename (a duplicate is dropped); *)
(* an administrator is bound to the all-access rule, a former one is not.    *)
SyncPermissions(r) ==
  LET moved == Renamed(bound, r.old, r.new) IN
  /\ bound' = IF r.role = "admin" THEN moved \cup {r.new}
              ELSE IF r.was THEN moved \ {r.new} ELSE moved
  /\ granted' = Renamed(granted, r.old, r.new)

CommitAdd(p) ==
  LET r == req[p] IN
  /\ At(p, "commit") /\ r.kind = "add"
  /\ Holders(r.new) = {} /\ FreshIds # {}
  /\ LET i == CHOOSE k \in FreshIds : \A j \in FreshIds : k <= j IN
       /\ row' = [row EXCEPT ![i] = [st |-> "live", name |-> r.new,
                                     role |-> r.role, grp |-> r.grp]]
       /\ req' = [req EXCEPT ![p].pc = "set", ![p].id = i]
  /\ SyncPermissions(r) /\ strays' = strays \ {r.new}
  /\ UNCHANGED <<role, nums, ops, crossed>>

CommitUpdate(p) ==
  LET r == req[p] IN
  /\ At(p, "commit") /\ r.kind = "update"
  /\ Holders(r.new) \subseteq {r.id}
  /\ row' = [row EXCEPT ![r.id].name = r.new, ![r.id].role = r.role,
                        ![r.id].grp = r.grp]
  /\ SyncPermissions(r) /\ strays' = strays \ {r.new}
  /\ Goto(p, "set")
  /\ UNCHANGED <<role, nums, ops, crossed>>

CommitDelete(p) ==
  LET r == req[p] IN
  /\ At(p, "commit") /\ r.kind = "delete"
  /\ row' = [row EXCEPT ![r.id].st = "deleted"]
  /\ Goto(p, "drop")
  /\ UNCHANGED <<bound, granted, strays, role, nums, ops, crossed>>

(* The unique key on the name refuses the transaction: nothing is written.   *)
Refused(p) ==
  LET r == req[p] IN
  /\ At(p, "commit") /\ r.kind \in {"add", "update"}
  /\ \/ Holders(r.new) \ {r.id} # {}
     \/ r.kind = "add" /\ FreshIds = {}
  /\ Finish(p)
  /\ UNCHANGED <<row, bound, granted, strays, role, nums, ops, crossed>>

(* ----------------- Redis and the counts, afterwards ---------------------- *)

(* The role is cached under the new name; a login is then done.              *)
SetRole(p) ==
  LET r == req[p] IN
  /\ At(p, "set")
  /\ role' = [role EXCEPT ![r.new] = r.role]
  /\ CASE r.kind = "login" -> Finish(p)
       [] r.kind = "update" /\ r.old # r.new -> Goto(p, "drop")
       [] OTHER -> Goto(p, "count")
  /\ UNCHANGED <<row, bound, granted, strays, nums, ops, crossed>>

(* The keys of the name the account no longer has are deleted.               *)
DropRole(p) ==
  /\ At(p, "drop")
  /\ role' = [role EXCEPT ![req[p].old] = "none"]
  /\ Goto(p, "count")
  /\ UNCHANGED <<row, bound, granted, strays, nums, ops, crossed>>

(* Which groups to recount.  The row object was refreshed by the commit, so  *)
(* its group is the one the row has now: after a move, the new one.          *)
Recounts(r) ==
  LET now == row[r.id].grp IN
  IF r.kind = "update" /\ now # r.grp THEN <<now, r.grp>> ELSE <<now>>

PlanCount(p) ==
  /\ At(p, "count")
  /\ req' = [req EXCEPT ![p].pc = "read", ![p].count = Recounts(req[p])]
  /\ UNCHANGED <<row, bound, granted, strays, role, nums, ops, crossed>>

(* user_grp_count: one transaction counts, another writes.                   *)
CountMembers(p) ==
  /\ At(p, "read")
  /\ req' = [req EXCEPT ![p].pc = "write",
                        ![p].seen = Cardinality(Members(Head(req[p].count)))]
  /\ UNCHANGED <<row, bound, granted, strays, role, nums, ops, crossed>>

CountUp(p) ==   \* mutant: every request adds one to the number
  LET g == Head(req[p].count) IN
  /\ At(p, "write")
  /\ nums' = [nums EXCEPT ![g] = @ + 1]
  /\ Finish(p)
  /\ UNCHANGED <<row, bound, granted, strays, role, ops, crossed>>

WriteCount(p) ==
  LET c == req[p].count IN
  /\ At(p, "write")
  /\ nums' = [nums EXCEPT ![Head(c)] = req[p].seen]
  /\ IF Len(c) > 1
     THEN req' = [req EXCEPT ![p].pc = "read", ![p].count = Tail(c)]
     ELSE Finish(p)
  /\ UNCHANGED <<row, bound, granted, strays, role, ops, crossed>>

(* Redis does not answer, or the process stops: what is committed stays, the *)
(* rest of the request is not done.                                          *)
Break(p) ==
  /\ req[p].pc \in {"set", "drop"} /\ req[p].kind # "login"
  /\ crossed' = crossed \cup Touches(req[p])
  /\ Finish(p)
  /\ UNCHANGED <<row, bound, granted, strays, role, nums, ops>>

Next ==
  \/ \E p \in Requests :
       \/ \E n \in Names :
            \/ \E r \in Roles, g \in Groups :
                 \/ StartAdd(p, n, r, g)
                 \/ \E i \in Ids : StartUpdate(p, i, n, r, g)
            \/ StartDelete(p, n) \/ StartLogin(p, n)
       \/ CommitAdd(p) \/ CommitUpdate(p) \/ CommitDelete(p) \/ Refused(p)
       \/ SetRole(p) \/ DropRole(p) \/ PlanCount(p)
       \/ CountMembers(p) \/ WriteCount(p) \/ Break(p)
  \/ RenameAllRights \/ \E S \in SUBSET Names : EditRule(S)

Spec == Init /\ [][Next]_vars

(* ------------------------------ properties ------------------------------- *)

Pcs == {"idle", "commit", "set", "drop", "count", "read", "write"}

(* The types of the variables.                                               *)
TypeOK ==
  /\ row \in [Ids -> Rows \cup {NoRow}]
  /\ bound \subseteq Names /\ granted \subseteq Names /\ strays \subseteq Names
  /\ crossed \subseteq Names
  /\ role \in [Names -> Roles \cup {"none"}]
  /\ nums \in [Groups -> 0..MaxRows]
  /\ \A p \in Requests : /\ req[p].pc \in Pcs
                         /\ req[p].id \in Ids \cup {0}
                         /\ Touches(req[p]) = {req[p].old, req[p].new} \ {"none"}
  /\ ops \in 0..MaxOps

Settled(n) == n \notin crossed /\ \A p \in Requests : n \notin Touches(req[p])

(* "Keep direct permission bindings valid across account rename/setup": for  *)
(* every name no two requests worked on at once, a live administrator is     *)
(* bound to the all-access rule, a live account that is not one is not, and  *)
(* no rule names an account nobody has, but where an administrator wrote     *)
(* that name into it: renames and changes of role in any order never lose or *)
(* strand a binding.                                                         *)
BindingsFollow ==
  \A n \in Names \ crossed :
    /\ \A i \in LiveAs(n) : row[i].role = "admin" <=> n \in bound
    /\ Holders(n) = {} => n \notin bound /\ (n \in granted => n \in strays)

(* Once no request works on a name, the role Redis holds for it is the row's *)
(* (or nothing, before the first login), and a name without a live account   *)
(* has none: the keys are corrected one by one after the commit, for the old *)
(* name and the new, and an add may take over a name a rename has left.      *)
CacheFollowsRow ==
  \A n \in Names : Settled(n) =>
    /\ \A i \in LiveAs(n) : role[n] \in {"none", row[i].role}
    /\ LiveAs(n) = {} => role[n] = "none"

(* What auto_update.py says the recounts are for: at rest, and if the counts *)
(* of no two requests crossed, a group's number is its number of live        *)
(* accounts.  False: after an account is moved, the group it left is not     *)
(* recounted.                                                                *)
CountsFollow ==
  (\A p \in Requests : req[p].pc = "idle") =>
    \A g \in Groups : nums[g] = Cardinality(Members(g))

\* Both: what is kept of an account elsewhere agrees with its row.
AccountsAgree == BindingsFollow /\ CacheFollowsRow
=============================================================================
