--------------------------- MODULE AssetDirectory ---------------------------
(* Asset groups, user groups, system users and hosts, and the rule "all      *)
(* access" that lists every group and system user by name.  After a change   *)
(* to one of these tables the request rebuilds the rule's list: it collects  *)
(* the live names, deletes the old list in a transaction of its own, inserts *)
(* the new one in another.  src/backend/app/assets/, users/group.py,         *)
(* tools/auto_update.py.                                                     *)
(*                                                                           *)
(* "crossed" remembers the tables whose rebuilds overlapped or broke off.    *)
EXTENDS Integers, Sequences, FiniteSets

CONSTANTS Requests,  \* requests the server may be working on at once
          Names,     \* names of groups and of system users
          Hosts,     \* host aliases
          MaxOps     \* bound: requests ever started

AssetsAssumption == IsFiniteSet(Names) /\ IsFiniteSet(Hosts)

VARIABLES live,     \* live rows of each table by name
          dead,     \* names a soft-deleted row still holds
          listed,   \* the rule's list for each table
          host,     \* t_host by alias
          nums,     \* t_group.nums
          req, ops, crossed

vars == <<live, dead, listed, host, nums, req, ops, crossed>>

Tables == {"host_group", "user_group", "sys_user"}
Keyed  == {"host_group", "user_group"}   \* the name is a unique key
NoHost == [st |-> "none", grp |-> "none"]
Idle   == [pc |-> "idle", op |-> "none", tab |-> "none", name |-> "none",
           to |-> "none", host |-> "none", names |-> {}, twice |-> FALSE,
           nums |-> 0, count |-> <<>>]

Init ==
  /\ live = [t \in Tables |-> [n \in Names |-> 0]]
  /\ dead = [t \in Tables |-> {}]
  /\ listed = [t \in Tables |-> {}]
  /\ host = [h \in Hosts |-> NoHost]
  /\ nums = [n \in Names |-> 0]
  /\ req = [p \in Requests |-> Idle]
  /\ ops = 0 /\ crossed = {}

LiveNames(t)  == {n \in Names : live[t][n] > 0}
Rows(t)       == LiveNames(t) \cup dead[t]
HostsIn(g)    == {h \in Hosts : host[h].st = "live" /\ host[h].grp = g}
EverIn(g)     == {h \in Hosts : host[h].st # "none" /\ host[h].grp = g}

Begin(p, r) ==
  LET met == {req[q].tab : q \in {q \in Requests : req[q].pc # "idle"}} IN
  /\ req[p].pc = "idle" /\ ops < MaxOps
  /\ req' = [req EXCEPT ![p] = r]
  /\ ops' = ops + 1
  /\ crossed' = IF r.tab \in Tables \cap met THEN crossed \cup {r.tab}
                ELSE crossed

At(p, pc)   == req[p].pc = pc
Goto(p, pc) == req' = [req EXCEPT ![p].pc = pc]
Finish(p)   == req' = [req EXCEPT ![p] = Idle]

(* --------------- groups and system users: the check ---------------------- *)

(* host_add of the three modules: no live row has the name.                  *)
StartAdd(p, t, n) ==
  /\ live[t][n] = 0
  /\ Begin(p, [Idle EXCEPT !.pc = "commit", !.op = "add", !.tab = t, !.name = n])
  /\ UNCHANGED <<live, dead, listed, host, nums>>

(* host_del: an asset group that still has hosts is refused.                 *)
StartDelete(p, t, n) ==
  /\ n \in LiveNames(t)
  /\ t = "host_group" => HostsIn(n) = {}
  /\ Begin(p, [Idle EXCEPT !.pc = "commit", !.op = "delete", !.tab = t, !.name = n])
  /\ UNCHANGED <<live, dead, listed, host, nums>>

(* update: the page sends back the number of hosts it was given.  The alias  *)
(* of a system user is not compared with the others'.                        *)
StartRename(p, t, n, m) ==
  /\ n \in LiveNames(t) /\ m # n
  /\ Begin(p, [Idle EXCEPT !.pc = "commit", !.op = "rename", !.tab = t,
                           !.name = n, !.to = m, !.nums = nums[n]])
  /\ UNCHANGED <<live, dead, listed, host, nums>>

(* --------------------------- the commit ---------------------------------- *)

(* AccGroupAdd is the one change that rebuilds no list.                      *)
AfterCommit(r) == IF r.tab = "user_group" /\ r.op = "add" THEN "done" ELSE "collect"

Taken(t, n) == t \in Keyed /\ n \in Rows(t)

CommitAdd(p) ==
  LET r == req[p] IN
  /\ At(p, "commit") /\ r.op = "add" /\ ~Taken(r.tab, r.name)
  /\ live[r.tab][r.name] < 2
  /\ live' = [live EXCEPT ![r.tab][r.name] = @ + 1]
  /\ nums' = IF r.tab = "host_group" THEN [nums EXCEPT ![r.name] = 0] ELSE nums
  /\ Goto(p, AfterCommit(r))
  /\ UNCHANGED <<dead, listed, host, ops, crossed>>

Kept(S, n) == S \cup {n}

CommitDelete(p) ==
  LET r == req[p] IN
  /\ At(p, "commit") /\ r.op = "delete" /\ r.name \in LiveNames(r.tab)
  /\ live' = [live EXCEPT ![r.tab][r.name] = @ - 1]
  /\ dead' = [dead EXCEPT ![r.tab] = Kept(@, r.name)]
  /\ Goto(p, "collect")
  /\ UNCHANGED <<listed, host, nums, ops, crossed>>

Moved(S, n, m) == IF n \in S THEN (S \ {n}) \cup {m} ELSE S

(* The foreign keys of hosts and of the rules' lists follow a group's name   *)
(* (ON UPDATE CASCADE); a system user's alias has no foreign key.            *)
CommitRename(p) ==
  LET r == req[p] IN
  /\ At(p, "commit") /\ r.op = "rename" /\ r.name \in LiveNames(r.tab)
  /\ ~Taken(r.tab, r.to) /\ live[r.tab][r.to] < 2
  /\ live' = [live EXCEPT ![r.tab][r.name] = @ - 1, ![r.tab][r.to] = @ + 1]
  /\ listed' = IF r.tab \in Keyed
               THEN [listed EXCEPT ![r.tab] = Moved(@, r.name, r.to)] ELSE listed
  /\ IF r.tab = "host_group"
     THEN /\ host' = [h \in Hosts |-> IF host[h].grp = r.name
                                      THEN [host[h] EXCEPT !.grp = r.to] ELSE host[h]]
          /\ nums' = [nums EXCEPT ![r.to] = r.nums, ![r.name] = 0]
     ELSE UNCHANGED <<host, nums>>
  /\ Goto(p, "collect")
  /\ UNCHANGED <<dead, ops, crossed>>

(* A unique key refuses, or the row has gone meanwhile: nothing is written.  *)
Refused(p) ==
  LET r == req[p] IN
  /\ At(p, "commit") /\ r.op \in {"add", "delete", "rename"}
  /\ \/ r.op = "add" /\ Taken(r.tab, r.name)
     \/ r.op = "rename" /\ Taken(r.tab, r.to)
     \/ r.op # "add" /\ r.name \notin LiveNames(r.tab)
  /\ Finish(p)
  /\ UNCHANGED <<live, dead, listed, host, nums, ops, crossed>>

(* ------------------- the rebuild of the rule's list ---------------------- *)

GatherRows(t) == Rows(t)   \* mutant: deleted rows are collected too
Gather(t) == LiveNames(t)

(* host_group_auth, sys_user_auth, acc_group_auth: the names are collected,  *)
Collect(p) ==
  LET t == req[p].tab IN
  /\ At(p, "collect")
  /\ req' = [req EXCEPT ![p].pc = "clear", ![p].names = Gather(t),
                        ![p].twice = \E n \in Names : live[t][n] > 1]
  /\ UNCHANGED <<live, dead, listed, host, nums, ops, crossed>>

(* osql_de deletes the old list and commits,                                 *)
Clear(p) ==
  /\ At(p, "clear")
  /\ listed' = [listed EXCEPT ![req[p].tab] = {}]
  /\ Goto(p, "fill")
  /\ UNCHANGED <<live, dead, host, nums, ops, crossed>>

(* and the names are inserted, unless another rebuild has inserted one, one  *)
(* occurs twice, or a group has been renamed meanwhile.                      *)
Fits(r) == /\ r.names \cap listed[r.tab] = {} /\ ~r.twice
           /\ r.tab \in Keyed => r.names \subseteq Rows(r.tab)

Fill(p) ==
  LET r == req[p] IN
  /\ At(p, "fill") /\ Fits(r)
  /\ listed' = [listed EXCEPT ![r.tab] = @ \cup r.names]
  /\ Goto(p, "done")
  /\ UNCHANGED <<live, dead, host, nums, ops, crossed>>

(* The insert is rolled back; the deletion is not.                           *)
FillFails(p) ==
  /\ At(p, "fill") /\ ~Fits(req[p])
  /\ Finish(p)
  /\ UNCHANGED <<live, dead, listed, host, nums, ops, crossed>>

(* The process stops between two of the transactions.                        *)
Break(p) ==
  /\ req[p].pc \in {"collect", "clear", "fill"}
  /\ crossed' = crossed \cup {req[p].tab}
  /\ Finish(p)
  /\ UNCHANGED <<live, dead, listed, host, nums, ops>>

Reply(p) ==
  /\ At(p, "done")
  /\ Finish(p)
  /\ UNCHANGED <<live, dead, listed, host, nums, ops, crossed>>

(* ------------------------------- hosts ----------------------------------- *)

(* ServerAdd, ServerUpdate: the form offers the live groups.                 *)
StartHost(p, op, h, g) ==
  /\ g \in LiveNames("host_group")
  /\ (op = "addHost") = (host[h].st # "live")
  /\ Begin(p, [Idle EXCEPT !.pc = "commit", !.op = op, !.host = h, !.to = g])
  /\ UNCHANGED <<live, dead, listed, host, nums>>

(* The row of a deleted host with the alias is used again; the group must    *)
(* have a row, which a deleted group still has.  The group to recount is the *)
(* row's after the commit, and the one that was asked for.                   *)
CommitHost(p) ==
  LET r == req[p] IN
  /\ At(p, "commit") /\ r.op \in {"addHost", "moveHost"}
  /\ r.to \in Rows("host_group")
  /\ r.op = "addHost" => host[r.host].st # "live"
  /\ host' = [host EXCEPT ![r.host].grp = r.to,
                          ![r.host].st = IF r.op = "addHost" THEN "live" ELSE @]
  /\ req' = [req EXCEPT ![p].pc = "count", ![p].count = <<r.to>>]
  /\ UNCHANGED <<live, dead, listed, nums, ops, crossed>>

HostRefused(p) ==
  LET r == req[p] IN
  /\ At(p, "commit") /\ r.op \in {"addHost", "moveHost"}
  /\ \/ r.to \notin Rows("host_group")
     \/ r.op = "addHost" /\ host[r.host].st = "live"
  /\ Finish(p)
  /\ UNCHANGED <<live, dead, listed, host, nums, ops, crossed>>

(* ServerDel: marked and committed; the group is recounted afterwards.       *)
DeleteHost(p, h) ==
  /\ host[h].st = "live"
  /\ Begin(p, [Idle EXCEPT !.pc = "count", !.op = "deleteHost", !.host = h,
                           !.count = <<host[h].grp>>])
  /\ host' = [host EXCEPT ![h].st = "deleted"]
  /\ UNCHANGED <<live, dead, listed, nums>>

(* DataSumAll recounts every group, with the rows of deleted hosts.          *)
StartSum(p, order) ==
  /\ order # <<>>
  /\ Begin(p, [Idle EXCEPT !.pc = "count", !.op = "sum", !.count = order])
  /\ UNCHANGED <<live, dead, listed, host, nums>>

Counted(r, g) == IF r.op = "sum" THEN Cardinality(EverIn(g)) ELSE Cardinality(HostsIn(g))

(* host_grp_count: counted in one transaction, written by name in another.   *)
CountHosts(p) ==
  /\ At(p, "count")
  /\ req' = [req EXCEPT ![p].pc = "write",
                        ![p].nums = Counted(req[p], Head(req[p].count))]
  /\ UNCHANGED <<live, dead, listed, host, nums, ops, crossed>>

WriteCount(p) ==
  LET g == Head(req[p].count) IN
  /\ At(p, "write")
  /\ nums' = IF g \in Rows("host_group") THEN [nums EXCEPT ![g] = req[p].nums] ELSE nums
  /\ IF Len(req[p].count) > 1
     THEN req' = [req EXCEPT ![p].pc = "count", ![p].count = Tail(@)]
     ELSE Finish(p)
  /\ UNCHANGED <<live, dead, listed, host, ops, crossed>>

Orders(S) == {s \in [1..Cardinality(S) -> S] : \A i, j \in DOMAIN s : s[i] = s[j] => i = j}

Next ==
  \E p \in Requests :
    \/ \E t \in Tables, n \in Names :
         \/ StartAdd(p, t, n) \/ StartDelete(p, t, n)
         \/ \E m \in Names : StartRename(p, t, n, m)
    \/ CommitAdd(p) \/ CommitDelete(p) \/ CommitRename(p) \/ Refused(p)
    \/ Collect(p) \/ Clear(p) \/ Fill(p) \/ FillFails(p) \/ Break(p) \/ Reply(p)
    \/ \E h \in Hosts :
         \/ \E op \in {"addHost", "moveHost"}, g \in Names : StartHost(p, op, h, g)
         \/ DeleteHost(p, h)
    \/ CommitHost(p) \/ HostRefused(p)
    \/ \E order \in Orders(Rows("host_group")) : StartSum(p, order)
    \/ CountHosts(p) \/ WriteCount(p)

Spec == Init /\ [][Next]_vars

(* ------------------------------ properties ------------------------------- *)

(* The types of the variables; a keyed name has at most one row.             *)
TypeOK ==
  /\ live \in [Tables -> [Names -> 0..2]]
  /\ \A t \in Tables : dead[t] \subseteq Names /\ listed[t] \subseteq Names
  /\ \A t \in Keyed, n \in Names : live[t][n] + (IF n \in dead[t] THEN 1 ELSE 0) <= 1
  /\ host \in [Hosts -> [st: {"none", "live", "deleted"}, grp: Names \cup {"none"}]]
  /\ nums \in [Names -> 0..Cardinality(Hosts)]

Quiet(t) == t \notin crossed /\ \A p \in Requests : req[p].tab # t

(* "Collect all asset group names and update the host_group list of all      *)
(* access" (auto_update.py:232, 252): whenever no request works on a table,  *)
(* none of its rebuilds overlapped another or broke off, and no alias was    *)
(* given twice, the rule lists exactly the live names: a deleted group is    *)
(* gone from it, a renamed one is in it under its new name, once.            *)
ListIsWhole ==
  \A t \in {"host_group", "sys_user"} :
    Quiet(t) /\ (\A n \in Names : live[t][n] <= 1)
             => listed[t] = LiveNames(t)

(* A host is always in a group that has a row: a group's name and the group  *)
(* of its hosts change in one transaction, whatever else is being added or   *)
(* moved meanwhile.                                                          *)
HostsHaveAGroup ==
  \A h \in Hosts : host[h].st = "live" => host[h].grp \in Rows("host_group")

(* What the check of ServerGroupDel is for ("a group with hosts is refused"):*)
(* no live host is in a deleted group.  False: a host is added between the   *)
(* check and the commit.                                                     *)
NoHostInDeletedGroup ==
  \A h \in Hosts : host[h].st = "live" => host[h].grp \in LiveNames("host_group")

\* Both: nothing is missing in the list, and no host hangs in the air.
DirectoryIsWhole == ListIsWhole /\ HostsHaveAGroup
=============================================================================
