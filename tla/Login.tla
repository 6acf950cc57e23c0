------------------------------- MODULE Login -------------------------------
(***************************************************************************)
(* The counters, locks and codes in Redis around a login and around the    *)
(* reset of a forgotten password, for one account, one mail address and    *)
(* one client address: UserLogin2.login_dl and ForgotPwdReset.reset        *)
(* (src/backend/app/users/user.py) and verify_captcha                      *)
(* (src/backend/app/local/Captcha.py).                                     *)
(*                                                                         *)
(* The two handlers share no key, so a behaviour is of requests to one of  *)
(* them.  Every Redis command is a step, as other requests run between two;*)
(* INCR and the EXPIRE that follows it are one.  Whether a password is     *)
(* right is either, at every check.  Redis is external: keys expire.       *)
(***************************************************************************)
EXTENDS Naturals, FiniteSets

CONSTANTS Requests,    \* the requests in progress at once
          Ids,         \* captchas, and codes mailed
          WhoLimit,    \* login_fail_limit, for one account
          IpLimit,     \* login_fail_limit_ip, for one address
          ForgotLimit, \* 5 in _bump_forgot_fail, for both
          None,        \* no code
          MaxFaults    \* bound of the checks: failures of Redis

LoginAssumption ==
  /\ IsFiniteSet(Requests) /\ None \notin Ids
  /\ {WhoLimit, IpLimit, ForgotLimit} \subseteq Nat \ {0} /\ MaxFaults \in Nat

Flows == {"login", "forgot"}
Kinds == {"who", "ip"}
Limit(f, k) == IF f = "forgot" THEN ForgotLimit
               ELSE IF k = "who" THEN WhoLimit ELSE IpLimit

\* What follows a step when nothing goes wrong.  A login takes its captcha
\* before it looks at the locks, a reset looks at the locks before its code.
After(f, s) ==
  CASE s = "start"     -> IF f = "login" THEN "code" ELSE "ask_who"
    [] s = "code"      -> "drop"
    [] s = "drop"      -> IF f = "login" THEN "ask_who" ELSE "clear_who"
    [] s = "ask_who"   -> "ask_ip"
    [] s = "ask_ip"    -> IF f = "login" THEN "verify" ELSE "code"
    [] s = "verify"    -> "clear_who"
    [] s = "clear_who" -> "clear_ip"
    [] s = "clear_ip"  -> IF f = "login" THEN "idle" ELSE "commit"
    [] s = "count_ip"  -> IF f = "login" THEN "count_who" ELSE "idle"
    [] s = "count_who" -> IF f = "login" THEN "idle" ELSE "count_ip"
    [] s = "commit"    -> "idle"

\* the steps there are for each kind of key
AskOf   == [who |-> "ask_who", ip |-> "ask_ip"]
ClearOf == [who |-> "clear_who", ip |-> "clear_ip"]
CountOf == [who |-> "count_who", ip |-> "count_ip"]
LockOf  == [who |-> "lock_who",  ip |-> "lock_ip"]

\* _bump_login_fail counts the address first, _bump_forgot_fail the mail
Bump(f) == IF f = "login" THEN "count_ip" ELSE "count_who"

Steps == {"idle", "code", "drop", "ask_who", "ask_ip", "verify", "clear_who",
          "clear_ip", "count_ip", "count_who", "lock_ip", "lock_who", "commit"}

VARIABLES
  flow,    \* the handler
  at,      \* the next step of each request
  id,      \* the captcha or the code it carries
  known,   \* the name it carries is that of the account
  live,    \* Redis: the captchas and the mailed code that are valid
  fails,   \* Redis: login_fail, login_fail_ip, forgot_fail, forgot_fail_ip
  locks,   \* Redis: login_lock, login_lock_ip, forgot_lock, forgot_lock_ip
  spent,   \* the codes that served: an answer was accepted, a reset tried
  faults   \* failures so far

vars == <<flow, at, id, known, live, fails, locks, spent, faults>>
asked == <<flow, at, id, known>>
codes == <<live, spent>>

TypeOK ==
  /\ flow \in Flows /\ at \in [Requests -> Steps]
  /\ id \in [Requests -> Ids \cup {None}] /\ known \in [Requests -> BOOLEAN]
  /\ live \subseteq Ids /\ spent \subseteq Ids
  /\ fails \in [Kinds -> Nat] /\ locks \in [Kinds -> BOOLEAN]
  /\ faults \in 0..MaxFaults

Init ==
  /\ flow \in Flows /\ at = [r \in Requests |-> "idle"]
  /\ id = [r \in Requests |-> None] /\ known = [r \in Requests |-> TRUE]
  /\ live = {} /\ spent = {}
  /\ fails = [k \in Kinds |-> 0] /\ locks = [k \in Kinds |-> FALSE]
  /\ faults = 0

\* a request that is over carries nothing any more
Goto(r, s) ==
  /\ at'    = [at EXCEPT ![r] = s]
  /\ id'    = [id EXCEPT ![r] = IF s = "idle" THEN None ELSE @]
  /\ known' = [known EXCEPT ![r] = @ \/ s = "idle"]
  /\ UNCHANGED flow
Done(r) == Goto(r, After(flow, at[r]))
Refused(r) == Goto(r, "idle")

-----------------------------------------------------------------------------
(* Codes                                                                   *)

\* Codes are drawn at random: a new one is none that is valid or in use.
Unused == Ids \ (live \cup {id[r] : r \in Requests})

\* a captcha is one more; a mailed code takes the place of the one before
Issue ==
  /\ \E i \in Unused : /\ live' = (IF flow = "login" THEN live ELSE {}) \cup {i}
                       /\ spent' = spent \ {i}
  /\ UNCHANGED <<asked, fails, locks, faults>>

ExpireCode ==
  /\ \E i \in live : live' = live \ {i}
  /\ UNCHANGED <<asked, spent, fails, locks, faults>>

\* A login without its captcha is refused, a reset without its code counted.
ReadCode(r) ==
  /\ at[r] = "code"
  /\ \/ id[r] \in live /\ Done(r)
     \/ id[r] \notin live
        /\ Goto(r, IF flow = "login" THEN "idle" ELSE Bump("forgot"))
  /\ UNCHANGED <<codes, fails, locks, faults>>

\* The key of a captcha is its own, the key of a mailed code is that of the
\* address.  The captcha is compared once it is gone, whatever was answered.
DropCode(r) ==
  /\ at[r] = "drop"
  /\ live' = IF flow = "login" THEN live \ {id[r]} ELSE {}
  /\ \/ Done(r) /\ spent' = IF flow = "login" THEN spent \cup {id[r]} ELSE spent
     \/ flow = "login" /\ Refused(r) /\ UNCHANGED spent
  /\ UNCHANGED <<fails, locks, faults>>

-----------------------------------------------------------------------------
(* Requests                                                                *)

Begin(r) ==
  /\ at[r] = "idle"
  /\ \E i \in Ids, k \in BOOLEAN :
       /\ flow = "forgot" => k
       /\ id' = [id EXCEPT ![r] = i] /\ known' = [known EXCEPT ![r] = k]
  /\ at' = [at EXCEPT ![r] = After(flow, "start")]
  /\ UNCHANGED <<flow, codes, fails, locks, faults>>

\* the lock of another name is not the account's
Locked(r, kind) == locks[kind] /\ (kind = "who" => known[r])

CheckLock(r) ==
  /\ \E kind \in Kinds :
       /\ at[r] = AskOf[kind]
       /\ IF Locked(r, kind) THEN Refused(r) ELSE Done(r)
  /\ UNCHANGED <<codes, fails, locks, faults>>

\* The password is right or wrong; with an unknown name it is wrong.
Verify(r) ==
  /\ at[r] = "verify"
  /\ \/ known[r] /\ Done(r)
     \/ Goto(r, Bump("login"))
  /\ UNCHANGED <<codes, fails, locks, faults>>

\* what succeeded starts its counters anew, but lifts no lock
Clear(r) ==
  /\ \E kind \in Kinds :
       /\ at[r] = ClearOf[kind]
       /\ fails' = [fails EXCEPT ![kind] = 0]
  /\ Done(r)
  /\ UNCHANGED <<codes, locks, faults>>

\* the new password is written, or the commit fails and the code is gone
Commit(r) ==
  /\ at[r] = "commit" /\ Done(r)
  /\ spent' = spent \cup {id[r]}
  /\ UNCHANGED <<live, fails, locks, faults>>

-----------------------------------------------------------------------------
(* _bump_login_fail and _bump_forgot_fail                                  *)

PastLimit(n, k) == n > Limit(flow, k)  \* mutant: one failure more
AtLimit(n, k) == n >= Limit(flow, k)

\* the step after the counter of a kind; an unknown name has none of its own
Counted(r, kind) ==
  IF kind = "ip" /\ ~known[r] THEN "idle" ELSE After(flow, CountOf[kind])

Count(r) ==
  /\ \E kind \in Kinds :
       LET n == fails[kind] + 1 IN
       /\ at[r] = CountOf[kind]
       /\ fails' = [fails EXCEPT ![kind] = n]
       /\ Goto(r, IF AtLimit(n, kind) THEN LockOf[kind] ELSE Counted(r, kind))
  /\ UNCHANGED <<codes, locks, faults>>

Lock(r) ==
  /\ \E kind \in Kinds :
       /\ at[r] = LockOf[kind]
       /\ locks' = [locks EXCEPT ![kind] = TRUE]
       /\ Goto(r, Counted(r, kind))
  /\ UNCHANGED <<codes, fails, faults>>

\* Redis fails: while it counts that is swallowed, elsewhere it is an error of
\* the request; either way the request does nothing more.
Fault(r) ==
  /\ at[r] # "idle" /\ faults < MaxFaults
  /\ faults' = faults + 1 /\ Refused(r)
  /\ UNCHANGED <<codes, fails, locks>>

ExpireFails(k) ==
  /\ fails[k] > 0 /\ fails' = [fails EXCEPT ![k] = 0]
  /\ UNCHANGED <<asked, codes, locks, faults>>

\* A lock is set after its counter was given the same time to live, by every
\* failure that finds the counter at the limit: such a counter goes first.
ExpireLock(k) ==
  /\ locks[k] /\ fails[k] < Limit(flow, k)
  /\ locks' = [locks EXCEPT ![k] = FALSE]
  /\ UNCHANGED <<asked, codes, fails, faults>>

Step(r) == ReadCode(r) \/ DropCode(r) \/ CheckLock(r) \/ Verify(r) \/ Clear(r)
           \/ Commit(r) \/ Count(r) \/ Lock(r)

Next ==
  \/ \E r \in Requests : Begin(r) \/ Step(r) \/ Fault(r)
  \/ Issue \/ ExpireCode
  \/ \E k \in Kinds : ExpireFails(k) \/ ExpireLock(k)

Spec == Init /\ [][Next]_vars

-----------------------------------------------------------------------------

(* "deleted first, then returned, against replay" (Captcha.py:118), "Redis   *)
(* is cleared first, so that a failed commit leaves no code that can be used *)
(* again" (user.py:760): a code that was accepted is no longer valid, so     *)
(* only requests that read it before can still be served by it.              *)
CodesServeOnce == live \cap spent = {}

(* Failures lock: while Redis works, a counter that has reached its limit    *)
(* goes with a lock, or with a request that is about to set it, though       *)
(* counters are cleared by successes and expire in between                   *)
(* (user.py:387, 395, 726, 732).                                             *)
LockFollowsFails ==
  faults = 0 =>
    \A k \in Kinds : fails[k] >= Limit(flow, k) =>
      locks[k] \/ \E r \in Requests : at[r] = LockOf[k]

(* The lock is looked at before the password and set after it (user.py:286,  *)
(* 396): more tries than the limit get through one lock only as far as they  *)
(* were under way at once, or as Redis failed.                               *)
TriesAreBounded ==
  \A k \in Kinds : fails[k] <= Limit(flow, k) + (Cardinality(Requests) - 1) + faults

\* The three, as one statement about logins and resets.
LoginsAreCounted == CodesServeOnce /\ LockFollowsFails /\ TriesAreBounded
=============================================================================
