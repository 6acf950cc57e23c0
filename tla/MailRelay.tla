----------------------------- MODULE MailRelay -----------------------------
(***************************************************************************)
(* Mail sent for one client address: the two counters in Redis that limit  *)
(* it (src/backend/app/mail/MailApi.py) and the SMTP session that connects,*)
(* sends and tries again (src/backend/app/tools/sendmail.py, SendMail).    *)
(*                                                                         *)
(* Every Redis command and every SMTP call is a step: requests of one      *)
(* address run at the same time.  Redis and the SMTP server are external.  *)
(***************************************************************************)
EXTENDS Naturals

CONSTANTS Requests,    \* the requests of one address
          MinLimit,    \* MAIL_RELAY_LIMIT_MIN
          HourLimit,   \* MAIL_RELAY_LIMIT_HOUR
          MaxRetries,  \* of _send_msg
          MaxFaults    \* bound of the checks: failures of Redis

MailAssumption == {MinLimit, HourLimit, MaxRetries, MaxFaults} \subseteq Nat

Windows == {"min", "hour"}
Max(w) == IF w = "min" THEN MinLimit ELSE HourLimit
After(w) == IF w = "min" THEN "hour" ELSE "connect"

VARIABLES
  at,      \* where each request is: a window, "connect", "send", "done"
  expire,  \* the request has yet to set the expiry of its window
  count,   \* Redis: the counter of each window, 0 when the key is gone
  ttl,     \* Redis: the key expires
  tries,   \* failed attempts of the send
  smtp,    \* the session: "none", "open", "dirty"
  refused, \* how often the server refused the message for good
  copies,  \* how often it accepted the message
  answer,  \* what the caller is told
  faults

vars == <<at, expire, count, ttl, tries, smtp, refused, copies, answer, faults>>
redis == <<count, ttl, faults>>
mail == <<tries, smtp, refused, copies>>

TypeOK ==
  /\ at \in [Requests -> Windows \cup {"connect", "send", "done"}]
  /\ expire \in [Requests -> BOOLEAN]
  /\ count \in [Windows -> Nat] /\ ttl \in [Windows -> BOOLEAN]
  /\ tries \in [Requests -> 0..MaxRetries]
  /\ smtp \in [Requests -> {"none", "open", "dirty"}]
  /\ refused \in [Requests -> Nat] /\ copies \in [Requests -> Nat]
  /\ answer \in [Requests -> {"none", "sent", "limited", "failed"}]
  /\ faults \in 0..MaxFaults

Init ==
  /\ at = [r \in Requests |-> "min"] /\ expire = [r \in Requests |-> FALSE]
  /\ count = [w \in Windows |-> 0] /\ ttl = [w \in Windows |-> FALSE]
  /\ tries = [r \in Requests |-> 0] /\ smtp = [r \in Requests |-> "none"]
  /\ refused = [r \in Requests |-> 0] /\ copies = [r \in Requests |-> 0]
  /\ answer = [r \in Requests |-> "none"] /\ faults = 0

Told(r, what) ==
  /\ at' = [at EXCEPT ![r] = "done"]
  /\ answer' = [answer EXCEPT ![r] = what]

-----------------------------------------------------------------------------
(* _mail_rate_limit                                                        *)

Counting(r) == at[r] \in Windows

\* INCR, and the verdict unless the window is new and its expiry comes first
Increment(r) ==
  /\ Counting(r) /\ ~expire[r]
  /\ LET w == at[r]  n == count[w] + 1 IN
     /\ count' = [count EXCEPT ![w] = n]
     /\ expire' = [expire EXCEPT ![r] = (n = 1)]
     /\ \/ n = 1 /\ UNCHANGED <<at, answer>>
        \/ n > 1 /\ n > Max(w) /\ Told(r, "limited")
        \/ n > 1 /\ n <= Max(w) /\ at' = [at EXCEPT ![r] = After(w)] /\ UNCHANGED answer
  /\ UNCHANGED <<ttl, faults, mail>>

\* EXPIRE, which does nothing when the key is gone
Expire(r) ==
  /\ Counting(r) /\ expire[r]
  /\ LET w == at[r] IN
     /\ ttl' = [ttl EXCEPT ![w] = count[w] > 0]
     /\ expire' = [expire EXCEPT ![r] = FALSE]
     /\ \/ Max(w) < 1 /\ Told(r, "limited")
        \/ Max(w) >= 1 /\ at' = [at EXCEPT ![r] = After(w)] /\ UNCHANGED answer
  /\ UNCHANGED <<count, faults, mail>>

\* A command that fails lets the request through; the key keeps what it has.
RedisFails(r) ==
  /\ Counting(r) /\ faults < MaxFaults
  /\ faults' = faults + 1
  /\ at' = [at EXCEPT ![r] = "connect"]
  /\ expire' = [expire EXCEPT ![r] = FALSE]
  /\ UNCHANGED <<count, ttl, mail, answer>>

WindowPasses ==
  /\ \E w \in Windows :
       /\ ttl[w]
       /\ ttl' = [ttl EXCEPT ![w] = FALSE]
       /\ count' = [count EXCEPT ![w] = 0]
  /\ UNCHANGED <<at, expire, mail, answer, faults>>

-----------------------------------------------------------------------------
(* SendMail                                                                *)

\* _get_or_create_smtp connects, upgrades and logs in.  It is called outside
\* of the handler of _send_msg: what fails here is not tried again.
Connect(r) ==
  /\ at[r] = "connect"
  /\ \/ /\ smtp' = [smtp EXCEPT ![r] = "open"]
        /\ at' = [at EXCEPT ![r] = "send"]
        /\ UNCHANGED answer
     \/ Told(r, "failed") /\ UNCHANGED smtp
  /\ UNCHANGED <<redis, expire, tries, refused, copies>>

Accepted(r) ==
  /\ at[r] = "send"
  /\ copies' = [copies EXCEPT ![r] = @ + 1]
  /\ Told(r, "sent")
  /\ UNCHANGED <<redis, expire, tries, smtp, refused>>

\* the session is closed and dropped before anything else happens with it
Dropped(r) == smtp' = [smtp EXCEPT ![r] = "none"]

OnAndOn(r) == at' = [at EXCEPT ![r] = "connect"] /\ UNCHANGED <<tries, answer>>   \* mutant
Again(r) ==
  IF tries[r] < MaxRetries
  THEN /\ tries' = [tries EXCEPT ![r] = @ + 1]
       /\ at' = [at EXCEPT ![r] = IF smtp'[r] = "none" THEN "connect" ELSE "send"]
       /\ UNCHANGED answer
  ELSE Told(r, "failed") /\ UNCHANGED tries

\* The connection breaks or a call times out, before the server took the
\* message or after it: only the server knows.
Broken(r) ==
  /\ at[r] = "send"
  /\ Dropped(r)
  /\ copies' \in {copies, [copies EXCEPT ![r] = @ + 1]}
  /\ Again(r)
  /\ UNCHANGED <<redis, expire, refused>>

\* the server refuses the sender, the recipient or the data
Refused(r) ==
  /\ at[r] = "send"
  /\ Dropped(r)
  /\ refused' = [refused EXCEPT ![r] = @ + 1]
  /\ Told(r, "failed")
  /\ UNCHANGED <<redis, expire, tries, copies>>

-----------------------------------------------------------------------------

Step(r) ==
  Increment(r) \/ Expire(r) \/ Connect(r) \/ Accepted(r) \/ Broken(r) \/ Refused(r)

Ended == (\A r \in Requests : at[r] = "done") /\ UNCHANGED vars

Next == Ended \/ WindowPasses \/ \E r \in Requests : Step(r) \/ RedisFails(r)

Spec == Init /\ [][Next]_vars

\* every call of Redis and of SMTP has a timeout, and keys that expire do
FairSpec ==
  Spec /\ WF_vars(WindowPasses) /\ \A r \in Requests : WF_vars(Step(r))

-----------------------------------------------------------------------------
(* Properties                                                              *)

\* The caller is told of a success exactly when the last attempt was accepted,
\* and then at most MaxRetries copies precede it (_send_msg).
SentMeansDelivered ==
  \A r \in Requests : /\ answer[r] = "sent" => copies[r] >= 1
                      /\ copies[r] <= MaxRetries + 1

\* A message the server refused for good is not offered again, although the
\* handler that retries catches its exception too (_send_msg).
RefusedOnce == \A r \in Requests : refused[r] <= 1

\* No attempt is made on a session that broke before (_send_msg).
FreshSession == \A r \in Requests : at[r] = "send" => smtp[r] = "open"

\* Every request is answered (_mail_rate_limit, _send_msg).
Settled == \A r \in Requests : at[r] = "done"
EveryoneAnswered == []<>Settled

\* What sendmail.py:230-234 says of connect errors: they are tried again.
ConnectRetried ==
  [][\A r \in Requests :
       (at[r] = "connect" /\ at'[r] = "done") => tries[r] = MaxRetries]_vars

\* What MailApi.py:19-25 says: a window ends, and Redis trouble lets mail pass.
LimitLifts == \A w \in Windows : count[w] > 0 ~> count[w] = 0

\* All of this: what the caller is told of his message is true.
MailIsTrue == SentMeansDelivered /\ RefusedOnce /\ FreshSession
=============================================================================
