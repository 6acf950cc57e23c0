------------------------------ MODULE MCRedis ------------------------------
(* What lives in Redis under keys that expire: the conversations of the chat*)
(* and the counters, locks and codes of the logins.  They share no key, so   *)
(* they are checked side by side; a behaviour is one of theirs.              *)
EXTENDS AgentChat, TLC

CONSTANTS Ids, WhoLimit, IpLimit, ForgotLimit, MaxFaults   \* Login

VARIABLES part, flow, at_l, id, known, live, fails, locks, spent, faults

LG == INSTANCE Login WITH Requests <- Req, at <- at_l

ASSUME RedisAssumption == LG!LoginAssumption

login == <<flow, at_l, id, known, live, fails, locks, spent, faults>>
all   == <<part, vars, login>>

In(p) == part = p

MCInit == part \in {"chat", "login"} /\ Init /\ LG!Init

MCNext ==
  /\ UNCHANGED part
  /\ \/ In("chat")  /\ Next    /\ UNCHANGED login
     \/ In("login") /\ LG!Next /\ UNCHANGED vars

MCSpec == MCInit /\ [][MCNext]_all

LoginsAreCounted == LG!LoginsAreCounted

Symmetry == Permutations(Req) \cup Permutations(Conv) \cup Permutations(Mode)
=============================================================================
