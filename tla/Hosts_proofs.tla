---------------------------- MODULE Hosts_proofs ----------------------------
(* What the server does on hosts, for any number of jobs, hosts, bridges and *)
(* frames: remote commands, batch jobs, terminals and file transfers.        *)
(*                                                                           *)
(* RemoteCommand comes first, for every budget, window and length of output: *)
(* the truth of its answers, and that it implements CommandPromise, also     *)
(* where a lost transport looks like an exit.  Its inductive invariant Inv   *)
(* says where the exec request can be while the worker is at each point      *)
(* (Asked), what the processes on the host were before (Born), what the end  *)
(* of the shell and its status tell (Reaped), that nothing stirs a group     *)
(* found gone (Confirmed), what an answer stands on (Grounds), and that no   *)
(* chunk is lost while the transport is there, or counted twice (Counted).   *)
(* The parts after it have an invariant each.                                *)
EXTENDS MCHosts, Sequences, FiniteSetTheorems, TLAPS

Over == pc \in {"done", "dead"}

\* The request is sent once, by a worker that then has not answered.
Asked ==
  /\ pc \in {"probe", "connect", "open"} => sent = "no"
  /\ ans.term = "none" <=> pc # "done"
  /\ (pc = "done" /\ ~ans.started) => sent = "no"
  /\ pc \in {"probe", "connect"} => link = "none"
  /\ (sent # "no" \/ pc \in {"open", "exec", "drain", "check", "control", "final"})
       => link # "none"
  /\ eof => sent # "no" /\ (link = "down" \/ Over)

\* Processes start in the order guardian, handshake, command.
Born ==
  /\ sent # "arrived" => shell = "none"
  /\ shell = "none" => hand = "none"
  /\ shell \in {"none", "guard"} => guardian = "none" /\ hand = "none"
  /\ shell = "hand" => hand = "none"
  /\ shell \in {"none", "guard", "hand", "run"} => payload = "none" /\ child = "none"
  /\ shell = "wait" => payload # "none"

\* A shell that ended by itself ended after the command and its guardian, and the
\* status that comes to a worker still at work is of such a shell.
Reaped ==
  /\ (shell = "gone" /\ ~eof /\ stopper = "none") => payload = "gone"
  /\ (rc = TRUE /\ stopper = "none") => payload = "gone"
  /\ (pc = "final" /\ link = "up") => rc = TRUE
  /\ guardian = "sleep" => eof
  /\ stopper # "none" => hand = "read" /\ pc \in {"stopping", "done", "dead"}

\* The stop script found the group gone; nobody starts it again.
Confirmed == stopper = "ok" => shell = "gone" /\ GroupGone

Stops == Control \cup {"timed_out", "transport_error"}

\* What each answer stands on.
Grounds ==
  /\ (ans.term \in Stops /\ ans.started) => stopper = "ok" /\ ans.confirmed
  /\ (ans.term = "stop_unconfirmed") => ans.started /\ ~ans.confirmed
  /\ (ans.term = "exited") => ans.started
  /\ (ans.term = "exited" /\ ans.status = TRUE) => payload = "gone"
  /\ (ans.term = "exited" /\ link = "up") =>
       /\ payload = "gone"
       /\ wrote > kept => ans.told
  /\ pc \in {"stop", "stopping"} => reason \in Stops

\* Until the transport is lost, every chunk written is in the channel or seen; of
\* those seen the first are kept.
Counted == (link # "down" => wrote = seen + buf) /\ kept = AtMost(Budget, seen)

Inv == TypeOK /\ Asked /\ Born /\ Reaped /\ Confirmed /\ Grounds /\ Counted

LEMMA TypeInit == Init => TypeOK
<1> SUFFICES ASSUME Init PROVE TypeOK
  OBVIOUS
<1>1. kept \in 0..Budget /\ buf \in 0..Window
  BY RemoteAssumption DEF Init
<1>2. ans \in Answers
  BY DEF Init, NoAns, Answers
<1> QED
  BY <1>1, <1>2 DEF Init, TypeOK

\* An answer of the kinds there are is well typed.
LEMMA AnswerTyped ==
  ASSUME NEW term \in Stops \cup {"none", "exited", "stop_unconfirmed"},
         NEW started \in BOOLEAN, NEW confirmed \in BOOLEAN, rc \in BOOLEAN,
         Reply(term, started, confirmed)
  PROVE  pc' = "done" /\ ans' \in Answers
  BY DEF Reply, Stops, Answers

LEMMA NotStartedTyped ==
  ASSUME TypeOK, NEW term \in Stops, NotStarted(term)
  PROVE  /\ pc' = "done" /\ UNCHANGED <<seen, kept, reason, late>>
         /\ ans' \in Answers
  BY AnswerTyped DEF NotStarted, TypeOK

LEMMA UnconfirmedTyped ==
  ASSUME TypeOK, Unconfirmed
  PROVE  /\ pc' = "done" /\ UNCHANGED <<seen, kept, reason, late>>
         /\ ans' \in Answers
  BY AnswerTyped DEF Unconfirmed, TypeOK

LEMMA TypeNext == TypeOK /\ [Next]_vars => TypeOK'
<1> SUFFICES ASSUME TypeOK, [Next]_vars PROVE TypeOK'
  OBVIOUS
<1> USE RemoteAssumption DEF TypeOK, local, wire, procs
<1>1. CASE FirstProbe
  BY <1>1, NotStartedTyped DEF FirstProbe, Stops
<1>2. CASE Connect
  BY <1>2, NotStartedTyped DEF Connect, Stops
<1>3. CASE Exec
  BY <1>3, NotStartedTyped DEF Exec, Stops
<1>4. CASE ExecReturns
  BY <1>4 DEF ExecReturns, Lost
<1>5. CASE Drain
  BY <1>5 DEF Drain, DrainChannel, Reads, AtMost
<1>6. CASE Check
  BY <1>6 DEF Check, Ready
<1>7. CASE Exited
  <2>1. pc' = "done" /\ ans' \in Answers
    BY <1>7, AnswerTyped DEF Exited
  <2>2. seen' \in Nat /\ kept' \in 0..Budget /\ buf' \in 0..Window
    BY <1>7 DEF Exited, DrainChannel, Reads, AtMost
  <2> QED
    BY <1>7, <2>1, <2>2 DEF Exited, DrainChannel
<1>8. CASE ControlOrTime
  BY <1>8 DEF ControlOrTime
<1>9. CASE Stop
  BY <1>9, UnconfirmedTyped DEF Stop
<1>10. CASE Stopped
  <2>1. reason \in Stops \cup {"none", "exited", "stop_unconfirmed"}
    BY DEF Stops
  <2>2. CASE Reply(reason, TRUE, TRUE) /\ UNCHANGED <<seen, kept, reason, late>>
    <3>1. pc' = "done" /\ ans' \in Answers
      BY <2>1, <2>2, AnswerTyped
    <3> QED
      BY <1>10, <2>2, <3>1 DEF Stopped
  <2>3. CASE Unconfirmed
    BY <1>10, <2>3, UnconfirmedTyped DEF Stopped
  <2> QED
    BY <1>10, <2>2, <2>3 DEF Stopped
<1>11. CASE WorkerDies
  BY <1>11 DEF WorkerDies
<1>12. CASE TimeUp
  BY <1>12 DEF TimeUp
<1>13. CASE LinkDown
  BY <1>13 DEF LinkDown
<1>14. CASE Arrive
  BY <1>14 DEF Arrive
<1>15. CASE EndOfFile
  BY <1>15 DEF EndOfFile
<1>16. CASE StartGuardian
  BY <1>16 DEF StartGuardian
<1>17. CASE Handshake
  BY <1>17 DEF Handshake
<1>18. CASE StartPayload
  BY <1>18 DEF StartPayload
<1>19. CASE ShellExits
  BY <1>19 DEF ShellExits
<1>20. CASE Write
  BY <1>20 DEF Write
<1>21. CASE Fork
  BY <1>21 DEF Fork
<1>22. CASE PayloadExits
  BY <1>22 DEF PayloadExits
<1>23. CASE GuardianTerm
  BY <1>23 DEF GuardianTerm, Survives, Stirred
<1>24. CASE GuardianKill
  BY <1>24 DEF GuardianKill, KillGroup
<1>25. CASE StopTerm
  BY <1>25 DEF StopTerm, TermGroup, Survives
<1>26. CASE StopKill
  BY <1>26 DEF StopKill, KillGroup
<1>27. CASE StopCheck
  BY <1>27 DEF StopCheck, GroupGone
<1>28. CASE UNCHANGED vars
  BY <1>28 DEF vars
<1>29. CASE StatusComes
  BY <1>29 DEF StatusComes
<1> QED
  BY <1>1, <1>2, <1>3, <1>4, <1>5, <1>6, <1>7, <1>8, <1>9, <1>10, <1>11, <1>12, <1>13, <1>14, <1>15, <1>16, <1>17, <1>18, <1>19, <1>20, <1>21, <1>22, <1>23, <1>24, <1>25, <1>26, <1>27, <1>28, <1>29
     DEF Next, Worker, Host, Reaper, Script

LEMMA InvInit == Init => Inv
<1> SUFFICES ASSUME Init PROVE Inv
  OBVIOUS
<1>1. Asked /\ Born /\ Reaped /\ Confirmed
  BY DEF Init, NoAns, Asked, Over, Born, Reaped, Confirmed
<1>2. Grounds
  BY DEF Init, NoAns, Grounds, Stops, Control
<1>3. Counted
  BY RemoteAssumption DEF Init, Counted, AtMost
<1> QED
  BY <1>1, <1>2, <1>3, TypeInit DEF Inv

LEMMA InvNext == Inv /\ [Next]_vars => Inv'
<1> DEFINE J == Asked /\ Born /\ Reaped /\ Confirmed /\ Grounds /\ Counted
<1> SUFFICES ASSUME Inv, [Next]_vars PROVE J'
  BY TypeNext DEF Inv
<1> USE RemoteAssumption
    DEF Inv, TypeOK, Answers, Control, Stops, Asked, Over, Born, Reaped, Confirmed,
        Grounds, GroupGone,
        Counted, AtMost, local, wire, procs
<1>1. CASE FirstProbe
  BY <1>1 DEF FirstProbe, NotStarted, Reply
<1>2. CASE Connect
  <2>1. CASE NotStarted("transport_error") /\ UNCHANGED link
    <3>1. /\ pc' = "done" /\ ans'.term = "transport_error"
          /\ ~ans'.started /\ UNCHANGED <<seen, kept, reason>>
      BY <2>1 DEF NotStarted, Reply
    <3> QED
      BY <1>2, <2>1, <3>1 DEF Connect
  <2>2. CASE link' = "up" /\ pc' = "open" /\ UNCHANGED <<reason, late, ans, seen, kept>>
    BY <1>2, <2>2 DEF Connect
  <2> QED
    BY <1>2, <2>1, <2>2 DEF Connect
<1>3. CASE Exec
  BY <1>3 DEF Exec, NotStarted, Reply
<1>4. CASE ExecReturns
  BY <1>4 DEF ExecReturns, Lost
<1>5. CASE Drain
  BY <1>5 DEF Drain, DrainChannel, Reads
<1>6. CASE Check
  BY <1>6 DEF Check, Ready
<1>7. CASE Exited
  <2>1. CASE link = "up"
    <3>1. Counted' /\ (wrote' > kept' => seen' > kept')
      BY <1>7, <2>1 DEF Exited, DrainChannel, Reads
    <3> QED
      BY <1>7, <2>1, <3>1 DEF Exited, DrainChannel, Reply
  <2>2. CASE link # "up"
    BY <1>7, <2>2 DEF Exited, DrainChannel, Reads, Reply
  <2> QED
    BY <2>1, <2>2
<1>8. CASE ControlOrTime
  BY <1>8 DEF ControlOrTime
<1>9. CASE Stop
  BY <1>9 DEF Stop, Unconfirmed, Reply, Known
<1>10. CASE Stopped
  <2>1. CASE stopper = "ok" /\ UNCHANGED <<seen, kept, reason, late>> /\ Reply(reason, TRUE, TRUE)
    BY <1>10, <2>1 DEF Stopped, Reply
  <2>2. CASE Unconfirmed
    BY <1>10, <2>2 DEF Stopped, Unconfirmed, Reply
  <2> QED
    BY <1>10, <2>1, <2>2 DEF Stopped
<1>11. CASE WorkerDies
  BY <1>11 DEF WorkerDies
<1>12. CASE TimeUp
  BY <1>12 DEF TimeUp
<1>13. CASE LinkDown
  BY <1>13 DEF LinkDown
<1>14. CASE Arrive
  BY <1>14 DEF Arrive
<1>15. CASE EndOfFile
  BY <1>15 DEF EndOfFile
<1>16. CASE StartGuardian
  BY <1>16 DEF StartGuardian
<1>17. CASE Handshake
  BY <1>17 DEF Handshake
<1>18. CASE StartPayload
  BY <1>18 DEF StartPayload
<1>19. CASE ShellExits
  BY <1>19 DEF ShellExits
<1>20. CASE Write
  BY <1>20 DEF Write
<1>21. CASE Fork
  BY <1>21 DEF Fork
<1>22. CASE PayloadExits
  BY <1>22 DEF PayloadExits
<1>23. CASE GuardianTerm
  BY <1>23 DEF GuardianTerm, Survives, Stirred
<1>24. CASE GuardianKill
  BY <1>24 DEF GuardianKill, KillGroup
<1>25. CASE StopTerm
  BY <1>25 DEF StopTerm, TermGroup, Survives
<1>26. CASE StopKill
  BY <1>26 DEF StopKill, KillGroup
<1>27. CASE StopCheck
  BY <1>27 DEF StopCheck
<1>28. CASE UNCHANGED vars
  BY <1>28 DEF vars
<1>29. CASE StatusComes
  BY <1>29 DEF StatusComes
<1> QED
  BY <1>1, <1>2, <1>3, <1>4, <1>5, <1>6, <1>7, <1>8, <1>9, <1>10, <1>11, <1>12, <1>13, <1>14, <1>15, <1>16, <1>17, <1>18, <1>19, <1>20, <1>21, <1>22, <1>23, <1>24, <1>25, <1>26, <1>27, <1>28, <1>29
     DEF Next, Worker, Host, Reaper, Script

LEMMA InvHolds == Spec => []Inv
  BY InvInit, InvNext, PTL DEF Spec

\* In every reachable state the variables have their types: nothing is kept
\* beyond the output budget, and the channel never holds more than its window.
THEOREM TypesHold == Spec => []TypeOK
  BY InvHolds, PTL DEF Inv

\* An answer "stopped" is given of a process group that is gone, whatever the
\* stop script, the guardian and the network do, and output cut off by the
\* budget is told (run_ssh_command and _OutputCollector).
THEOREM AnswersHold == Spec => []AnswersAreTrue
<1>1. ASSUME Inv, ans.term \in Control \cup {"timed_out", "transport_error"},
             ans.started
      PROVE  GroupGone
  BY <1>1 DEF Inv, Grounds, Stops, Confirmed
<1>2. ASSUME Inv, ans.term = "exited", link = "up", wrote > kept
      PROVE  ans.told
  BY <1>2 DEF Inv, Grounds
<1>3. Inv => AnswersAreTrue
  BY <1>1, <1>2 DEF AnswersAreTrue, ConfirmedMeansGone, CutIsTold
<1> QED
  BY <1>3, InvHolds, PTL

\* What the answer makes final does not run and has not been left to start.
FinalIsOver ==
  /\ Answered = "refused" => payload = "none" /\ shell = "none"
  /\ Answered = "exited" => payload = "gone"
  /\ Answered = "stopped" => payload # "running" /\ shell = "gone"

LEMMA FinalMeansOver == Inv => FinalIsOver
<1> SUFFICES ASSUME Inv PROVE FinalIsOver
  OBVIOUS
<1> USE DEF Inv, TypeOK, Answers, Answered
<1>1. Answered = "refused" => shell = "none" /\ payload = "none"
  BY DEF Asked, Born
<1>2. Answered = "exited" => payload = "gone"
  BY DEF Grounds
<1>3. Answered = "stopped" => shell = "gone" /\ payload # "running"
  BY DEF Grounds, Stops, Confirmed, GroupGone
<1> QED
  BY <1>1, <1>2, <1>3 DEF FinalIsOver

\* An answer is given once, by a step that leaves the host alone.
LEMMA AnsweredOnce ==
  ASSUME Inv, [Next]_vars, ans' # ans
  PROVE  Answered = "none" /\ UNCHANGED <<payload, shell>>
<1>1. pc # "done" /\ UNCHANGED <<payload, shell>>
  BY DEF Inv, Asked, Next, Worker, Host, Reaper, Script, vars, local, procs,
         FirstProbe, Connect, Exec, ExecReturns, Lost, Drain, DrainChannel, Check,
         StatusComes, Exited, ControlOrTime, Stop, Stopped, WorkerDies, TimeUp, LinkDown, Arrive,
         EndOfFile, StartGuardian, Handshake, StartPayload, ShellExits, Write, Fork,
         PayloadExits, GuardianTerm, GuardianKill, StopTerm, StopKill, StopCheck
<1> QED
  BY <1>1 DEF Inv, Asked, Answered

\* The command starts once, from a shell that is there, and ends for good.
LEMMA PayloadSteps ==
  ASSUME TypeOK, Born, [Next]_vars, payload' # payload
  PROVE  \/ payload = "none" /\ payload' = "running" /\ shell = "run"
         \/ payload = "running" /\ payload' = "gone"
  BY DEF TypeOK, Born, Next, Worker, Host, Reaper, Script, vars, local, procs,
         FirstProbe, Connect, Exec, ExecReturns, Drain, Check, Exited, ControlOrTime,
         StatusComes, Stop, Stopped, WorkerDies, TimeUp, LinkDown, Arrive, EndOfFile,
         StartGuardian, Handshake, StartPayload, ShellExits, Write, Fork, PayloadExits,
         GuardianTerm, Survives, GuardianKill, KillGroup, StopTerm, TermGroup,
         StopKill, StopCheck

\* The runner implements CommandPromise: after an answer "not started", "exited"
\* with a status or "stopped" the command does not run and never will, wherever
\* the transport was lost; "exited" with code -1 is left open, as "unknown" is.
THEOREM PromiseHolds == Spec => KeepsPromise
<1>1. Init => Promise!Init
  BY DEF Init, NoAns, Promise!Init, Answered
<1>2. Inv /\ FinalIsOver /\ FinalIsOver' /\ [Next]_vars => [Promise!Next]_(Promise!vars)
  <2> SUFFICES ASSUME Inv, FinalIsOver, FinalIsOver', [Next]_vars
               PROVE  [Promise!Next]_(Promise!vars)
    OBVIOUS
  <2>1. CASE ans' # ans
    <3>1. Answered = "none" /\ UNCHANGED <<payload, shell>>
      BY <2>1, AnsweredOnce
    <3>2. Answered' \in {"none", "refused", "exited", "stopped", "unknown", "silent"}
      BY DEF Answered
    <3> QED
      BY <3>1, <3>2
         DEF FinalIsOver, Promise!Next, Promise!Answer, Promise!vars
  <2>2. CASE ans' = ans /\ payload' # payload
    <3>1. Answered' = Answered
      BY <2>2 DEF Answered
    <3>2. Answered \notin {"refused", "exited", "stopped"} \/ payload = "running"
      BY <2>2, PayloadSteps DEF Inv, FinalIsOver
    <3> QED
      BY <2>2, <3>1, <3>2, PayloadSteps
         DEF Inv, Promise!Next, Promise!Run, Promise!End, Promise!Final
  <2>3. CASE ans' = ans /\ payload' = payload
    BY <2>3 DEF Promise!vars, Answered
  <2> QED
    BY <2>1, <2>2, <2>3
<1>3. Inv => FinalIsOver
  BY FinalMeansOver
<1> QED
  BY <1>1, <1>2, <1>3, InvHolds, PTL DEF Spec, KeepsPromise, Promise!Spec

-----------------------------------------------------------------------------
(* The parts stand side by side.                                           *)

\* A step of the whole is, for each part, a step of that part or none.
LEMMA PartSteps ==
  ASSUME [MCNext]_all
  PROVE  /\ [FP!Next]_(FP!vars) /\ [BJ!Next]_(BJ!vars)
         /\ [WT!Next]_(WT!vars) /\ [FT!Next]_(FT!vars)
<1> USE DEF patch, batch, terminal, transfer, FP!vars, BJ!vars, WT!vars, WT!session, WT!browser,
            WT!ssh, FT!vars, FT!session, FT!host
<1>1. CASE Turn(Next, BJ!Next, WT!Next, FT!Next)
  <2>1. BJ!Next \/ UNCHANGED batch
    BY <1>1 DEF Turn
  <2>2. WT!Next \/ UNCHANGED terminal
    BY <1>1 DEF Turn
  <2>3. FT!Next \/ UNCHANGED transfer
    BY <1>1 DEF Turn
  <2>4. UNCHANGED patch
    BY <1>1 DEF Turn
  <2> QED
    BY <2>1, <2>2, <2>3, <2>4
<1>2. CASE FP!Next /\ UNCHANGED <<batch, terminal, transfer>>
  BY <1>2
<1>3. CASE UNCHANGED <<patch, batch, terminal, transfer>>
  BY <1>3
<1> QED
  BY <1>1, <1>2, <1>3 DEF MCNext, all

-----------------------------------------------------------------------------
(* The terminal.                                                           *)

\* Where the reader still serves its socket.
Serving == {"handshake", "renew", "creds", "admit", "connect", "refuse", "read", "send"}

\* The reader that forwarded a frame of a closed socket does not come back.
LateInv ==
  \/ late_t = 0
  \/ late_t = 1 /\ ws = "closed" /\ reader \notin Serving

LEMMA LateStep == LateInv /\ [WT!Next]_(WT!vars) => LateInv'
<1> SUFFICES ASSUME LateInv, [WT!Next]_(WT!vars) PROVE LateInv'
  OBVIOUS
<1> USE DEF LateInv, Serving
<1>1. CASE WT!EntryStep
  BY <1>1 DEF WT!EntryStep, WT!Handshake, WT!RenewAndWatch, WT!Credentials, WT!Admit,
     WT!Connect, WT!Refuse, WT!Verdicts
<1>2. ASSUME NEW g \in {"reader", "pump"}, WT!Close(g) PROVE LateInv'
  <2> USE DEF WT!Place, WT!Goes, WT!After
  <2>1. CASE WT!CloseBegins(g)
    BY <1>2, <2>1 DEF WT!CloseBegins
  <2>2. CASE WT!CloseChannel(g)
    BY <1>2, <2>2 DEF WT!CloseChannel
  <2>3. CASE WT!CloseTransport(g)
    BY <1>2, <2>3 DEF WT!CloseTransport
  <2>4. CASE WT!CloseSocket(g)
    BY <1>2, <2>4 DEF WT!CloseSocket
  <2> QED
    BY <1>2, <2>1, <2>2, <2>3, <2>4 DEF WT!Close
<1>3. CASE WT!ReaderForwards
  BY <1>3 DEF WT!ReaderForwards
<1>4. CASE WT!ReaderReceives \/ WT!ReaderStops \/ WT!ReaderReturns
  BY <1>4 DEF WT!ReaderReceives, WT!ReaderStops, WT!ReaderReturns
<1>5. CASE WT!PumpPolls \/ WT!PumpSends
  BY <1>5 DEF WT!PumpPolls, WT!PumpSends
<1>6. CASE WT!WatchStep
  BY <1>6 DEF WT!WatchStep, WT!WatchWakes, WT!WatchChecks, WT!WatchRenews
<1>7. CASE WT!Around \/ WT!Age \/ WT!IdlePasses \/ WT!RedisReturns
  BY <1>7 DEF WT!Around, WT!Logout, WT!OtherRequest, WT!RedisFails, WT!Types,
     WT!BrowserGoes, WT!HostEnds, WT!Age, WT!IdlePasses, WT!RedisReturns
<1>8. CASE UNCHANGED WT!vars
  BY <1>8 DEF WT!vars
<1> QED
  BY <1>1, <1>2, <1>3, <1>4, <1>5, <1>6, <1>7, <1>8
     DEF WT!Next, WT!ReaderStep, WT!PumpStep, WT!Over

\* However the greenlets of a terminal interleave, at most one frame of the browser
\* reaches the host after the socket was closed, the one the reader was blocked on
\* (webssh.py, _ws_session_renew_loop in at.py).
THEOREM LateInputs ==
  (WT!Spec => []WT!OneLateInput) /\ (MCSpec => []OneLateInput)
<1>1. WT!Init => LateInv
  BY DEF WT!Init, LateInv
<1>2. LateInv => WT!OneLateInput
  BY DEF LateInv, WT!OneLateInput
<1>3. WT!Spec => []WT!OneLateInput
  BY <1>1, <1>2, LateStep, PTL DEF WT!Spec
<1>4. MCInit => LateInv
  BY <1>1 DEF MCInit
<1>5. LateInv /\ [MCNext]_all => LateInv'
  BY PartSteps, LateStep
<1>6. LateInv => OneLateInput
  BY <1>2 DEF OneLateInput
<1>7. MCSpec => []OneLateInput
  BY <1>4, <1>5, <1>6, PTL DEF MCSpec
<1> QED
  BY <1>3, <1>7

-----------------------------------------------------------------------------
(* File transfers.                                                         *)

Handle == [f : Nat, off : Nat]
Paths  == Names \cup Elsewhere

FilesFit ==
  /\ len \in Seq(Nat) /\ dir \in [Paths -> 0 .. Len(len)]
  /\ \A f \in 1 .. Len(len) : len[f] <= Limit

\* A bridge has counted what it wrote through the handle it holds.
HeldBy(h, s) == h = FT!None \/ (h.f \in 1 .. Len(len) /\ h.off = s)
Counting(b)  == sent_f[b] <= Limit /\ HeldBy(file_f[b], sent_f[b])

TransferInv ==
  /\ sent_f \in [Bridges -> Nat] /\ file_f \in [Bridges -> Handle]
  /\ FilesFit /\ ~overtold
  /\ \A b \in Bridges : Counting(b)

LEMMA TransferStart == FT!Init => TransferInv
<1> SUFFICES ASSUME FT!Init PROVE TransferInv
  OBVIOUS
<1>1. len = <<>> /\ Len(len) = 0 /\ len \in Seq(Nat) /\ Limit \in Nat
  BY HostsAssumption DEF FT!Init, FT!TransferAssumption
<1> QED
  BY <1>1 DEF FT!Init, FT!None, FT!Paths, TransferInv, FilesFit, Handle, Paths, Counting,
              HeldBy

\* One bridge changes its handle and its count, and the files grow with it.
LEMMA OneCounts ==
  ASSUME TransferInv, NEW b \in Bridges, FilesFit', Len(len') >= Len(len),
         NEW s \in Nat, s <= Limit, sent_f' = [sent_f EXCEPT ![b] = s],
         NEW h \in Handle, file_f' = [file_f EXCEPT ![b] = h], HeldBy(h, s)',
         ~overtold'
  PROVE  TransferInv'
<1>1. sent_f' \in [Bridges -> Nat] /\ file_f' \in [Bridges -> Handle]
  BY DEF TransferInv
<1>2. Len(len) \in Nat /\ Len(len') \in Nat
  BY DEF TransferInv, FilesFit
<1>3. ASSUME NEW c \in Bridges PROVE Counting(c)'
  <2>1. CASE c = b
    BY <2>1 DEF TransferInv, Counting
  <2>2. CASE c # b
    <3>1. sent_f'[c] = sent_f[c] /\ file_f'[c] = file_f[c]
      BY <2>2 DEF TransferInv
    <3>2. sent_f[c] <= Limit /\ HeldBy(file_f[c], sent_f[c])
      BY DEF TransferInv, Counting
    <3>3. HeldBy(file_f[c], sent_f[c])'
      BY <1>2, <3>1, <3>2 DEF HeldBy, FT!None
    <3> QED
      BY <3>1, <3>2, <3>3 DEF Counting
  <2> QED
    BY <2>1, <2>2
<1> QED
  BY <1>1, <1>3 DEF TransferInv

\* A bridge whose handle is closed says no more than it wrote.
LEMMA FinishedTells ==
  ASSUME TransferInv, NEW b \in Bridges, file_f[b] # FT!None, FT!Finished(b)
  PROVE  ~overtold' /\ file_f' = [file_f EXCEPT ![b] = FT!None]
<1>1. sent_f[b] \in Nat /\ file_f[b].off = sent_f[b] /\ ~overtold
  BY DEF TransferInv, Counting, HeldBy
<1>2. ~(sent_f[b] > file_f[b].off)
  BY <1>1
<1>3. PICK ok \in BOOLEAN : overtold' = (overtold \/ (ok /\ sent_f[b] > file_f[b].off))
  BY DEF FT!Finished
<1>4. ~overtold'
  BY <1>1, <1>2, <1>3, Zenon
<1> QED
  BY <1>4 DEF FT!Finished

\* A chunk within the limit lands within it.
LEMMA WrittenFits ==
  ASSUME TransferInv, NEW b \in Bridges, file_f[b] # FT!None, NEW n \in Nat,
         FT!Fits(b, n), FT!Written(b, n), dir' = dir
  PROVE  FilesFit' /\ Len(len') = Len(len)
<1>1. /\ sent_f[b] \in Nat /\ file_f[b].off = sent_f[b] /\ file_f[b].f \in 1 .. Len(len)
      /\ len \in Seq(Nat) /\ Limit \in Nat /\ sent_f[b] + n <= Limit
      /\ \A f \in 1 .. Len(len) : len[f] \in Nat /\ len[f] <= Limit
  BY HostsAssumption
     DEF TransferInv, FilesFit, Counting, HeldBy, FT!TransferAssumption, FT!Fits
<1>2. PICK e, g, v : e = file_f[b].off + n /\ g = file_f[b].f
                    /\ v = IF len[g] > e THEN len[g] ELSE e
  OBVIOUS
<1>4. len' = [len EXCEPT ![g] = v]
  BY <1>2 DEF FT!Written
<1>5. v \in Nat /\ v <= Limit
  BY <1>1, <1>2
<1>3. /\ len' \in Seq(Nat) /\ Len(len') = Len(len)
      /\ \A f \in 1 .. Len(len') : len'[f] <= Limit
  BY <1>1, <1>2, <1>4, <1>5
<1> QED
  BY <1>3 DEF TransferInv, FilesFit

LEMMA TransferStep == TransferInv /\ [FT!Next]_(FT!vars) => TransferInv'
<1> SUFFICES ASSUME TransferInv, [FT!Next]_(FT!vars) PROVE TransferInv'
  OBVIOUS
<1> USE DEF FT!session, FT!host
<1>0. /\ len \in Seq(Nat) /\ Len(len) \in Nat /\ Limit \in Nat /\ ~overtold
      /\ Chunks \subseteq Nat /\ FT!None \in Handle /\ FilesFit
      /\ dir \in [Paths -> 0 .. Len(len)]
      /\ \A f \in 1 .. Len(len) : len[f] \in Nat /\ len[f] <= Limit
  BY HostsAssumption
     DEF FT!TransferAssumption, TransferInv, FilesFit, FT!None, Handle
<1>1. ASSUME UNCHANGED <<sent_f, file_f, len, overtold>>, dir' \in [Paths -> 0 .. Len(len)]
      PROVE  TransferInv'
  <2>1. \A b \in Bridges : Counting(b)' <=> Counting(b)
    BY <1>1 DEF Counting, HeldBy, FT!None
  <2>2. FilesFit'
    BY <1>1 DEF TransferInv, FilesFit
  <2> QED
    BY <1>1, <2>1, <2>2 DEF TransferInv
<1>2. ASSUME NEW b \in Bridges, FT!Goes(b) \/ FT!Asked(b) \/ FT!BrowserGoes(b)
      PROVE  TransferInv'
  <2>0. /\ sent_f[b] \in Nat /\ sent_f[b] <= Limit
        /\ sent_f = [sent_f EXCEPT ![b] = sent_f[b]]
    BY <1>0 DEF TransferInv, Counting
  <2>1. CASE \/ FT!Connect(b) \/ FT!BrowserGoes(b) \/ FT!UploadRefused(b)
             \/ FT!DownloadStat(b) \/ FT!DownloadOpen(b) \/ FT!DownloadRead(b)
             \/ FT!DownloadEnd(b)
    BY <1>0, <1>1, <2>1 DEF FT!Connect, FT!BrowserGoes, FT!UploadRefused, FT!DownloadStat,
       FT!DownloadOpen, FT!DownloadRead, FT!DownloadEnd
  <2>2. CASE FT!Remove(b) \/ FT!Rename(b)
    <3>1. ASSUME NEW n \in Paths, NEW m \in Paths,
                 \/ dir' = [dir EXCEPT ![n] = 0]
                 \/ dir' = [dir EXCEPT ![n] = 0, ![m] = dir[n]]
          PROVE  dir' \in [Paths -> 0 .. Len(len)]
      BY <1>0, <3>1
    <3> QED
      BY <1>1, <2>2, <3>1 DEF FT!Remove, FT!Rename, FT!Paths, Paths
  <2>3. CASE FT!Close(b)
    <3>1. UNCHANGED <<sent_f, len, dir, overtold>> /\ file_f' = [file_f EXCEPT ![b] = FT!None]
      BY <2>3 DEF FT!Close
    <3>2. FilesFit' /\ HeldBy(FT!None, sent_f[b])' /\ Len(len') >= Len(len) /\ ~overtold'
      BY <1>0, <3>1 DEF FilesFit, HeldBy, FT!None
    <3> QED
      BY <1>0, <2>0, <3>1, <3>2, OneCounts
  <2>4. CASE FT!UploadStart(b)
    <3>1. PICK name \in Names :
            LET new == dir[name] = 0
                f == IF new THEN Len(len) + 1 ELSE dir[name] IN
            /\ file_f' = [file_f EXCEPT ![b] = [f |-> f, off |-> 0]]
            /\ len' = IF new THEN Append(len, 0) ELSE [len EXCEPT ![f] = 0]
            /\ dir' = [dir EXCEPT ![name] = f]
      BY <2>4 DEF FT!UploadStart
    <3>2. sent_f' = [sent_f EXCEPT ![b] = 0] /\ overtold' = overtold
      BY <2>4 DEF FT!UploadStart, FT!ResetCount
    <3>3. dir[name] \in 0 .. Len(len) /\ name \in Paths
      BY <1>0 DEF Paths
    <3>4. CASE dir[name] = 0
      <4>1. /\ len' = Append(len, 0) /\ len' \in Seq(Nat) /\ Len(len') = Len(len) + 1
            /\ \A f \in 1 .. Len(len') : len'[f] <= Limit
        BY <1>0, <3>1, <3>4
      <4>2. dir' \in [Paths -> 0 .. Len(len')]
        BY <1>0, <3>1, <3>3, <3>4, <4>1
      <4>6. PICK h, s : h = [f |-> Len(len) + 1, off |-> 0] /\ s = 0
        OBVIOUS
      <4>3. h \in Handle /\ h.f \in 1 .. Len(len') /\ h.off = 0
        BY <1>0, <4>1, <4>6 DEF Handle
      <4>4. file_f' = [file_f EXCEPT ![b] = h]
        BY <3>1, <3>4, <4>6
      <4>7. s \in Nat /\ s <= Limit /\ sent_f' = [sent_f EXCEPT ![b] = s]
        BY <1>0, <3>2, <4>6
      <4>5. FilesFit' /\ HeldBy(h, s)' /\ Len(len') >= Len(len) /\ ~overtold'
        BY <1>0, <3>2, <4>1, <4>2, <4>3, <4>6 DEF FilesFit, HeldBy
      <4> QED
        BY <4>3, <4>4, <4>5, <4>7, OneCounts
    <3>5. CASE dir[name] # 0
      <4>1. /\ len' = [len EXCEPT ![dir[name]] = 0] /\ len' \in Seq(Nat)
            /\ Len(len') = Len(len)
            /\ \A f \in 1 .. Len(len') : len'[f] <= Limit
        BY <1>0, <3>1, <3>3, <3>5
      <4>2. dir' \in [Paths -> 0 .. Len(len')]
        BY <1>0, <3>1, <3>3, <3>5, <4>1
      <4>6. PICK h, s : h = [f |-> dir[name], off |-> 0] /\ s = 0
        OBVIOUS
      <4>3. h \in Handle /\ h.f \in 1 .. Len(len') /\ h.off = 0
        BY <1>0, <3>3, <3>5, <4>1, <4>6 DEF Handle
      <4>4. file_f' = [file_f EXCEPT ![b] = h]
        BY <3>1, <3>5, <4>6
      <4>7. s \in Nat /\ s <= Limit /\ sent_f' = [sent_f EXCEPT ![b] = s]
        BY <1>0, <3>2, <4>6
      <4>5. FilesFit' /\ HeldBy(h, s)' /\ Len(len') >= Len(len) /\ ~overtold'
        BY <1>0, <3>2, <4>1, <4>2, <4>3, <4>6 DEF FilesFit, HeldBy
      <4> QED
        BY <4>3, <4>4, <4>5, <4>7, OneCounts
    <3> QED
      BY <3>4, <3>5
  <2>5. CASE FT!UploadChunk(b)
    <3>1. PICK n \in Chunks :
            /\ FT!Fits(b, n)
            /\ \/ /\ FT!Written(b, n)
                  /\ file_f' = [file_f EXCEPT ![b].off = @ + n]
                  /\ sent_f' = [sent_f EXCEPT ![b] = @ + n]
                  /\ overtold' = overtold
               \/ /\ FT!Written(b, n) \/ UNCHANGED len
                  /\ FT!Finished(b)
                  /\ UNCHANGED sent_f
      BY <2>5 DEF FT!UploadChunk
    <3>2. /\ n \in Nat /\ file_f[b] # FT!None /\ dir' = dir
          /\ file_f[b] \in Handle /\ file_f[b].f \in 1 .. Len(len)
          /\ file_f[b].off = sent_f[b] /\ sent_f[b] + n <= Limit
      BY <1>0, <2>5, <3>1 DEF FT!UploadChunk, TransferInv, Counting, HeldBy, FT!Fits
    <3>3. FilesFit' /\ Len(len') = Len(len)
      <4>1. CASE FT!Written(b, n)
        BY <3>1, <3>2, <4>1, WrittenFits
      <4>2. CASE UNCHANGED len
        BY <1>0, <3>2, <4>2 DEF FilesFit
      <4> QED
        BY <3>1, <4>1, <4>2
    <3>4. CASE FT!Finished(b) /\ UNCHANGED sent_f
      <4>1. ~overtold' /\ file_f' = [file_f EXCEPT ![b] = FT!None]
        BY <3>2, <3>4, FinishedTells
      <4>2. HeldBy(FT!None, sent_f[b])' /\ Len(len') >= Len(len) /\ sent_f' = [sent_f EXCEPT ![b] = sent_f[b]]
        BY <1>0, <2>0, <3>3, <3>4 DEF HeldBy, FT!None
      <4> QED
        BY <1>0, <2>0, <3>3, <4>1, <4>2, OneCounts
    <3>5. CASE /\ file_f' = [file_f EXCEPT ![b].off = @ + n]
               /\ sent_f' = [sent_f EXCEPT ![b] = @ + n]
               /\ overtold' = overtold
      <4>5. PICK h, s : h = [f |-> file_f[b].f, off |-> file_f[b].off + n] /\ s = sent_f[b] + n
        OBVIOUS
      <4>1. /\ h \in Handle /\ h.f \in 1 .. Len(len') /\ h.off = s
            /\ s \in Nat /\ s <= Limit
        BY <1>0, <2>0, <3>2, <3>3, <4>5 DEF Handle
      <4>2. sent_f' = [sent_f EXCEPT ![b] = s]
        BY <3>5, <4>5
      <4>3. file_f' = [file_f EXCEPT ![b] = h]
        <5>1. [file_f[b] EXCEPT !.off = @ + n] = h
          BY <3>2, <4>5 DEF Handle
        <5> QED
          BY <3>5, <5>1
      <4>4. HeldBy(h, s)' /\ Len(len') >= Len(len) /\ ~overtold'
        BY <1>0, <3>3, <3>5, <4>1 DEF HeldBy
      <4> QED
        BY <3>3, <4>1, <4>2, <4>3, <4>4, OneCounts
    <3> QED
      BY <3>1, <3>4, <3>5
  <2>6. CASE FT!UploadEnd(b)
    <3>1. /\ file_f[b] # FT!None /\ FT!Finished(b) /\ UNCHANGED <<sent_f, len, dir>>
      BY <2>6 DEF FT!UploadEnd
    <3> QED
      <4>1. ~overtold' /\ file_f' = [file_f EXCEPT ![b] = FT!None]
        BY <3>1, FinishedTells
      <4>2. HeldBy(FT!None, sent_f[b])' /\ Len(len') >= Len(len) /\ FilesFit'
        BY <1>0, <2>0, <3>1 DEF HeldBy, FilesFit, FT!None
      <4> QED
        BY <1>0, <2>0, <3>1, <4>1, <4>2, OneCounts
  <2> QED
    BY <1>2, <2>1, <2>2, <2>3, <2>4, <2>5, <2>6 DEF FT!Goes, FT!Asked
<1>3. CASE UNCHANGED FT!vars
  BY <1>0, <1>1, <1>3 DEF FT!vars
<1> QED
  BY <1>2, <1>3 DEF FT!Next, FT!Ended

\* However many bridges write one file and however often each starts again, no
\* file grows past SFTP_MAX_UPLOAD_SIZE, and no row tells of a success with more
\* than was written through its handle (sftp.py, _handle_upload_chunk).
THEOREM LimitsHold ==
  (FT!Spec => []FT!UploadsKeepLimits) /\ (MCSpec => []UploadsKeepLimits)
<1>1. TransferInv => FT!UploadsKeepLimits
  BY DEF TransferInv, FilesFit, FT!UploadsKeepLimits, FT!NoFileOverLimit, FT!Files,
     FT!SizeToldIsWritten
<1>2. FT!Spec => []FT!UploadsKeepLimits
  BY <1>1, TransferStart, TransferStep, PTL DEF FT!Spec
<1>3. MCInit => TransferInv
  BY TransferStart DEF MCInit
<1>4. TransferInv /\ [MCNext]_all => TransferInv'
  BY PartSteps, TransferStep
<1>5. TransferInv => UploadsKeepLimits
  BY <1>1 DEF UploadsKeepLimits
<1>6. MCSpec => []UploadsKeepLimits
  BY <1>3, <1>4, <1>5, PTL DEF MCSpec
<1> QED
  BY <1>2, <1>6

-----------------------------------------------------------------------------
(* Batch jobs.                                                             *)

\* A job has said nothing yet of the host it is with; it has a file there.
Before == {"connect", "put", "write", "exec", "read1", "recv1", "read2", "recv2", "status"}
Filed  == (Before \ {"connect", "put"}) \cup {"clean"}

\* The hosts of which a job has said something, and those whose rows it tried.
Spoken(j) == CASE pc_b[j] \in Before            -> 1 .. host[j] - 1
               [] pc_b[j] \in {"clean", "close"} -> 1 .. host[j]
               [] pc_b[j] \in {"audit", "done"}  -> 1 .. job[j].n
Noted(j)  == CASE pc_b[j] = "audit" -> 1 .. host[j] - 1
               [] pc_b[j] = "done"  -> 1 .. job[j].n
               [] OTHER             -> {}

Works(j) ==
  /\ job[j].kind = "none" => pc_b[j] = "done"
  /\ host[j] \in 1 .. job[j].n
  /\ pc_b[j] \in {"put", "write"} => job[j].kind \in {"script", "upload"}

Tells(j) ==
  job[j].kind # "none" =>
    /\ \A h \in Hosts : item[j][h] # "none" <=> h \in Spoken(j)
    /\ \A h \in Noted(j) : h \in unwritten[j] \/ row[j][h] = item[j][h]

MeansZero(j) ==
  \A h \in Hosts :
    (item[j][h] = "success" /\ job[j].kind # "upload") => proc[j][h].exit = "zero"

\* The script of a job: only it interprets the file, which is there whole when it
\* does, and gone when it goes on to the next host, but for a lost connection.
Scripts(j) ==
  /\ \A h \in Hosts : ran[j][h] \in {j, "none"}
  /\ job[j].kind = "script" =>
       /\ pc_b[j] = "exec" => file_b[host[j]][j] = j
       /\ \A h \in Hosts : \/ file_b[h][j] = "none"
                           \/ h \in lost[j]
                           \/ h = host[j] /\ pc_b[j] \in Filed
       /\ pc_b[j] \in Filed \cup {"put"} => link_b[j] \/ host[j] \in lost[j]

JobTrue(j) == Works(j) /\ Tells(j) /\ MeansZero(j) /\ Scripts(j)
BatchInv   == BJ!TypeOK /\ \A j \in Jobs : JobTrue(j)

LEMMA BatchConstants ==
  /\ \A n \in Hosts : n \in Nat \ {0} /\ 1 .. n \subseteq Hosts
  /\ Name \notin Jobs /\ BJ!Paths = Jobs \cup {Name}
  /\ BJ!TypeOK => \A j \in Jobs : /\ job[j].n \in Hosts /\ job[j].kind \in BJ!Kinds
<1>1. OneOrTwo \subseteq [Jobs -> [kind : BJ!Kinds, n : Hosts, habits : SUBSET BJ!Habits]]
  BY HostsAssumption DEF BJ!BatchAssumption
<1>2. BJ!TypeOK => \A j \in Jobs : job[j] \in [kind : BJ!Kinds, n : Hosts, habits : SUBSET BJ!Habits]
  BY <1>1 DEF BJ!TypeOK
<1> QED
  BY <1>2, HostsAssumption DEF BJ!BatchAssumption, BJ!Paths

LEMMA BatchStart == BJ!Init => BatchInv
<1> SUFFICES ASSUME BJ!Init PROVE BatchInv
  OBVIOUS
<1>1. \A j \in Jobs : job[j].n \in Hosts /\ job[j].kind \in BJ!Kinds
  <2>1. OneOrTwo \subseteq [Jobs -> [kind : BJ!Kinds, n : Hosts, habits : SUBSET BJ!Habits]]
    BY HostsAssumption DEF BJ!BatchAssumption
  <2>2. job \in [Jobs -> [kind : BJ!Kinds, n : Hosts, habits : SUBSET BJ!Habits]]
    BY <2>1 DEF BJ!Init
  <2> QED
    BY <2>2
<1>2. \A j \in Jobs : 1 \in Hosts /\ 1 \in 1 .. job[j].n
  BY <1>1, BatchConstants
<1>3. BJ!TypeOK
  <2>1. BJ!NoProc \in BJ!Procs
    BY DEF BJ!NoProc, BJ!Procs
  <2> QED
    BY <1>2, <2>1 DEF BJ!Init, BJ!TypeOK, BJ!Places, BJ!Outcomes, BJ!Contents
<1>4. ASSUME NEW j \in Jobs PROVE JobTrue(j)
  <2>1. /\ pc_b[j] = IF job[j].kind = "none" THEN "done" ELSE "connect"
        /\ host[j] = 1
        /\ \A h \in Hosts : /\ item[j][h] = "none" /\ ran[j][h] = "none"
                            /\ file_b[h][j] = "none"
    BY DEF BJ!Init, BJ!Paths
  <2>2. Works(j) /\ MeansZero(j) /\ Scripts(j)
    BY <1>2, <2>1 DEF Works, MeansZero, Scripts, Filed
  <2>3. Tells(j)
    BY <2>1 DEF Tells, Spoken, Noted, Before
  <2> QED
    BY <2>2, <2>3 DEF JobTrue
<1> QED
  BY <1>3, <1>4 DEF BatchInv

\* A change at one place of a table.
LEMMA OneCell ==
  ASSUME NEW A, NEW B, NEW S, NEW f \in [A -> [B -> S]], NEW a \in A, NEW b \in B,
         NEW v \in S, NEW g, g = [f EXCEPT ![a][b] = v]
  PROVE  /\ g \in [A -> [B -> S]] /\ g[a][b] = v
         /\ \A c \in A, d \in B : (c # a \/ d # b) => g[c][d] = f[c][d]
         /\ \A c \in A : c # a => g[c] = f[c]
  OBVIOUS

\* A step of one job leaves the others alone: they have files of other names.
Apart(j) ==
  /\ job' = job
  /\ \A k \in Jobs \ {j} :
       /\ pc_b'[k] = pc_b[k] /\ host'[k] = host[k] /\ link_b'[k] = link_b[k]
       /\ item'[k] = item[k] /\ row'[k] = row[k] /\ unwritten'[k] = unwritten[k]
       /\ lost'[k] = lost[k] /\ proc'[k] = proc[k] /\ ran'[k] = ran[k]
       /\ \A h \in Hosts : file_b'[h][k] = file_b[h][k]

LEMMA OneJob ==
  ASSUME BatchInv, NEW j \in Jobs, BJ!TypeOK', Apart(j), JobTrue(j)'
  PROVE  BatchInv'
<1>1. ASSUME NEW k \in Jobs \ {j} PROVE JobTrue(k)'
  <2>1. JobTrue(k)
    BY DEF BatchInv
  <2>2. Spoken(k)' = Spoken(k) /\ Noted(k)' = Noted(k)
    BY DEF Apart, Spoken, Noted
  <2>3. host[k] \in Hosts
    BY DEF BatchInv, BJ!TypeOK
  <2> QED
    BY <2>1, <2>2, <2>3 DEF Apart, JobTrue, Works, Tells, MeansZero, Scripts
<1> QED
  BY <1>1 DEF BatchInv

\* The types, one by one.
LEMMA BatchFacts ==
  ASSUME BatchInv, NEW j \in Jobs
  PROVE  /\ job \in OneOrTwo /\ pc_b \in [Jobs -> BJ!Places]
         /\ host \in [Jobs -> Hosts] /\ link_b \in [Jobs -> BOOLEAN]
         /\ late_b \in [Jobs -> BOOLEAN]
         /\ item \in [Jobs -> [Hosts -> BJ!Outcomes]]
         /\ row \in [Jobs -> [Hosts -> BJ!Outcomes]]
         /\ unwritten \in [Jobs -> SUBSET Hosts] /\ lost \in [Jobs -> SUBSET Hosts]
         /\ proc \in [Jobs -> [Hosts -> BJ!Procs]]
         /\ ran \in [Jobs -> [Hosts -> BJ!Contents]]
         /\ file_b \in [Hosts -> [BJ!Paths -> BJ!Contents]]
         /\ host[j] \in Hosts /\ Works(j) /\ Tells(j) /\ MeansZero(j) /\ Scripts(j)
         /\ job[j].kind \in BJ!Kinds /\ job[j].n \in Nat \ {0}
         /\ 1 .. job[j].n \subseteq Hosts /\ Hosts \subseteq Nat \ {0}
         /\ j # Name /\ j \in BJ!Paths /\ Name \in BJ!Paths
         /\ BJ!remote_path(j) \in {j, Name}
         /\ job[j].kind = "script" => BJ!remote_path(j) = j
  BY BatchConstants DEF BatchInv, BJ!TypeOK, JobTrue, BJ!remote_path

\* A job does something on its host and says nothing of it yet.
LEMMA Proceeds ==
  ASSUME BatchInv, NEW j \in Jobs, pc_b[j] \in Before, NEW l \in Before,
         pc_b' = [pc_b EXCEPT ![j] = l],
         BJ!TypeOK', Apart(j), UNCHANGED <<job, host, item, row, unwritten>>,
         l \in {"put", "write"} => job[j].kind \in {"script", "upload"},
         MeansZero(j)', Scripts(j)'
  PROVE  BatchInv'
<1>1. pc_b'[j] = l /\ Works(j) /\ Tells(j)
  BY BatchFacts
<1>2. Spoken(j)' = Spoken(j) /\ Noted(j)' = Noted(j)
  BY <1>1 DEF Spoken, Noted, Before
<1>3. Works(j)' /\ Tells(j)'
  BY <1>1, <1>2 DEF Works, Tells, Before
<1> QED
  BY <1>3, OneJob DEF JobTrue

\* It says what became of the host, and goes on to its end there.
LEMMA Ends ==
  ASSUME BatchInv, NEW j \in Jobs, pc_b[j] \in Before \ {"connect"}, NEW o \in {"success", "failed"},
         BJ!Result(j, o), UNCHANGED <<job, host, row, unwritten, link_b, late_b, lost, proc, ran>>,
         file_b' \in [Hosts -> [BJ!Paths -> BJ!Contents]],
         \A k \in Jobs \ {j} : \A h \in Hosts : file_b'[h][k] = file_b[h][k],
         \A h \in Hosts : h = host[j] \/ file_b'[h][j] = file_b[h][j],
         pc_b[j] = "put" => file_b' = file_b,
         (o = "success" /\ job[j].kind # "upload") => proc[j][host[j]].exit = "zero"
  PROVE  BatchInv'
<1>1. PICK l : /\ pc_b' = [pc_b EXCEPT ![j] = l]
               /\ item' = [item EXCEPT ![j][host[j]] = o]
               /\ l \in {"clean", "close"} /\ (job[j].kind = "script" => l = "clean")
  BY DEF BJ!Result, BJ!Say, BJ!Goto, BJ!AfterRun
<1>2. /\ item' \in [Jobs -> [Hosts -> BJ!Outcomes]] /\ item'[j][host[j]] = o
      /\ \A h \in Hosts : h # host[j] => item'[j][h] = item[j][h]
      /\ \A k \in Jobs : k # j => item'[k] = item[k]
  <2>1. o \in BJ!Outcomes
    BY DEF BJ!Outcomes
  <2>2. item \in [Jobs -> [Hosts -> BJ!Outcomes]] /\ host[j] \in Hosts
    BY BatchFacts
  <2>3. item' = [item EXCEPT ![j][host[j]] = o]
    BY <1>1
  <2> QED
    BY <2>1, <2>2, <2>3, OneCell
<1>3. pc_b' \in [Jobs -> BJ!Places] /\ pc_b'[j] = l /\ \A k \in Jobs \ {j} : pc_b'[k] = pc_b[k]
  BY <1>1, BatchFacts DEF BJ!Places
<1>4. BJ!TypeOK'
  BY <1>2, <1>3, BatchFacts DEF BJ!TypeOK
<1>5. Apart(j)
  BY <1>2, <1>3 DEF Apart
<1>6. Works(j) /\ Tells(j) /\ MeansZero(j) /\ job[j].kind # "none"
  BY BatchFacts DEF Works, Before
<1>7. Works(j)'
  BY <1>1, <1>3, <1>6 DEF Works
<1>8. Tells(j)'
  <2>1. Spoken(j) = 1 .. host[j] - 1 /\ Spoken(j)' = 1 .. host[j] /\ Noted(j)' = {}
    BY <1>1, <1>3 DEF Spoken, Noted, Before
  <2>2. \A h \in Hosts : h \in Spoken(j)' <=> h = host[j] \/ h \in Spoken(j)
    <3>1. host[j] \in Nat \ {0} /\ Hosts \subseteq Nat
      BY BatchFacts
    <3> QED
      BY <2>1, <3>1
  <2>3. \A h \in Hosts : item[j][h] # "none" <=> h \in Spoken(j)
    BY <1>6 DEF Tells
  <2>4. \A h \in Hosts : item'[j][h] # "none" <=> h \in Spoken(j)'
    BY <1>2, <2>2, <2>3
  <2> QED
    BY <2>1, <2>4 DEF Tells
<1>9. MeansZero(j)'
  BY <1>2, <1>6 DEF MeansZero
<1>10. Scripts(j)'
  BY <1>1, <1>3, BatchFacts DEF Scripts, Filed, Before
<1> QED
  BY <1>4, <1>5, <1>7, <1>8, <1>9, <1>10, OneJob DEF JobTrue

LEMMA TheLast == ASSUME NEW a \in Nat, NEW b \in Nat, a <= b, ~(a < b) PROVE a = b
  OBVIOUS

\* It goes on to its next host or, after the last, to the audit.
LEMMA GoesOn ==
  ASSUME BatchInv, NEW j \in Jobs, BJ!NextHost(j), UNCHANGED <<job, row, unwritten, lost, proc, ran, file_b>>,
         late_b' = late_b, link_b' \in [Jobs -> BOOLEAN],
         \A k \in Jobs \ {j} : link_b'[k] = link_b[k] /\ item'[k] = item[k],
         item' \in [Jobs -> [Hosts -> BJ!Outcomes]],
         job[j].kind # "none", pc_b[j] \in {"connect", "close"},
         \A h \in Hosts : item'[j][h] # "none" <=> h \in 1 .. host[j],
         MeansZero(j)'
  PROVE  BatchInv'
<1>0. PICK l, m :
        /\ host[j] < job[j].n => l = "connect" /\ m = host[j] + 1
        /\ ~(host[j] < job[j].n) => l = "audit" /\ m = 1
        /\ pc_b' = [pc_b EXCEPT ![j] = l] /\ host' = [host EXCEPT ![j] = m]
  <2>1. CASE host[j] < job[j].n
    BY <2>1 DEF BJ!NextHost, BJ!Goto
  <2>2. CASE ~(host[j] < job[j].n)
    BY <2>2 DEF BJ!NextHost, BJ!Goto
  <2> QED
    BY <2>1, <2>2
<1>1. /\ host[j] \in 1 .. job[j].n /\ job[j].n \in Nat \ {0} /\ 1 .. job[j].n \subseteq Hosts
      /\ host[j] \in Nat
  BY BatchFacts DEF Works
<1>2. /\ l \in {"connect", "audit"} /\ m \in 1 .. job[j].n /\ m \in Hosts
      /\ l = "audit" => host[j] = job[j].n /\ m = 1
      /\ l = "connect" => m = host[j] + 1
  <2>1. CASE host[j] < job[j].n
    <3>1. l = "connect" /\ m = host[j] + 1
      BY <1>0, <2>1
    <3>2. m \in 1 .. job[j].n
      BY <1>1, <2>1, <3>1
    <3> QED
      BY <1>1, <3>1, <3>2
  <2>2. CASE ~(host[j] < job[j].n)
    <3>1. l = "audit" /\ m = 1
      BY <1>0, <2>2
    <3>2. m \in 1 .. job[j].n
      BY <1>1, <3>1
    <3>3. host[j] = job[j].n
      <4>1. host[j] <= job[j].n /\ job[j].n \in Nat /\ host[j] \in Nat
        BY <1>1
      <4> QED
        BY <2>2, <4>1, TheLast
    <3> QED
      BY <1>1, <3>1, <3>2, <3>3
  <2> QED
    BY <2>1, <2>2
<1>3. /\ pc_b' \in [Jobs -> BJ!Places] /\ host' \in [Jobs -> Hosts]
      /\ pc_b'[j] = l /\ host'[j] = m
      /\ \A k \in Jobs \ {j} : pc_b'[k] = pc_b[k] /\ host'[k] = host[k]
  BY <1>0, <1>2, BatchFacts DEF BJ!Places
<1>4. BJ!TypeOK'
  BY <1>3, BatchFacts DEF BJ!TypeOK
<1>5. Apart(j)
  BY <1>3 DEF Apart
<1>6. Works(j)'
  BY <1>2, <1>3 DEF Works
<1>7. Tells(j)'
  <2>1. Spoken(j)' = 1 .. host[j] /\ Noted(j)' = {}
    BY <1>1, <1>2, <1>3 DEF Spoken, Noted, Before
  <2> QED
    BY <2>1 DEF Tells
<1>8. Scripts(j)'
  BY <1>2, <1>3, BatchFacts DEF Scripts, Filed, Before
<1> QED
  BY <1>4, <1>5, <1>6, <1>7, <1>8, OneJob DEF JobTrue

\* What a step of a job may do to files: to its own, or to the one all share.
LEMMA OneFile ==
  ASSUME BatchInv, NEW j \in Jobs, NEW v \in BJ!Contents,
         file_b' = [file_b EXCEPT ![host[j]][BJ!remote_path(j)] = v]
  PROVE  /\ file_b' \in [Hosts -> [BJ!Paths -> BJ!Contents]]
         /\ \A k \in Jobs \ {j} : \A h \in Hosts : file_b'[h][k] = file_b[h][k]
         /\ \A h \in Hosts : h = host[j] \/ file_b'[h][j] = file_b[h][j]
         /\ job[j].kind = "script" => file_b'[host[j]][j] = v
<1>1. PICK r \in BJ!Paths : /\ r = BJ!remote_path(j) /\ r \in {j, Name}
                            /\ job[j].kind = "script" => r = j
  BY BatchFacts
<1>2. file_b \in [Hosts -> [BJ!Paths -> BJ!Contents]] /\ host[j] \in Hosts
  BY BatchFacts
<1>3. file_b' = [file_b EXCEPT ![host[j]][r] = v]
  BY <1>1
<1>4. /\ file_b' \in [Hosts -> [BJ!Paths -> BJ!Contents]] /\ file_b'[host[j]][r] = v
      /\ \A h \in Hosts, p \in BJ!Paths : (h # host[j] \/ p # r) => file_b'[h][p] = file_b[h][p]
  BY <1>1, <1>2, <1>3, OneCell
<1>5. Jobs \subseteq BJ!Paths /\ Name \notin Jobs
  BY BatchConstants
<1> QED
  BY <1>1, <1>4, <1>5

LEMMA Moved ==
  ASSUME BatchInv, NEW j \in Jobs, NEW l \in BJ!Places, pc_b' = [pc_b EXCEPT ![j] = l]
  PROVE  /\ pc_b' \in [Jobs -> BJ!Places] /\ pc_b'[j] = l
         /\ \A k \in Jobs \ {j} : pc_b'[k] = pc_b[k]
  BY BatchFacts

LEMMA PlacesAre == Before \cup Filed \cup {"clean", "close", "audit", "done"} = BJ!Places
  BY DEF Before, Filed, BJ!Places

LEMMA ConnectKeeps ==
  ASSUME BatchInv, NEW j \in Jobs, BJ!Connect(j) PROVE BatchInv'
<1>1. PICK l : /\ l \in Before /\ pc_b' = [pc_b EXCEPT ![j] = l]
               /\ l \in {"put", "exec"}
               /\ l = "put" => job[j].kind # "command"
               /\ l = "exec" => job[j].kind = "command"
  <2>1. CASE job[j].kind = "command"
    BY <2>1 DEF BJ!Connect, BJ!Goto, Before
  <2>2. CASE job[j].kind # "command"
    <3>1. pc_b' = [pc_b EXCEPT ![j] = "put"]
      BY <2>2 DEF BJ!Connect, BJ!Goto
    <3>2. "put" \in Before /\ "put" # "exec"
      BY DEF Before
    <3> QED
      BY <2>2, <3>1, <3>2, Zenon
  <2> QED
    BY <2>1, <2>2
<1>2. /\ pc_b[j] = "connect" /\ link_b' = [link_b EXCEPT ![j] = TRUE]
      /\ UNCHANGED <<job, host, late_b, item, row, unwritten, lost, proc, ran, file_b>>
  BY DEF BJ!Connect, BJ!told
<1>3. /\ l \in BJ!Places /\ Works(j) /\ MeansZero(j) /\ Scripts(j) /\ job[j].kind \in BJ!Kinds
  BY <1>1, BatchFacts, PlacesAre
<1>4. /\ pc_b' \in [Jobs -> BJ!Places] /\ pc_b'[j] = l
      /\ \A k \in Jobs \ {j} : pc_b'[k] = pc_b[k]
  BY <1>1, <1>3, Moved
<1>5. /\ link_b' \in [Jobs -> BOOLEAN] /\ link_b'[j] = TRUE
      /\ \A k \in Jobs \ {j} : link_b'[k] = link_b[k]
  BY <1>2, BatchFacts
<1>6. BJ!TypeOK' /\ Apart(j)
  BY <1>2, <1>4, <1>5 DEF BatchInv, BJ!TypeOK, Apart
<1>7. l \in {"put", "write"} => job[j].kind \in {"script", "upload"}
  BY <1>1, <1>2, <1>3 DEF Works, BJ!Kinds
<1>8. MeansZero(j)' /\ Scripts(j)'
  BY <1>1, <1>2, <1>3, <1>4, <1>5 DEF MeansZero, Scripts, Filed, Before
<1> QED
  BY <1>1, <1>2, <1>6, <1>7, <1>8, Proceeds DEF Before

LEMMA PutKeeps ==
  ASSUME BatchInv, NEW j \in Jobs, BJ!Put(j) PROVE BatchInv'
<1>1. /\ pc_b[j] = "put" /\ link_b[j] /\ pc_b' = [pc_b EXCEPT ![j] = "write"]
      /\ file_b' = [file_b EXCEPT ![host[j]][BJ!remote_path(j)] = "part"]
      /\ UNCHANGED <<job, host, link_b, late_b, lost, item, row, unwritten, proc, ran>>
  BY DEF BJ!Put, BJ!Goto, BJ!conn, BJ!told
<1>2. Works(j) /\ MeansZero(j) /\ Scripts(j) /\ "write" \in BJ!Places /\ "part" \in BJ!Contents
  BY BatchFacts DEF BJ!Places, BJ!Contents
<1>3. /\ pc_b' \in [Jobs -> BJ!Places] /\ pc_b'[j] = "write"
      /\ \A k \in Jobs \ {j} : pc_b'[k] = pc_b[k]
  BY <1>1, <1>2, Moved
<1>4. /\ file_b' \in [Hosts -> [BJ!Paths -> BJ!Contents]]
      /\ \A k \in Jobs \ {j} : \A h \in Hosts : file_b'[h][k] = file_b[h][k]
      /\ \A h \in Hosts : h = host[j] \/ file_b'[h][j] = file_b[h][j]
  BY <1>1, <1>2, OneFile
<1>5. BJ!TypeOK' /\ Apart(j)
  BY <1>1, <1>3, <1>4 DEF BatchInv, BJ!TypeOK, Apart
<1>6. MeansZero(j)'
  BY <1>1, <1>2 DEF MeansZero
<1>7. Scripts(j)'
  BY <1>1, <1>2, <1>3, <1>4 DEF Scripts, Filed, Before
<1>8. pc_b[j] \in Before /\ "write" \in Before /\ job[j].kind \in {"script", "upload"}
  BY <1>1, <1>2 DEF Before, Works
<1> QED
  BY <1>1, <1>5, <1>6, <1>7, <1>8, Proceeds

LEMMA WrittenKeeps ==
  ASSUME BatchInv, NEW j \in Jobs, BJ!Written(j) PROVE BatchInv'
<1>1. /\ pc_b[j] = "write" /\ link_b[j]
      /\ file_b' = [file_b EXCEPT ![host[j]][BJ!remote_path(j)] = j]
      /\ UNCHANGED <<job, host, link_b, late_b, lost, row, unwritten, proc, ran>>
  BY DEF BJ!Written, BJ!AfterUpload, BJ!conn, BJ!told
<1>2. Works(j) /\ MeansZero(j) /\ Scripts(j) /\ "exec" \in BJ!Places /\ j \in BJ!Contents
  BY BatchFacts DEF BJ!Places, BJ!Contents
<1>3. /\ file_b' \in [Hosts -> [BJ!Paths -> BJ!Contents]]
      /\ \A k \in Jobs \ {j} : \A h \in Hosts : file_b'[h][k] = file_b[h][k]
      /\ \A h \in Hosts : h = host[j] \/ file_b'[h][j] = file_b[h][j]
      /\ job[j].kind = "script" => file_b'[host[j]][j] = j
  BY <1>1, <1>2, OneFile
<1>4. CASE job[j].kind = "script"
  <2>1. pc_b' = [pc_b EXCEPT ![j] = "exec"] /\ item' = item
    BY <1>4 DEF BJ!Written, BJ!AfterUpload, BJ!Goto
  <2>2. /\ pc_b' \in [Jobs -> BJ!Places] /\ pc_b'[j] = "exec"
        /\ \A k \in Jobs \ {j} : pc_b'[k] = pc_b[k]
    BY <1>2, <2>1, Moved
  <2>3. BJ!TypeOK' /\ Apart(j)
    BY <1>1, <1>3, <2>1, <2>2 DEF BatchInv, BJ!TypeOK, Apart
  <2>4. MeansZero(j)'
    BY <1>1, <1>2, <2>1 DEF MeansZero
  <2>5. Scripts(j)'
    BY <1>1, <1>2, <1>3, <1>4, <2>2 DEF Scripts, Filed, Before
  <2>6. pc_b[j] \in Before /\ "exec" \in Before /\ "exec" \notin {"put", "write"}
    BY <1>1 DEF Before
  <2> QED
    BY <1>1, <2>1, <2>3, <2>4, <2>5, <2>6, Proceeds
<1>5. CASE job[j].kind # "script"
  <2>1. BJ!Result(j, "success") /\ job[j].kind = "upload"
    BY <1>1, <1>2, <1>5 DEF BJ!Written, BJ!AfterUpload, Works
  <2>2. pc_b[j] \in Before \ {"connect"} /\ pc_b[j] # "put"
    BY <1>1 DEF Before
  <2> QED
    BY <1>1, <1>3, <2>1, <2>2, Ends
<1> QED
  BY <1>4, <1>5

LEMMA FailsKeeps ==
  ASSUME BatchInv, NEW j \in Jobs,
         BJ!PutFails(j) \/ BJ!ExecFails(j) \/ BJ!TimesOut(j) \/ BJ!Status(j)
  PROVE  BatchInv'
<1>1. PICK o \in {"success", "failed"} :
        /\ BJ!Result(j, o)
        /\ o = "success" => proc[j][host[j]].exit = "zero"
  BY DEF BJ!PutFails, BJ!ExecFails, BJ!TimesOut, BJ!Status, BJ!Told, BJ!P
<1>2. /\ pc_b[j] \in Before \ {"connect"}
      /\ UNCHANGED <<job, host, row, unwritten, link_b, late_b, lost, proc, ran, file_b>>
  BY DEF BJ!PutFails, BJ!ExecFails, BJ!TimesOut, BJ!Status, BJ!Reading, Before, BJ!conn,
         BJ!told
<1>3. file_b \in [Hosts -> [BJ!Paths -> BJ!Contents]]
  BY BatchFacts
<1> QED
  BY <1>1, <1>2, <1>3, Ends

LEMMA ExecKeeps ==
  ASSUME BatchInv, NEW j \in Jobs, BJ!Exec(j) PROVE BatchInv'
<1>1. /\ pc_b[j] = "exec" /\ link_b[j] /\ pc_b' = [pc_b EXCEPT ![j] = "read1"]
      /\ proc' = [proc EXCEPT ![j][host[j]].exit = "no"]
      /\ late_b' = [late_b EXCEPT ![j] = FALSE]
      /\ UNCHANGED <<job, host, link_b, lost, item, row, unwritten, file_b>>
  BY DEF BJ!Exec, BJ!Goto, BJ!told
<1>2. /\ Works(j) /\ Tells(j) /\ MeansZero(j) /\ Scripts(j) /\ "read1" \in BJ!Places
      /\ host[j] \in Hosts /\ host[j] \in Nat
  BY BatchFacts DEF BJ!Places
<1>3. /\ pc_b' \in [Jobs -> BJ!Places] /\ pc_b'[j] = "read1"
      /\ \A k \in Jobs \ {j} : pc_b'[k] = pc_b[k]
  BY <1>1, <1>2, Moved
<1>4. PICK p \in BJ!Procs : proc' = [proc EXCEPT ![j][host[j]] = p]
  <2>1. proc \in [Jobs -> [Hosts -> BJ!Procs]]
    BY BatchFacts
  <2>2. [proc[j][host[j]] EXCEPT !.exit = "no"] \in BJ!Procs
    <3>1. proc[j][host[j]] \in BJ!Procs
      BY <1>2, <2>1
    <3>2. ASSUME NEW q \in BJ!Procs PROVE [q EXCEPT !.exit = "no"] \in BJ!Procs
      BY DEF BJ!Procs
    <3> QED
      BY <3>1, <3>2
  <2>3. proc' = [proc EXCEPT ![j][host[j]] = [proc[j][host[j]] EXCEPT !.exit = "no"]]
    BY <1>1, <1>2, <2>1
  <2> QED
    BY <2>2, <2>3
<1>5. /\ proc' \in [Jobs -> [Hosts -> BJ!Procs]]
      /\ \A h \in Hosts : h # host[j] => proc'[j][h] = proc[j][h]
      /\ \A k \in Jobs \ {j} : proc'[k] = proc[k]
  <2>1. proc \in [Jobs -> [Hosts -> BJ!Procs]]
    BY BatchFacts
  <2> QED
    BY <1>2, <1>4, <2>1, OneCell
<1>6. PICK v \in {j, "none"} : ran' = [ran EXCEPT ![j][host[j]] = v]
  <2>1. CASE job[j].kind = "script"
    <3>1. file_b[host[j]][BJ!remote_path(j)] = j
      BY <1>1, <1>2, <2>1 DEF Scripts, BJ!remote_path
    <3>2. ran' = [ran EXCEPT ![j][host[j]] = j]
      BY <2>1, <3>1 DEF BJ!Exec
    <3> QED
      BY <3>2
  <2>2. CASE job[j].kind # "script"
    <3>1. ran' = [ran EXCEPT ![j][host[j]] = ran[j][host[j]]]
      BY <2>2, BatchFacts DEF BJ!Exec
    <3>2. ran[j][host[j]] \in {j, "none"}
      BY <1>2 DEF Scripts
    <3> QED
      BY <3>1, <3>2
  <2> QED
    BY <2>1, <2>2
<1>7. /\ ran' \in [Jobs -> [Hosts -> BJ!Contents]]
      /\ ran'[j][host[j]] = v
      /\ \A h \in Hosts : h # host[j] => ran'[j][h] = ran[j][h]
      /\ \A k \in Jobs \ {j} : ran'[k] = ran[k]
  <2>1. ran \in [Jobs -> [Hosts -> BJ!Contents]]
    BY BatchFacts
  <2>2. v \in BJ!Contents
    BY <1>6 DEF BJ!Contents
  <2> QED
    BY <1>2, <1>6, <2>1, <2>2, OneCell
<1>8. BJ!TypeOK' /\ Apart(j)
  <2>1. late_b' \in [Jobs -> BOOLEAN]
    BY <1>1, BatchFacts
  <2>2. BJ!TypeOK
    BY DEF BatchInv
  <2>3. BJ!TypeOK'
    BY <1>1, <1>3, <1>5, <1>7, <2>1, <2>2 DEF BJ!TypeOK
  <2> QED
    BY <1>1, <1>3, <1>5, <1>7, <2>3 DEF Apart
<1>9. MeansZero(j)'
  <2>1. job[j].kind # "none" /\ host[j] \notin Spoken(j)
    BY <1>1, <1>2 DEF Works, Spoken, Before
  <2>2. item[j][host[j]] = "none"
    BY <1>2, <2>1 DEF Tells
  <2> QED
    BY <1>1, <1>2, <1>5, <2>2 DEF MeansZero
<1>10. Scripts(j)'
  <2>1. \A h \in Hosts : ran'[j][h] \in {j, "none"}
    BY <1>2, <1>6, <1>7 DEF Scripts
  <2> QED
    BY <1>1, <1>2, <1>3, <2>1 DEF Scripts, Filed, Before
<1>11. pc_b[j] \in Before /\ "read1" \in Before /\ "read1" \notin {"put", "write"}
  BY <1>1 DEF Before
<1> QED
  BY <1>1, <1>3, <1>8, <1>9, <1>10, <1>11, Proceeds

\* Where the command is read, the file part does not depend on how far.
LEMMA ReadKeeps ==
  ASSUME BatchInv, NEW j \in Jobs, BJ!Selected(j) \/ BJ!Received(j) \/ BJ!Late(j)
  PROVE  BatchInv'
<1> DEFINE Busy == {"read1", "recv1", "read2", "recv2", "status"}
<1>1. PICK l \in Busy :
        pc_b' = [pc_b EXCEPT ![j] = l] /\ pc_b[j] \in Busy
  <2>1. pc_b[j] \in {"read1", "recv1", "read2", "recv2"}
    BY DEF BJ!Selected, BJ!Received, BJ!Late, BJ!Reading, BJ!Receiving
  <2>2. CASE BJ!Selected(j)
    BY <2>1, <2>2 DEF BJ!Selected, BJ!Goto
  <2>3. CASE BJ!Received(j)
    BY <2>1, <2>3 DEF BJ!Received, BJ!Goto
  <2>4. CASE BJ!Late(j)
    <3>1. pc_b' = [pc_b EXCEPT ![j] = pc_b[j]]
      BY <2>4, BatchFacts DEF BJ!Late
    <3> QED
      BY <2>1, <3>1
  <2> QED
    BY <2>2, <2>3, <2>4
<1>2. /\ UNCHANGED <<job, host, link_b, item, row, unwritten, lost, proc, ran, file_b>>
      /\ late_b' \in [Jobs -> BOOLEAN]
  BY BatchFacts DEF BJ!Selected, BJ!Received, BJ!Late, BJ!conn, BJ!told
<1>3. l \in BJ!Places /\ MeansZero(j) /\ Scripts(j)
  BY <1>1, BatchFacts DEF BJ!Places
<1>4. /\ pc_b' \in [Jobs -> BJ!Places] /\ pc_b'[j] = l
      /\ \A k \in Jobs \ {j} : pc_b'[k] = pc_b[k]
  BY <1>1, <1>3, Moved
<1>5. BJ!TypeOK' /\ Apart(j)
  BY <1>2, <1>4 DEF BatchInv, BJ!TypeOK, Apart
<1>6. MeansZero(j)'
  BY <1>2, <1>3 DEF MeansZero
<1>7. Scripts(j)'
  BY <1>1, <1>2, <1>3, <1>4 DEF Scripts, Filed, Before
<1>8. pc_b[j] \in Before /\ l \in Before /\ l \notin {"put", "write"}
  BY <1>1 DEF Before
<1> QED
  BY <1>1, <1>2, <1>5, <1>6, <1>7, <1>8, Proceeds

\* While a command runs, nothing is said of its host yet.
LEMMA RemoteKeeps ==
  ASSUME BatchInv, NEW j \in Jobs, BJ!Exits(j) \/ BJ!Complains(j) \/ BJ!Writes(j)
  PROVE  BatchInv'
<1>1. PICK p : BJ!Becomes(j, p) /\ p \in BJ!Procs
  <2>1. BJ!P(j) \in BJ!Procs
    BY BatchFacts DEF BJ!P
  <2>2. CASE BJ!Exits(j)
    <3>1. PICK e \in {"zero", "nonzero"},
               o \in {"eof"} \cup (IF "lingers" \in job[j].habits THEN {BJ!P(j).out} ELSE {}) :
            BJ!Becomes(j, [BJ!P(j) EXCEPT !.exit = e, !.out = o])
      BY <2>2 DEF BJ!Exits
    <3>2. o \in {"open", "flood", "eof"}
      BY <2>1, <3>1 DEF BJ!Procs
    <3>3. ASSUME NEW q \in BJ!Procs PROVE [q EXCEPT !.exit = e, !.out = o] \in BJ!Procs
      BY <3>1, <3>2 DEF BJ!Procs
    <3> QED
      BY <2>1, <3>1, <3>3
  <2>3. CASE BJ!Complains(j)
    <3>1. ASSUME NEW q \in BJ!Procs PROVE [q EXCEPT !.err = TRUE] \in BJ!Procs
      BY DEF BJ!Procs
    <3> QED
      BY <2>1, <2>3, <3>1 DEF BJ!Complains
  <2>4. CASE BJ!Writes(j)
    <3>1. ASSUME NEW q \in BJ!Procs, NEW o \in {"eof", "flood"}
          PROVE  [q EXCEPT !.out = o] \in BJ!Procs
      BY DEF BJ!Procs
    <3> QED
      BY <2>1, <2>4, <3>1 DEF BJ!Writes
  <2> QED
    BY <2>2, <2>3, <2>4
<1>2. pc_b[j] \in {"read1", "recv1", "read2", "recv2", "status"}
  BY DEF BJ!Exits, BJ!Complains, BJ!Writes, BJ!Alive
<1>3. /\ proc' = [proc EXCEPT ![j][host[j]] = p]
      /\ UNCHANGED <<job, pc_b, host, link_b, late_b, lost, item, row, unwritten, ran, file_b>>
  BY <1>1 DEF BJ!Becomes, BJ!conn, BJ!told
<1>4. /\ Works(j) /\ Tells(j) /\ MeansZero(j) /\ Scripts(j)
      /\ host[j] \in Hosts /\ host[j] \in Nat
  BY BatchFacts
<1>5. /\ proc' \in [Jobs -> [Hosts -> BJ!Procs]]
      /\ \A h \in Hosts : h # host[j] => proc'[j][h] = proc[j][h]
      /\ \A k \in Jobs \ {j} : proc'[k] = proc[k]
  <2>1. proc \in [Jobs -> [Hosts -> BJ!Procs]]
    BY BatchFacts
  <2> QED
    BY <1>1, <1>3, <1>4, <2>1, OneCell
<1>6. BJ!TypeOK' /\ Apart(j)
  BY <1>3, <1>5 DEF BatchInv, BJ!TypeOK, Apart
<1>7. MeansZero(j)'
  <2>1. job[j].kind # "none" /\ host[j] \notin Spoken(j)
    BY <1>2, <1>4 DEF Works, Spoken, Before
  <2>2. item[j][host[j]] = "none"
    BY <1>4, <2>1 DEF Tells
  <2> QED
    BY <1>3, <1>4, <1>5, <2>2 DEF MeansZero
<1>8. Works(j)' /\ Scripts(j)'
  BY <1>3, <1>4 DEF Works, Scripts
<1>9. Tells(j)'
  <2>1. Spoken(j)' = Spoken(j) /\ Noted(j)' = Noted(j)
    BY <1>3 DEF Spoken, Noted
  <2> QED
    BY <1>3, <1>4, <2>1 DEF Tells
<1> QED
  BY <1>6, <1>7, <1>8, <1>9, OneJob DEF JobTrue

LEMMA LoseKeeps ==
  ASSUME BatchInv, NEW j \in Jobs, BJ!Lose(j) PROVE BatchInv'
<1>1. /\ link_b' = [link_b EXCEPT ![j] = FALSE]
      /\ lost' = [lost EXCEPT ![j] = @ \cup {host[j]}]
      /\ UNCHANGED <<job, pc_b, host, late_b, item, row, unwritten, proc, ran, file_b>>
  BY DEF BJ!Lose, BJ!told
<1>2. /\ link_b' \in [Jobs -> BOOLEAN] /\ lost' \in [Jobs -> SUBSET Hosts]
      /\ \A k \in Jobs \ {j} : link_b'[k] = link_b[k] /\ lost'[k] = lost[k]
      /\ lost'[j] = lost[j] \cup {host[j]}
  BY <1>1, BatchFacts
<1>3. Works(j) /\ Tells(j) /\ MeansZero(j) /\ Scripts(j)
  BY BatchFacts
<1>4. BJ!TypeOK' /\ Apart(j)
  BY <1>1, <1>2 DEF BatchInv, BJ!TypeOK, Apart
<1>5. Works(j)' /\ MeansZero(j)' /\ Scripts(j)'
  BY <1>1, <1>2, <1>3 DEF Works, MeansZero, Scripts
<1>6. Tells(j)'
  <2>1. Spoken(j)' = Spoken(j) /\ Noted(j)' = Noted(j)
    BY <1>1 DEF Spoken, Noted
  <2> QED
    BY <1>1, <1>3, <2>1 DEF Tells
<1> QED
  BY <1>4, <1>5, <1>6, OneJob DEF JobTrue

LEMMA ConnectFailsKeeps ==
  ASSUME BatchInv, NEW j \in Jobs, BJ!ConnectFails(j) PROVE BatchInv'
<1>1. /\ pc_b[j] = "connect" /\ BJ!NextHost(j)
      /\ item' = [item EXCEPT ![j][host[j]] = "failed"]
      /\ UNCHANGED <<job, link_b, late_b, lost, row, unwritten, proc, ran, file_b>>
  BY DEF BJ!ConnectFails, BJ!Say, BJ!conn, BJ!told
<1>2. /\ Works(j) /\ Tells(j) /\ MeansZero(j)
      /\ host[j] \in Hosts /\ host[j] \in Nat \ {0} /\ Hosts \subseteq Nat \ {0}
  BY BatchFacts
<1>3. /\ item' \in [Jobs -> [Hosts -> BJ!Outcomes]] /\ item'[j][host[j]] = "failed"
      /\ \A h \in Hosts : h # host[j] => item'[j][h] = item[j][h]
      /\ \A k \in Jobs \ {j} : item'[k] = item[k]
  <2>1. item \in [Jobs -> [Hosts -> BJ!Outcomes]] /\ "failed" \in BJ!Outcomes
    BY BatchFacts DEF BJ!Outcomes
  <2> QED
    BY <1>1, <1>2, <2>1, OneCell
<1>4. job[j].kind # "none" /\ Spoken(j) = 1 .. host[j] - 1
  BY <1>1, <1>2 DEF Works, Spoken, Before
<1>5. \A h \in Hosts : item'[j][h] # "none" <=> h \in 1 .. host[j]
  <2>1. \A h \in Hosts : item[j][h] # "none" <=> h \in Spoken(j)
    BY <1>2, <1>4 DEF Tells
  <2>2. \A h \in Hosts : h \in 1 .. host[j] <=> h = host[j] \/ h \in Spoken(j)
    BY <1>2, <1>4
  <2> QED
    BY <1>3, <2>1, <2>2
<1>6. MeansZero(j)'
  BY <1>1, <1>2, <1>3 DEF MeansZero
<1>7. link_b' \in [Jobs -> BOOLEAN]
  BY <1>1, BatchFacts
<1> QED
  BY <1>1, <1>3, <1>4, <1>5, <1>6, <1>7, GoesOn

LEMMA CloseKeeps ==
  ASSUME BatchInv, NEW j \in Jobs, BJ!Close(j) PROVE BatchInv'
<1>1. /\ pc_b[j] = "close" /\ BJ!NextHost(j) /\ link_b' = [link_b EXCEPT ![j] = FALSE]
      /\ UNCHANGED <<job, item, late_b, lost, row, unwritten, proc, ran, file_b>>
  BY DEF BJ!Close, BJ!told
<1>2. /\ Works(j) /\ Tells(j) /\ MeansZero(j)
      /\ item \in [Jobs -> [Hosts -> BJ!Outcomes]]
  BY BatchFacts
<1>3. job[j].kind # "none" /\ Spoken(j) = 1 .. host[j]
  BY <1>1, <1>2 DEF Works, Spoken, Before
<1>4. \A h \in Hosts : item'[j][h] # "none" <=> h \in 1 .. host[j]
  BY <1>1, <1>2, <1>3 DEF Tells
<1>5. MeansZero(j)'
  BY <1>1, <1>2 DEF MeansZero
<1>6. link_b' \in [Jobs -> BOOLEAN] /\ \A k \in Jobs \ {j} : link_b'[k] = link_b[k]
  BY <1>1, BatchFacts
<1> QED
  BY <1>1, <1>2, <1>3, <1>4, <1>5, <1>6, GoesOn

LEMMA CleanKeeps ==
  ASSUME BatchInv, NEW j \in Jobs, BJ!Clean(j) PROVE BatchInv'
<1>1. /\ pc_b[j] = "clean" /\ pc_b' = [pc_b EXCEPT ![j] = "close"]
      /\ UNCHANGED <<job, host, link_b, late_b, lost, item, row, unwritten, proc, ran>>
  BY DEF BJ!Clean, BJ!Goto, BJ!conn, BJ!told
<1>2. /\ Works(j) /\ Tells(j) /\ MeansZero(j) /\ Scripts(j)
      /\ "close" \in BJ!Places /\ "none" \in BJ!Contents
      /\ file_b \in [Hosts -> [BJ!Paths -> BJ!Contents]]
  BY BatchFacts DEF BJ!Places, BJ!Contents
<1>3. /\ pc_b' \in [Jobs -> BJ!Places] /\ pc_b'[j] = "close"
      /\ \A k \in Jobs \ {j} : pc_b'[k] = pc_b[k]
  BY <1>1, <1>2, Moved
<1>4. /\ file_b' \in [Hosts -> [BJ!Paths -> BJ!Contents]]
      /\ \A k \in Jobs \ {j} : \A h \in Hosts : file_b'[h][k] = file_b[h][k]
      /\ \A h \in Hosts : h = host[j] \/ file_b'[h][j] = file_b[h][j]
      /\ job[j].kind = "script" => (file_b'[host[j]][j] = "none" \/ host[j] \in lost[j])
  <2>1. CASE link_b[j]
    <3>1. file_b' = [file_b EXCEPT ![host[j]][BJ!remote_path(j)] = "none"]
      BY <2>1 DEF BJ!Clean
    <3> QED
      BY <1>2, <3>1, OneFile
  <2>2. CASE ~link_b[j]
    <3>1. file_b' = file_b
      BY <2>2 DEF BJ!Clean
    <3>2. job[j].kind = "script" => host[j] \in lost[j]
      BY <1>1, <1>2, <2>2 DEF Scripts, Filed
    <3> QED
      BY <1>2, <3>1, <3>2
  <2> QED
    BY <2>1, <2>2
<1>5. BJ!TypeOK' /\ Apart(j)
  BY <1>1, <1>3, <1>4 DEF BatchInv, BJ!TypeOK, Apart
<1>6. Works(j)' /\ MeansZero(j)'
  BY <1>1, <1>2, <1>3 DEF Works, MeansZero
<1>7. Tells(j)'
  <2>1. Spoken(j)' = Spoken(j) /\ Noted(j)' = Noted(j)
    BY <1>1, <1>3 DEF Spoken, Noted, Before
  <2> QED
    BY <1>1, <1>2, <2>1 DEF Tells
<1>8. Scripts(j)'
  BY <1>1, <1>2, <1>3, <1>4 DEF Scripts, Filed, Before
<1> QED
  BY <1>5, <1>6, <1>7, <1>8, OneJob DEF JobTrue

LEMMA AuditKeeps ==
  ASSUME BatchInv, NEW j \in Jobs, BJ!Audit(j) PROVE BatchInv'
<1>1. /\ pc_b[j] = "audit"
      /\ UNCHANGED <<job, link_b, late_b, lost, item, proc, ran, file_b>>
  BY DEF BJ!Audit, BJ!Rows, BJ!conn
<1>2. /\ Works(j) /\ Tells(j) /\ MeansZero(j) /\ Scripts(j)
      /\ host[j] \in Hosts /\ host[j] \in Nat \ {0} /\ Hosts \subseteq Nat \ {0}
      /\ job[j].n \in Nat \ {0} /\ 1 .. job[j].n \subseteq Hosts
      /\ pc_b \in [Jobs -> BJ!Places] /\ host \in [Jobs -> Hosts]
      /\ item \in [Jobs -> [Hosts -> BJ!Outcomes]]
      /\ row \in [Jobs -> [Hosts -> BJ!Outcomes]] /\ unwritten \in [Jobs -> SUBSET Hosts]
  BY BatchFacts
<1>3. host[j] \in 1 .. job[j].n /\ host[j] <= job[j].n /\ job[j].kind # "none"
  BY <1>1, <1>2 DEF Works
<1>4. PICK rows : rows = IF job[j].kind = "upload" THEN 1 .. job[j].n ELSE {host[j]}
  OBVIOUS
<1>5. \/ /\ row' = [row EXCEPT ![j] = [h \in Hosts |-> IF h \in rows THEN item[j][h] ELSE row[j][h]]]
          /\ unwritten' = unwritten
       \/ /\ unwritten' = [unwritten EXCEPT ![j] = unwritten[j] \cup rows]
          /\ row' = row
  <2>1. \/ /\ row' = [row EXCEPT ![j] = [h \in Hosts |-> IF h \in rows THEN item[j][h] ELSE @[h]]]
           /\ UNCHANGED unwritten
        \/ unwritten' = [unwritten EXCEPT ![j] = @ \cup rows] /\ UNCHANGED row
    <3>1. CASE job[j].kind = "upload"
      BY <1>4, <3>1 DEF BJ!Audit, BJ!Rows
    <3>2. CASE job[j].kind # "upload"
      BY <1>4, <3>2 DEF BJ!Audit, BJ!Rows
    <3> QED
      BY <3>1, <3>2
  <2> QED
    BY <1>2, <2>1
<1>6. rows \subseteq Hosts
  BY <1>2, <1>3, <1>4
<1>7. /\ row' \in [Jobs -> [Hosts -> BJ!Outcomes]] /\ unwritten' \in [Jobs -> SUBSET Hosts]
      /\ \A k \in Jobs \ {j} : row'[k] = row[k] /\ unwritten'[k] = unwritten[k]
      /\ \A h \in Hosts :
           \/ h \in unwritten'[j]
           \/ row'[j][h] = item[j][h] /\ h \in rows
           \/ h \notin rows /\ h \notin unwritten[j] /\ row'[j][h] = row[j][h]
  <2>1. CASE /\ row' = [row EXCEPT ![j] = [h \in Hosts |-> IF h \in rows THEN item[j][h] ELSE row[j][h]]]
             /\ unwritten' = unwritten
    BY <1>2, <2>1
  <2>2. CASE /\ unwritten' = [unwritten EXCEPT ![j] = unwritten[j] \cup rows]
             /\ row' = row
    BY <1>2, <1>6, <2>2
  <2> QED
    BY <1>5, <2>1, <2>2
<1>8. PICK l, m :
        /\ pc_b' \in [Jobs -> BJ!Places] /\ host' \in [Jobs -> Hosts]
        /\ pc_b'[j] = l /\ host'[j] = m /\ m \in 1 .. job[j].n
        /\ \A k \in Jobs \ {j} : pc_b'[k] = pc_b[k] /\ host'[k] = host[k]
        /\ \/ l = "audit" /\ m = host[j] + 1 /\ rows = {host[j]}
           \/ l = "done" /\ (rows = 1 .. job[j].n \/ (rows = {job[j].n} /\ host[j] = job[j].n))
  <2>1. CASE job[j].kind # "upload" /\ host[j] < job[j].n
    <3>1. host' = [host EXCEPT ![j] = host[j] + 1] /\ pc_b' = pc_b
      BY <1>2, <2>1 DEF BJ!Audit, BJ!Rows
    <3>2. host[j] + 1 \in 1 .. job[j].n /\ rows = {host[j]}
      BY <1>2, <1>4, <2>1
    <3>3. host[j] + 1 \in Hosts
      BY <1>2, <3>2
    <3> QED
      BY <1>1, <1>2, <3>1, <3>2, <3>3
  <2>2. CASE ~(job[j].kind # "upload" /\ host[j] < job[j].n)
    <3>1. pc_b' = [pc_b EXCEPT ![j] = "done"] /\ host' = host
      BY <2>2 DEF BJ!Audit, BJ!Rows, BJ!Goto
    <3>2. "done" \in BJ!Places
      BY DEF BJ!Places
    <3>3. rows = 1 .. job[j].n \/ (rows = {job[j].n} /\ host[j] = job[j].n)
      <4>1. CASE job[j].kind = "upload"
        BY <1>4, <4>1
      <4>2. CASE job[j].kind # "upload"
        <5>1. host[j] = job[j].n
          BY <1>2, <1>3, <2>2, <4>2, TheLast
        <5> QED
          BY <1>4, <4>2, <5>1
      <4> QED
        BY <4>1, <4>2
    <3> QED
      BY <1>2, <1>3, <3>1, <3>2, <3>3, Moved
  <2> QED
    BY <2>1, <2>2
<1>9. BJ!TypeOK' /\ Apart(j)
  BY <1>1, <1>7, <1>8 DEF BatchInv, BJ!TypeOK, Apart
<1>10. Works(j)' /\ MeansZero(j)'
  BY <1>1, <1>2, <1>3, <1>8 DEF Works, MeansZero
<1>11. Scripts(j)'
  BY <1>1, <1>2, <1>8 DEF Scripts, Filed, Before
<1>12. Tells(j)'
  <2>1. Spoken(j)' = Spoken(j)
    BY <1>1, <1>8 DEF Spoken, Before
  <2>2. Noted(j) = 1 .. host[j] - 1
    BY <1>1 DEF Noted
  <2>3. Noted(j)' \subseteq Hosts /\ \A h \in Noted(j)' : h \in Noted(j) \/ h \in rows
    <3>1. CASE pc_b'[j] = "audit"
      <4>1. host'[j] = host[j] + 1 /\ rows = {host[j]}
        BY <1>8, <3>1
      <4>2. Noted(j)' = 1 .. host'[j] - 1 /\ host'[j] - 1 = host[j]
        BY <1>2, <3>1, <4>1 DEF Noted
      <4> QED
        BY <1>2, <1>3, <2>2, <4>1, <4>2
    <3>2. CASE pc_b'[j] = "done"
      <4>1. Noted(j)' = 1 .. job[j].n
        BY <1>1, <3>2 DEF Noted
      <4>2. rows = 1 .. job[j].n \/ (rows = {job[j].n} /\ host[j] = job[j].n)
        BY <1>8, <3>2
      <4> QED
        BY <1>2, <2>2, <4>1, <4>2
    <3> QED
      BY <1>8, <3>1, <3>2
  <2>4. \A h \in Noted(j) : h \in unwritten[j] \/ row[j][h] = item[j][h]
    BY <1>2, <1>3 DEF Tells
  <2>5. \A h \in Noted(j)' : h \in unwritten'[j] \/ row'[j][h] = item[j][h]
    BY <1>7, <2>3, <2>4
  <2>6. \A h \in Hosts : item[j][h] # "none" <=> h \in Spoken(j)
    BY <1>2, <1>3 DEF Tells
  <2> QED
    BY <1>1, <2>1, <2>5, <2>6 DEF Tells
<1> QED
  BY <1>9, <1>10, <1>11, <1>12, OneJob DEF JobTrue

LEMMA BatchStep == BatchInv /\ [BJ!Next]_(BJ!vars) => BatchInv'
<1> SUFFICES ASSUME BatchInv, [BJ!Next]_(BJ!vars) PROVE BatchInv'
  OBVIOUS
<1>1. CASE UNCHANGED BJ!vars
  <2>1. \A j \in Jobs : Spoken(j)' = Spoken(j) /\ Noted(j)' = Noted(j)
    BY <1>1 DEF BJ!vars, Spoken, Noted
  <2> QED
    BY <1>1, <2>1 DEF BJ!vars, BatchInv, BJ!TypeOK, JobTrue, Works, Tells, MeansZero,
                      Scripts
<1>2. ASSUME NEW j \in Jobs, BJ!Step(j) \/ BJ!Late(j) \/ BJ!Remote(j)
      PROVE  BatchInv'
  <2>1. CASE BJ!Step(j)
    BY <2>1, ConnectKeeps, ConnectFailsKeeps, PutKeeps, WrittenKeeps, FailsKeeps, ExecKeeps,
       ReadKeeps, CleanKeeps, CloseKeeps, AuditKeeps DEF BJ!Step
  <2>2. CASE BJ!Late(j)
    BY <2>2, ReadKeeps
  <2>3. CASE BJ!Remote(j)
    BY <2>3, LoseKeeps, RemoteKeeps DEF BJ!Remote
  <2> QED
    BY <1>2, <2>1, <2>2, <2>3
<1> QED
  BY <1>1, <1>2 DEF BJ!Next, BJ!Ended

LEMMA BatchHonest == BatchInv => BJ!JobIsHonest
<1> SUFFICES ASSUME BatchInv, NEW j \in Jobs, NEW h \in Hosts
             PROVE  /\ ran[j][h] \in {j, "none"}
                    /\ (pc_b[j] = "done" /\ job[j].kind = "script" /\ h \notin lost[j])
                         => file_b[h][j] = "none"
                    /\ (item[j][h] = "success" /\ job[j].kind # "upload")
                         => proc[j][h].exit = "zero"
                    /\ (pc_b[j] = "done" /\ job[j].kind # "none" /\ h \in 1 .. job[j].n) =>
                         h \in unwritten[j] \/ (row[j][h] = item[j][h] /\ row[j][h] # "none")
  BY BatchFacts DEF BJ!JobIsHonest, BJ!ScriptRunsItsOwn, BJ!NoScriptLeft,
                    BJ!SuccessMeansZero,
     BJ!EveryTargetTold
<1>1. Tells(j) /\ MeansZero(j) /\ Scripts(j)
  BY BatchFacts
<1>2. pc_b[j] = "done" => Spoken(j) = 1 .. job[j].n /\ Noted(j) = 1 .. job[j].n
  BY DEF Spoken, Noted, Before
<1> QED
  BY <1>1, <1>2 DEF Tells, MeansZero, Scripts, Filed, Before

\* Whatever two or more jobs do at once on hosts that fail, lose connections or
\* hang: a job interprets its own script and leaves none where it could reach the
\* host, calls a host successful only for a command that ended with status zero,
\* and every target gets the row that says what the caller was told, unless the
\* write of that row failed (batch_service.py, ssh_cmd of shellcmd.py).
THEOREM JobsAreHonest ==
  (BJ!Spec => []BJ!JobIsHonest) /\ (MCSpec => []JobIsHonest)
<1>1. BJ!Spec => []BJ!JobIsHonest
  BY BatchHonest, BatchStart, BatchStep, PTL DEF BJ!Spec
<1>2. MCInit => BatchInv
  BY BatchStart DEF MCInit
<1>3. BatchInv /\ [MCNext]_all => BatchInv'
  BY PartSteps, BatchStep
<1>4. BatchInv => JobIsHonest
  BY BatchHonest DEF JobIsHonest
<1>5. MCSpec => []JobIsHonest
  BY <1>2, <1>3, <1>4, PTL DEF MCSpec
<1> QED
  BY <1>1, <1>5

-----------------------------------------------------------------------------
(* Patches of a file.                                                        *)

\* The version that a patch opened lies whole under the name of its own backup.
Kept(s) == /\ kind[s].what = "patch"
           /\ before[s] \in FP!Versions
           /\ backup[s] = before[s]

\* Every copy is whole; what is not there yet is None.
Whole ==
  /\ file_p \in FP!Versions
  /\ tmp \in FP!Versions \cup {FP!None}
  /\ fd \in FP!Versions \cup {FP!None}
  /\ \A s \in FP!Steps : backup[s] \in FP!Versions \cup {FP!None}

\* A step that has not begun left nothing, and one that ended keeps its patch.
History ==
  \A s \in FP!Steps :
    /\ status[s] = "none" => kind[s].what = "none"
    /\ status[s] = "running" => at.s = s
    /\ (kind[s].what = "patch" /\ status[s] = "succeeded") => Kept(s)
    /\ kind[s].what = "restore" =>
         LET j == kind[s].of IN
         j \in FP!Steps /\ kind[j].what = "patch" /\ status[j] = "succeeded"

\* The content of a patch is nowhere unless the patch is kept.
ContentKept ==
  \A s \in FP!Steps :
    (\/ file_p = FP!Patched(s) \/ fd = FP!Patched(s) \/ tmp = FP!Patched(s)
     \/ \E j \in FP!Steps : backup[j] = FP!Patched(s))
      => Kept(s)

\* What the running script has done at each of its commands.
Progress ==
  at # FP!Idle =>
    LET s == at.s IN
    /\ s \in FP!Steps /\ kind[s].what \in {"patch", "restore"}
    /\ status[s] \in {"running", "unknown"}
    /\ at.pc = "open" => before[s] = FP!None
    /\ at.pc # "open" => fd = before[s] /\ before[s] \in FP!Versions
    /\ at.pc \in {"save", "keep", "write", "diff"} => kind[s].what = "patch"
    /\ (at.pc = "keep" /\ tmp # FP!None) => tmp = fd
    /\ (kind[s].what = "patch" /\ at.pc \notin {"open", "save", "keep"}) => Kept(s)
    /\ (kind[s].what = "restore" /\ at.pc = "install" /\ tmp # FP!None) =>
         tmp = before[kind[s].of]
    /\ (kind[s].what = "restore" /\ at.pc = "exit") =>
         file_p \in {before[kind[s].of]} \cup FP!Others

\* Nothing was opened for a step that has not begun.
Fresh == \A s \in FP!Steps : status[s] = "none" => before[s] = FP!None

PatchInv == FP!TypeOK /\ Whole /\ History /\ ContentKept /\ Progress /\ Fresh

\* The versions are told apart, and none of them is a part of a file or no file.
LEMMA Versioned ==
  /\ \A s, t \in FP!Steps : FP!Patched(s) = FP!Patched(t) => s = t
  /\ \A s \in FP!Steps : FP!Patched(s) \in FP!Versions /\ FP!Patched(s) # FP!First
                      /\ FP!Patched(s) \notin FP!Others
  /\ FP!First \in FP!Versions /\ FP!Others \subseteq FP!Versions
  /\ FP!None \notin FP!Versions /\ FP!Torn \notin FP!Versions
<1>1. /\ \A s, t \in FP!Steps : FP!Patched(s) = FP!Patched(t) => s = t
      /\ \A s \in FP!Steps : FP!Patched(s) # FP!First
      /\ FP!First \in FP!Versions /\ FP!Others \subseteq FP!Versions
      /\ \A s \in FP!Steps : FP!Patched(s) \in FP!Versions
  BY DEF FP!Patched, FP!Copy, FP!First, FP!Versions
<1>2. \A s \in FP!Steps : FP!Patched(s) \notin FP!Others
  BY DEF FP!Patched, FP!Copy, FP!Others, FP!Other
<1>3. FP!None \notin FP!Versions /\ FP!Torn \notin FP!Versions
  BY DEF FP!None, FP!Torn, FP!Copy, FP!Versions, FP!First, FP!Patched, FP!Others, FP!Other
<1> QED
  BY <1>1, <1>2, <1>3

\* The kinds of steps; a running step is one of the Run's.
LEMMA KindsTyped ==
  /\ \A k \in FP!Kinds : k.what \in {"none", "patch", "restore"}
  /\ \A k \in FP!Kinds : k.what = "restore" => k.of \in FP!Steps
  /\ FP!Kind("patch", 0) \in FP!Kinds /\ FP!Kind("none", 0) \in FP!Kinds
  /\ FP!Kind("patch", 0).what = "patch" /\ FP!Kind("none", 0).what = "none"
  /\ \A j \in FP!Steps : /\ FP!Kind("restore", j) \in FP!Kinds
                       /\ FP!Kind("restore", j).what = "restore"
                       /\ FP!Kind("restore", j).of = j
<1>1. /\ \A w, j : FP!Kind(w, j).what = w /\ FP!Kind(w, j).of = j
      /\ FP!Kind("patch", 0) \in FP!Kinds /\ FP!Kind("none", 0) \in FP!Kinds
      /\ \A j \in FP!Steps : FP!Kind("restore", j) \in FP!Kinds
  BY DEF FP!Kinds, FP!Kind
<1>2. ASSUME NEW k \in FP!Kinds
      PROVE  \/ k = FP!Kind("none", 0) \/ k = FP!Kind("patch", 0)
             \/ \E j \in FP!Steps : k = FP!Kind("restore", j)
  BY DEF FP!Kinds
<1> QED
  BY <1>1, <1>2

LEMMA PatchStart == FP!Init => PatchInv
<1> SUFFICES ASSUME FP!Init PROVE PatchInv
  OBVIOUS
<1>1. FP!TypeOK
  BY HostsAssumption, Versioned, KindsTyped DEF FP!Init, FP!TypeOK, FP!Copies, FP!Statuses,
                        FP!FilePatchAssumption
<1>2. Whole /\ History /\ ContentKept /\ Progress /\ Fresh
  BY Versioned, KindsTyped DEF FP!Init, Whole, History, ContentKept, Progress, Fresh, Kept
<1> QED
  BY <1>1, <1>2 DEF PatchInv

LEMMA PatchStep == PatchInv /\ [FP!Next]_(FP!vars) => PatchInv'
<1> SUFFICES ASSUME PatchInv, [FP!Next]_(FP!vars) PROVE PatchInv'
  OBVIOUS
<1>0. 0 \notin FP!Steps
  BY HostsAssumption DEF FP!Steps, FP!FilePatchAssumption
<1> USE <1>0 DEF PatchInv, FP!TypeOK, FP!Idle, FP!Commands, FP!Statuses, FP!Goto, FP!s0, FP!Runs,
        FP!Recorded, FP!Patches, FP!patch_backup_path
<1>1. ASSUME NEW s \in FP!Steps, FP!Start(s) PROVE PatchInv'
  <2>1. FP!TypeOK'
    BY <1>1, Versioned, KindsTyped DEF FP!Start, FP!MayRestore, FP!Copies, Whole, Progress
  <2>2. Whole'
    BY <1>1, Versioned DEF FP!Start, FP!MayRestore, Whole, Progress
  <2>3. History'
    BY <1>1, Versioned, KindsTyped DEF FP!Start, FP!MayRestore, History, Progress, Kept
  <2>4. ContentKept'
    <3>1. ~Kept(s) /\ \A x \in FP!Steps : x # s /\ Kept(x) => Kept(x)'
      BY <1>1 DEF FP!Start, History, Kept
    <3>2. file_p' = file_p /\ fd' = FP!None /\ tmp' = FP!None /\ backup' = backup
      BY <1>1 DEF FP!Start
    <3> QED
      BY <3>1, <3>2, Versioned DEF ContentKept
  <2>5. Progress'
    <3>1. at' = [s |-> s, pc |-> "open"] /\ status'[s] = "running"
      BY <1>1 DEF FP!Start
    <3>2. before'[s] = FP!None /\ kind'[s].what \in {"patch", "restore"}
      BY <1>1, KindsTyped DEF FP!Start, Fresh
    <3> QED
      BY <3>1, <3>2 DEF Progress
  <2>6. Fresh'
    BY <1>1 DEF FP!Start, FP!MayRestore, Fresh, Progress
  <2> QED
    BY <2>1, <2>2, <2>3, <2>4, <2>5, <2>6 DEF PatchInv
<1>2. CASE FP!Open
  <2>1. FP!TypeOK'
    BY <1>2, Versioned, KindsTyped DEF FP!Open, FP!AfterOpen, FP!Copies, Whole, Progress
  <2>2. Whole'
    BY <1>2, Versioned DEF FP!Open, FP!AfterOpen, Whole, Progress
  <2>3. History'
    BY <1>2, Versioned, KindsTyped DEF FP!Open, FP!AfterOpen, History, Progress, Kept
  <2>4. ContentKept'
    BY <1>2, Versioned DEF FP!Open, FP!AfterOpen, ContentKept, Whole, Progress, Kept
  <2>5. Progress'
    BY <1>2, Versioned, KindsTyped DEF FP!Open, FP!AfterOpen, Progress, History, Whole, Kept
  <2>6. Fresh'
    BY <1>2 DEF FP!Open, FP!AfterOpen, Fresh, Progress
  <2> QED
    BY <2>1, <2>2, <2>3, <2>4, <2>5, <2>6 DEF PatchInv
<1>3. CASE FP!Save
  <2>1. FP!TypeOK'
    BY <1>3, Versioned, KindsTyped DEF FP!Save, FP!Copies, Whole, Progress
  <2>2. Whole'
    BY <1>3, Versioned DEF FP!Save, Whole, Progress
  <2>3. History'
    BY <1>3, Versioned, KindsTyped DEF FP!Save, History, Progress, Kept
  <2>4. ContentKept'
    BY <1>3, Versioned DEF FP!Save, ContentKept, Whole, Progress, Kept
  <2>5. Progress'
    BY <1>3, Versioned, KindsTyped DEF FP!Save, Progress, History, Whole, Kept
  <2>6. Fresh'
    BY <1>3 DEF FP!Save, Fresh, Progress
  <2> QED
    BY <2>1, <2>2, <2>3, <2>4, <2>5, <2>6 DEF PatchInv
<1>4. CASE FP!Keep
  <2>1. FP!TypeOK'
    BY <1>4, Versioned, KindsTyped DEF FP!Keep, FP!Copies, Whole, Progress
  <2>2. Whole'
    BY <1>4, Versioned DEF FP!Keep, Whole, Progress
  <2>3. History'
    BY <1>4, Versioned, KindsTyped DEF FP!Keep, History, Progress, Kept
  <2>4. ContentKept'
    BY <1>4, Versioned DEF FP!Keep, ContentKept, Whole, Progress, Kept
  <2>5. Progress'
    BY <1>4, Versioned, KindsTyped DEF FP!Keep, Progress, History, Whole, Kept
  <2>6. Fresh'
    BY <1>4 DEF FP!Keep, Fresh, Progress
  <2> QED
    BY <2>1, <2>2, <2>3, <2>4, <2>5, <2>6 DEF PatchInv
<1>5. CASE FP!CopyIn
  <2>0. tmp' \in FP!Versions /\ tmp' \in {fd} \cup {backup[j] : j \in FP!Steps}
    <3>1. tmp' # FP!None
          /\ tmp' = IF FP!Patches THEN fd ELSE backup[kind[at.s].of]
      BY <1>5 DEF FP!CopyIn, FP!AfterCopy, FP!Source
    <3>2. CASE FP!Patches
      BY <3>1, <3>2 DEF Whole
    <3>3. CASE ~FP!Patches
      <4>1. kind[at.s].of \in FP!Steps
        BY <1>5, <3>3 DEF FP!CopyIn, FP!AfterCopy, FP!Source, Progress, History
      <4> QED
        BY <3>1, <3>3, <4>1 DEF Whole
    <3> QED
      BY <3>2, <3>3
  <2>1. FP!TypeOK'
    BY <1>5, <2>0 DEF FP!CopyIn, FP!AfterCopy, FP!Source, FP!Copies
  <2>2. Whole'
    BY <1>5, <2>0 DEF FP!CopyIn, FP!AfterCopy, FP!Source, Whole
  <2>3. History'
    BY <1>5, Versioned, KindsTyped DEF FP!CopyIn, FP!AfterCopy, FP!Source, History,
                        Progress, Kept
  <2>4. ContentKept'
    BY <1>5, <2>0 DEF FP!CopyIn, FP!AfterCopy, FP!Source, ContentKept, Kept
  <2>5. Progress'
    BY <1>5, Versioned, KindsTyped DEF FP!CopyIn, FP!AfterCopy, FP!Source, Progress,
                        History, Whole, Kept
  <2>6. Fresh'
    BY <1>5 DEF FP!CopyIn, FP!AfterCopy, FP!Source, Fresh, Progress
  <2> QED
    BY <2>1, <2>2, <2>3, <2>4, <2>5, <2>6 DEF PatchInv
<1>6. CASE FP!Write
  <2>1. FP!TypeOK'
    BY <1>6, Versioned, KindsTyped DEF FP!Write, FP!Copies, Whole, Progress
  <2>2. Whole'
    BY <1>6, Versioned DEF FP!Write, Whole, Progress
  <2>3. History'
    BY <1>6, Versioned, KindsTyped DEF FP!Write, History, Progress, Kept
  <2>4. ContentKept'
    BY <1>6, Versioned DEF FP!Write, ContentKept, Whole, Progress, Kept
  <2>5. Progress'
    BY <1>6, Versioned, KindsTyped DEF FP!Write, Progress, History, Whole, Kept
  <2>6. Fresh'
    BY <1>6 DEF FP!Write, Fresh, Progress
  <2> QED
    BY <2>1, <2>2, <2>3, <2>4, <2>5, <2>6 DEF PatchInv
<1>7. CASE FP!Diff
  <2>1. FP!TypeOK'
    BY <1>7, Versioned, KindsTyped DEF FP!Diff, FP!Copies, Whole, Progress
  <2>2. Whole'
    BY <1>7, Versioned DEF FP!Diff, Whole, Progress
  <2>3. History'
    BY <1>7, Versioned, KindsTyped DEF FP!Diff, History, Progress, Kept
  <2>4. ContentKept'
    BY <1>7, Versioned DEF FP!Diff, ContentKept, Whole, Progress, Kept
  <2>5. Progress'
    BY <1>7, Versioned, KindsTyped DEF FP!Diff, Progress, History, Whole, Kept
  <2>6. Fresh'
    BY <1>7 DEF FP!Diff, Fresh, Progress
  <2> QED
    BY <2>1, <2>2, <2>3, <2>4, <2>5, <2>6 DEF PatchInv
<1>8. CASE FP!Install
  <2>1. FP!TypeOK'
    BY <1>8, Versioned, KindsTyped DEF FP!Install, FP!Copies, Whole, Progress
  <2>2. Whole'
    BY <1>8, Versioned DEF FP!Install, Whole, Progress
  <2>3. History'
    BY <1>8, Versioned, KindsTyped DEF FP!Install, History, Progress, Kept
  <2>4. ContentKept'
    BY <1>8, Versioned DEF FP!Install, ContentKept, Whole, Progress, Kept
  <2>5. Progress'
    BY <1>8, Versioned, KindsTyped DEF FP!Install, Progress, History, Whole, Kept
  <2>6. Fresh'
    BY <1>8 DEF FP!Install, Fresh, Progress
  <2> QED
    BY <2>1, <2>2, <2>3, <2>4, <2>5, <2>6 DEF PatchInv
<1>9. CASE FP!Exit
  <2>1. FP!TypeOK'
    BY <1>9, Versioned, KindsTyped DEF FP!Exit, FP!Copies, Whole, Progress
  <2>2. Whole'
    BY <1>9, Versioned DEF FP!Exit, Whole, Progress
  <2>3. History'
    BY <1>9, Versioned, KindsTyped DEF FP!Exit, History, Progress, Kept
  <2>4. ContentKept'
    BY <1>9, Versioned DEF FP!Exit, ContentKept, Whole, Progress, Kept
  <2>5. Progress'
    BY <1>9, Versioned, KindsTyped DEF FP!Exit, Progress, History, Whole, Kept
  <2>6. Fresh'
    BY <1>9 DEF FP!Exit, Fresh, Progress
  <2> QED
    BY <2>1, <2>2, <2>3, <2>4, <2>5, <2>6 DEF PatchInv
<1>10. CASE FP!CommandFails
  <2>1. FP!TypeOK'
    BY <1>10, Versioned, KindsTyped DEF FP!CommandFails, FP!Copies, Whole, Progress
  <2>2. Whole'
    BY <1>10, Versioned DEF FP!CommandFails, Whole, Progress
  <2>3. History'
    BY <1>10, Versioned, KindsTyped DEF FP!CommandFails, History, Progress, Kept
  <2>4. ContentKept'
    BY <1>10, Versioned DEF FP!CommandFails, ContentKept, Whole, Progress, Kept
  <2>5. Progress'
    BY <1>10, Versioned, KindsTyped DEF FP!CommandFails, Progress, History, Whole, Kept
  <2>6. Fresh'
    BY <1>10 DEF FP!CommandFails, Fresh, Progress
  <2> QED
    BY <2>1, <2>2, <2>3, <2>4, <2>5, <2>6 DEF PatchInv
<1>11. CASE FP!Stop
  <2>1. FP!TypeOK'
    BY <1>11, Versioned, KindsTyped DEF FP!Stop, FP!Copies, Whole, Progress
  <2>2. Whole'
    BY <1>11, Versioned DEF FP!Stop, Whole, Progress
  <2>3. History'
    BY <1>11, Versioned, KindsTyped DEF FP!Stop, History, Progress, Kept
  <2>4. ContentKept'
    BY <1>11, Versioned DEF FP!Stop, ContentKept, Whole, Progress, Kept
  <2>5. Progress'
    BY <1>11, Versioned, KindsTyped DEF FP!Stop, Progress, History, Whole, Kept
  <2>6. Fresh'
    BY <1>11 DEF FP!Stop, Fresh, Progress
  <2> QED
    BY <2>1, <2>2, <2>3, <2>4, <2>5, <2>6 DEF PatchInv
<1>12. CASE FP!Edit
  <2>0. file_p' \in FP!Others /\ edits' \in 0 .. MaxEdits
    BY HostsAssumption, <1>12 DEF FP!Edit, FP!Others, FP!FilePatchAssumption
  <2>1. FP!TypeOK'
    BY <1>12, <2>0, Versioned, KindsTyped DEF FP!Edit, FP!Copies, Whole, Progress
  <2>2. Whole'
    BY <1>12, <2>0, Versioned DEF FP!Edit, Whole, Progress
  <2>3. History'
    BY <1>12, <2>0, Versioned, KindsTyped DEF FP!Edit, History, Progress, Kept
  <2>4. ContentKept'
    BY <1>12, <2>0, Versioned DEF FP!Edit, ContentKept, Whole, Progress, Kept
  <2>5. Progress'
    BY <1>12, <2>0, Versioned, KindsTyped DEF FP!Edit, Progress, History, Whole, Kept
  <2>6. Fresh'
    BY <1>12 DEF FP!Edit, Fresh, Progress
  <2> QED
    BY <2>1, <2>2, <2>3, <2>4, <2>5, <2>6 DEF PatchInv
<1>13. CASE UNCHANGED FP!vars
  BY <1>13 DEF FP!vars, Whole, History, ContentKept, Progress, Fresh, Kept
<1> QED
  BY <1>1, <1>2, <1>3, <1>4, <1>5, <1>6, <1>7, <1>8, <1>9, <1>10, <1>11, <1>12, <1>13
     DEF FP!Next, FP!Script, FP!Ended

\* Only the exit of its own script records that a step succeeded.
LEMMA SuccessIsExit ==
  ASSUME PatchInv, [FP!Next]_(FP!vars), NEW s \in FP!Steps,
         status[s] = "running", status'[s] = "succeeded"
  PROVE  at # FP!Idle /\ at.s = s /\ at.pc = "exit"
<1>1. at.s = s /\ at # FP!Idle
  BY DEF PatchInv, History, FP!Idle, FP!Steps
<1>2. status' # status
  OBVIOUS
<1>3. ASSUME NEW r \in FP!Steps, FP!Start(r) PROVE FALSE
  BY <1>1, <1>3 DEF FP!Start
<1>4. FP!Exit
  BY <1>1, <1>2, <1>3
     DEF PatchInv, FP!TypeOK, FP!Next, FP!Script, FP!Ended, FP!vars, FP!Open, FP!AfterOpen,
         FP!Save, FP!Keep, FP!CopyIn, FP!AfterCopy, FP!Source, FP!Write, FP!Diff,
         FP!Install, FP!CommandFails, FP!Stop, FP!Edit, FP!Recorded, FP!s0
<1> QED
  BY <1>1, <1>4 DEF FP!Exit, FP!Runs

\* However many steps a Run has, wherever a script is cut off and whatever others
\* put in place of the file: the path always names a whole version, a patched
\* file's earlier version is kept, each patch that succeeded can be taken back,
\* and a restore gives back what its patch opened (build_file_patch_command,
\* build_file_restore_command).
THEOREM PatchesAreSafe ==
  (FP!Spec => FP!PatchIsSafe) /\ (MCSpec => PatchIsSafe)
<1> DEFINE Back == \A s \in FP!Steps :
             (kind[s].what = "restore" /\ status[s] = "running"
              /\ status'[s] = "succeeded")
               => file_p \in {before[kind[s].of]} \cup FP!Others
<1>1. PatchInv => FP!FileIsWhole /\ FP!PatchedMeansKept /\ FP!SuccessIsRecoverable
  <2> SUFFICES ASSUME PatchInv
               PROVE  FP!FileIsWhole /\ FP!PatchedMeansKept /\ FP!SuccessIsRecoverable
    OBVIOUS
  <2>1. FP!FileIsWhole
    BY Versioned DEF PatchInv, Whole, FP!FileIsWhole
  <2>2. FP!PatchedMeansKept
    BY DEF PatchInv, ContentKept, Kept, FP!PatchedMeansKept, FP!patch_backup_path
  <2>3. FP!SuccessIsRecoverable
    BY DEF PatchInv, History, Kept, FP!SuccessIsRecoverable, FP!patch_backup_path
  <2> QED
    BY <2>1, <2>2, <2>3
<1>2. PatchInv /\ [FP!Next]_(FP!vars) => [Back]_(FP!vars)
  BY SuccessIsExit DEF PatchInv, Progress
<1>3. FP!Spec => [](FP!FileIsWhole /\ FP!PatchedMeansKept /\ FP!SuccessIsRecoverable)
  BY <1>1, PatchStart, PatchStep, PTL DEF FP!Spec
<1>4. FP!Spec => FP!RestoreGivesBack
  BY <1>2, PatchStart, PatchStep, PTL DEF FP!Spec, FP!RestoreGivesBack
<1>5. MCInit => PatchInv
  BY PatchStart DEF MCInit
<1>6. PatchInv /\ [MCNext]_all => PatchInv'
  BY PartSteps, PatchStep
<1>7. MCSpec => [](FP!FileIsWhole /\ FP!PatchedMeansKept /\ FP!SuccessIsRecoverable)
  BY <1>1, <1>5, <1>6, PTL DEF MCSpec
<1>8. PatchInv /\ [MCNext]_all => [Back]_(FP!vars)
  BY <1>2, PartSteps
<1>9. MCSpec => FP!RestoreGivesBack
  BY <1>5, <1>6, <1>8, PTL DEF MCSpec, FP!RestoreGivesBack
<1> QED
  BY <1>3, <1>4, <1>7, <1>9, PTL DEF FP!PatchIsSafe, PatchIsSafe

-----------------------------------------------------------------------------
(* Types.                                                                  *)

LEMMA TerminalTyped ==
  /\ WT!Init => WT!TypeOK
  /\ WT!TypeOK /\ [WT!Next]_(WT!vars) => WT!TypeOK'
<1>0. MaxInbox \in Nat /\ MaxOutages \in Nat
  BY HostsAssumption DEF WT!TerminalAssumption
<1>1. WT!Init => WT!TypeOK
  <2> SUFFICES ASSUME WT!Init PROVE WT!TypeOK
    OBVIOUS
  <2>1. outages \in 0 .. MaxOutages /\ inbox \in 0 .. MaxInbox /\ late_t \in 0 .. 2
    BY <1>0 DEF WT!Init
  <2>2. /\ token \in {"full", "low", "gone"} /\ redis \in BOOLEAN
        /\ peer_t \in {"here", "silent", "left"} /\ ws \in {"open", "closed"} /\ idle \in BOOLEAN
        /\ closing \in BOOLEAN
    BY DEF WT!Init
  <2>3. /\ reader \in {"handshake", "renew", "creds", "admit", "connect", "refuse", "read", "send",
                       "join", "done"} \cup WT!CloseSteps
        /\ pump \in {"none", "poll", "send", "done"} \cup WT!CloseSteps
        /\ watch \in {"none", "sleep", "check", "renew", "done"}
        /\ chan \in {"none", "open", "closed", "dropped"}
        /\ trans \in {"none", "open", "closed", "dropped"}
    BY DEF WT!Init
  <2> QED
    BY <2>1, <2>2, <2>3 DEF WT!TypeOK
<1> SUFFICES ASSUME WT!TypeOK, [WT!Next]_(WT!vars) PROVE WT!TypeOK'
  BY <1>1
<1> USE <1>0 DEF WT!TypeOK, WT!session, WT!browser, WT!ssh, WT!CloseSteps
<1>2. CASE WT!Handshake \/ WT!RenewAndWatch \/ WT!Credentials
  BY <1>2 DEF WT!Handshake, WT!RenewAndWatch, WT!Credentials, WT!Prolonged
<1>3. CASE WT!Admit \/ WT!Connect \/ WT!Refuse
  BY <1>3 DEF WT!Admit, WT!Connect, WT!Refuse, WT!Verdicts
<1>4. CASE WT!ReaderReceives \/ WT!ReaderStops \/ WT!ReaderForwards \/ WT!ReaderReturns
  <2>1. CASE WT!ReaderReceives
    <3>1. inbox \in 0 .. MaxInbox /\ inbox > 0 /\ inbox' = inbox - 1
      BY <2>1 DEF WT!ReaderReceives
    <3>2. inbox' \in 0 .. MaxInbox
      BY <3>1, <1>0
    <3>3. /\ idle' = FALSE /\ reader' = "send"
          /\ UNCHANGED <<token, redis, outages, peer_t, ws, pump, watch, chan, trans, closing, late_t>>
      BY <2>1 DEF WT!ReaderReceives
    <3>4. /\ token' \in {"full", "low", "gone"} /\ redis' \in BOOLEAN /\ outages' \in 0 .. MaxOutages
          /\ peer_t' \in {"here", "silent", "left"} /\ ws' \in {"open", "closed"} /\ idle' \in BOOLEAN
          /\ closing' \in BOOLEAN /\ late_t' \in 0 .. 2
      BY <3>3, Zenon
    <3>5. reader' \in {"handshake", "renew", "creds", "admit", "connect", "refuse", "read", "send",
                      "join", "done"} \cup WT!CloseSteps
      BY <3>3
    <3>6. /\ pump' \in {"none", "poll", "send", "done"} \cup WT!CloseSteps
          /\ watch' \in {"none", "sleep", "check", "renew", "done"}
          /\ chan' \in {"none", "open", "closed", "dropped"}
          /\ trans' \in {"none", "open", "closed", "dropped"}
      BY <3>3, Zenon
    <3> QED
      BY <3>2, <3>4, <3>5, <3>6, Zenon
  <2>2. CASE WT!ReaderStops \/ WT!ReaderReturns
    BY <2>2 DEF WT!ReaderStops, WT!ReaderReturns
  <2>3. CASE WT!ReaderForwards
    BY <2>3 DEF WT!ReaderForwards
  <2> QED
    BY <1>4, <2>1, <2>2, <2>3
<1>5. CASE WT!PumpPolls \/ WT!PumpSends
  BY <1>5 DEF WT!PumpPolls, WT!PumpSends
<1>6. ASSUME NEW g \in {"reader", "pump"}, WT!Close(g) PROVE WT!TypeOK'
  BY <1>6 DEF WT!Close, WT!CloseBegins, WT!CloseChannel, WT!CloseTransport, WT!CloseSocket,
     WT!Place, WT!Goes, WT!After
<1>7. CASE WT!WatchStep
  BY <1>7 DEF WT!WatchStep, WT!WatchWakes, WT!WatchChecks, WT!WatchRenews, WT!Prolonged
<1>8. CASE WT!Around
  <2>1. CASE WT!Logout \/ WT!OtherRequest
    BY <2>1 DEF WT!Logout, WT!OtherRequest, WT!Prolonged
  <2>2. CASE WT!RedisFails
    <3>1. outages \in 0 .. MaxOutages /\ outages < MaxOutages /\ outages' = outages + 1
      BY <2>2 DEF WT!RedisFails
    <3>2. outages' \in 0 .. MaxOutages
      BY <3>1, <1>0
    <3>3. /\ redis' = FALSE
          /\ UNCHANGED <<token, peer_t, inbox, ws, idle, reader, pump, watch, chan, trans, closing,
                        late_t>>
      BY <2>2 DEF WT!RedisFails
    <3>4. /\ token' \in {"full", "low", "gone"} /\ redis' \in BOOLEAN /\ inbox' \in 0 .. MaxInbox
          /\ peer_t' \in {"here", "silent", "left"} /\ ws' \in {"open", "closed"} /\ idle' \in BOOLEAN
          /\ closing' \in BOOLEAN /\ late_t' \in 0 .. 2
      BY <3>3, Zenon
    <3>5. reader' \in {"handshake", "renew", "creds", "admit", "connect", "refuse", "read", "send",
                      "join", "done"} \cup WT!CloseSteps
      BY <3>3, Zenon
    <3>6. /\ pump' \in {"none", "poll", "send", "done"} \cup WT!CloseSteps
          /\ watch' \in {"none", "sleep", "check", "renew", "done"}
          /\ chan' \in {"none", "open", "closed", "dropped"}
          /\ trans' \in {"none", "open", "closed", "dropped"}
      BY <3>3, Zenon
    <3> QED
      BY <3>2, <3>4, <3>5, <3>6, Zenon
  <2>3. CASE WT!Types
    BY <2>3 DEF WT!Types
  <2>4. CASE WT!BrowserGoes \/ WT!HostEnds
    BY <2>4 DEF WT!BrowserGoes, WT!HostEnds
  <2> QED
    BY <1>8, <2>1, <2>2, <2>3, <2>4 DEF WT!Around
<1>9. CASE WT!Age \/ WT!IdlePasses \/ WT!RedisReturns
  BY <1>9 DEF WT!Age, WT!IdlePasses, WT!RedisReturns
<1>10. CASE UNCHANGED WT!vars
  BY <1>10 DEF WT!vars
<1> QED
  BY <1>2, <1>3, <1>4, <1>5, <1>6, <1>7, <1>8, <1>9, <1>10
     DEF WT!Next, WT!EntryStep, WT!ReaderStep, WT!PumpStep, WT!Over

\* What TransferInv does not say of the types.
Loads == [f : 0 .. MaxFiles, name : Paths \cup {"-"}, size : Nat, got : Nat]
TransferTyped ==
  /\ bridge \in [Bridges -> {"auth", "loop", "stat", "read", "closed"}]
  /\ peer_f \in [Bridges -> {"here", "left", "lost"}]
  /\ path \in [Bridges -> Names \cup {"-"}] /\ load \in [Bridges -> Loads]
  /\ \A b \in Bridges : bridge[b] = "stat" => load[b].name \in Paths
  /\ due \subseteq [by : Bridges, name : Names]
  /\ Len(len) <= MaxFiles

LEMMA TransferTypes == TransferInv /\ TransferTyped /\ overtold \in BOOLEAN => FT!TypeOK
<1> SUFFICES ASSUME TransferInv, TransferTyped, overtold \in BOOLEAN PROVE FT!TypeOK
  OBVIOUS
<1>1. /\ len \in Seq(Nat) /\ Len(len) \in Nat /\ DOMAIN len = 1 .. Len(len) /\ MaxFiles \in Nat
      /\ Len(len) <= MaxFiles /\ Limit \in Nat
  BY HostsAssumption DEF TransferInv, FilesFit, TransferTyped, FT!TransferAssumption
<1>2. dir \in [FT!Paths -> {0} \cup FT!Files]
  <2>1. 0 .. Len(len) = {0} \cup FT!Files
    BY <1>1 DEF FT!Files
  <2> QED
    BY <2>1 DEF TransferInv, FilesFit, FT!Paths, Paths
<1>3. file_f \in [Bridges -> [f : 0 .. MaxFiles, off : Nat]]
  <2>1. ASSUME NEW b \in Bridges PROVE file_f[b] \in [f : 0 .. MaxFiles, off : Nat]
    <3>1. /\ file_f[b] \in Handle
          /\ file_f[b] = FT!None \/ file_f[b].f \in 1 .. Len(len)
      BY DEF TransferInv, Counting, HeldBy
    <3>2. file_f[b].f \in 0 .. MaxFiles
      BY <1>1, <3>1 DEF FT!None
    <3> QED
      BY <3>1, <3>2 DEF Handle
  <2> QED
    BY <2>1 DEF TransferInv
<1>4. sent_f \in [Bridges -> 0 .. Limit]
  BY <1>1 DEF TransferInv, Counting
<1> QED
  <2>1. /\ bridge \in [Bridges -> {"auth", "loop", "stat", "read", "closed"}]
        /\ peer_f \in [Bridges -> {"here", "left", "lost"}]
        /\ path \in [Bridges -> Names \cup {"-"}] /\ due \subseteq [by : Bridges, name : Names]
    BY DEF TransferTyped
  <2>2. load \in [Bridges -> [f : 0 .. MaxFiles, name : FT!Paths \cup {"-"}, size : Nat, got : Nat]]
    BY DEF TransferTyped, Loads, FT!Paths, Paths
  <2>3. len \in Seq(Nat)
    BY <1>1
  <2> QED
    BY <1>2, <1>3, <1>4, <2>1, <2>2, <2>3, Zenon DEF FT!TypeOK

LEMMA TransferTypedStart == FT!Init => TransferTyped
<1> SUFFICES ASSUME FT!Init PROVE TransferTyped
  OBVIOUS
<1>1. MaxFiles \in Nat /\ Len(len) = 0
  BY HostsAssumption DEF FT!Init, FT!TransferAssumption
<1> QED
  BY <1>1 DEF FT!Init, FT!NoLoad, TransferTyped, Loads

LEMMA TransferTypedStep ==
  ASSUME TransferInv, TransferTyped, [FT!Next]_(FT!vars)
  PROVE  TransferTyped'
<1> USE DEF FT!session, FT!host
<1>0. /\ len \in Seq(Nat) /\ Len(len) \in Nat /\ MaxFiles \in Nat /\ Chunks \subseteq Nat
      /\ dir \in [Paths -> 0 .. Len(len)] /\ Names \subseteq Paths /\ FT!Paths = Paths
      /\ \A f \in 1 .. Len(len) : len[f] \in Nat
      /\ Len(len) <= MaxFiles
  BY HostsAssumption DEF FT!TransferAssumption, TransferInv, FilesFit, TransferTyped,
                        FT!Paths,
     Paths
<1>1. ASSUME NEW b \in Bridges, FT!Goes(b) \/ FT!Asked(b) \/ FT!BrowserGoes(b)
      PROVE  TransferTyped'
  <2>1. CASE FT!Connect(b) \/ FT!BrowserGoes(b) \/ FT!Close(b)
    BY <2>1 DEF FT!Connect, FT!BrowserGoes, FT!Close, TransferTyped
  <2>2. CASE FT!UploadRefused(b) \/ FT!Remove(b) \/ FT!Rename(b)
    BY <2>2 DEF FT!UploadRefused, FT!Remove, FT!Rename, TransferTyped
  <2>3. CASE FT!UploadStart(b)
    <3>1. PICK name \in Names :
            LET new == dir[name] = 0
                f == IF new THEN Len(len) + 1 ELSE dir[name] IN
            /\ f <= MaxFiles /\ path' = [path EXCEPT ![b] = name]
            /\ len' = IF new THEN Append(len, 0) ELSE [len EXCEPT ![f] = 0]
            /\ due' = due \cup {[by |-> b, name |-> name]}
      BY <2>3 DEF FT!UploadStart
    <3>2. Len(len') <= MaxFiles
      BY <1>0, <3>1
    <3>3. UNCHANGED <<bridge, peer_f, load>>
      BY <2>3 DEF FT!UploadStart
    <3> QED
      BY <3>1, <3>2, <3>3 DEF TransferTyped
  <2>4. CASE FT!UploadChunk(b)
    <3>1. /\ file_f[b] # FT!None /\ dir' = dir /\ UNCHANGED <<bridge, peer_f, load>>
          /\ path' \in {path, [path EXCEPT ![b] = "-"]} /\ due' \subseteq due
      BY <2>4 DEF FT!UploadChunk, FT!Finished
    <3>2. \/ \E n \in Chunks : FT!Fits(b, n) /\ FT!Written(b, n)
          \/ UNCHANGED len
      BY <2>4 DEF FT!UploadChunk
    <3>3. Len(len') = Len(len)
      BY <1>0, <3>1, <3>2, WrittenFits
    <3> QED
      BY <3>1, <3>3 DEF TransferTyped
  <2>5. CASE FT!UploadEnd(b)
    BY <2>5 DEF FT!UploadEnd, FT!Finished, TransferTyped
  <2>6. CASE FT!DownloadStat(b)
    <3>1. PICK n \in Paths :
            /\ dir[n] # 0
            /\ load' = [load EXCEPT ![b] = [f |-> 0, name |-> n, size |-> len[dir[n]], got |-> 0]]
      BY <1>0, <2>6 DEF FT!DownloadStat
    <3>2. [f |-> 0, name |-> n, size |-> len[dir[n]], got |-> 0] \in Loads
      BY <1>0, <3>1 DEF Loads
    <3>3. UNCHANGED <<peer_f, path, len, due>> /\ bridge' = [bridge EXCEPT ![b] = "stat"]
      BY <2>6 DEF FT!DownloadStat
    <3> QED
      BY <3>1, <3>2, <3>3 DEF TransferTyped
  <2>7. CASE FT!DownloadOpen(b) \/ FT!DownloadRead(b) \/ FT!DownloadEnd(b)
    <3>1. UNCHANGED <<peer_f, path, len, due>>
      BY <2>7 DEF FT!DownloadOpen, FT!DownloadRead, FT!DownloadEnd
    <3>2. PICK l : l = load[b] /\ l \in Loads /\ (bridge[b] = "stat" => l.name \in Paths)
      BY DEF TransferTyped
    <3>3. \E at_ \in {"loop", "read"}, new \in Loads :
            bridge' = [bridge EXCEPT ![b] = at_] /\ load' = [load EXCEPT ![b] = new]
      <4>1. CASE FT!DownloadOpen(b)
        <5>1. /\ dir[l.name] \in 1 .. Len(len) /\ load' = [load EXCEPT ![b].f = dir[l.name]]
              /\ bridge' = [bridge EXCEPT ![b] = "read"]
          BY <1>0, <3>2, <4>1 DEF FT!DownloadOpen
        <5>2. PICK new : new = [l EXCEPT !.f = dir[l.name]]
          OBVIOUS
        <5>3. load' = [load EXCEPT ![b] = new]
          BY <3>2, <5>1, <5>2 DEF TransferTyped
        <5>4. dir[l.name] \in 0 .. MaxFiles
          BY <1>0, <5>1
        <5>5. new \in Loads
          BY <3>2, <5>2, <5>4 DEF Loads
        <5> QED
          BY <5>1, <5>3, <5>5
      <4>2. CASE FT!DownloadRead(b)
        <5>1. PICK n \in Chunks : load' = [load EXCEPT ![b].got = @ + n]
          BY <4>2 DEF FT!DownloadRead
        <5>2. PICK new : new = [l EXCEPT !.got = l.got + n]
          OBVIOUS
        <5>3. load' = [load EXCEPT ![b] = new]
          BY <3>2, <5>1, <5>2 DEF TransferTyped
        <5>4. l.got + n \in Nat
          BY <1>0, <3>2 DEF Loads
        <5>5. new \in Loads
          BY <3>2, <5>2, <5>4 DEF Loads
        <5>6. bridge' = [bridge EXCEPT ![b] = "read"]
          BY <4>2 DEF FT!DownloadRead, TransferTyped
        <5> QED
          BY <5>3, <5>5, <5>6
      <4>3. CASE FT!DownloadEnd(b)
        <5>1. FT!NoLoad \in Loads
          BY <1>0 DEF FT!NoLoad, Loads
        <5> QED
          BY <4>3, <5>1 DEF FT!DownloadEnd
      <4> QED
        BY <2>7, <4>1, <4>2, <4>3
    <3> QED
      BY <3>1, <3>3 DEF TransferTyped
  <2> QED
    BY <1>1, <2>1, <2>2, <2>3, <2>4, <2>5, <2>6, <2>7 DEF FT!Goes, FT!Asked
<1>2. CASE UNCHANGED FT!vars
  BY <1>2 DEF FT!vars, TransferTyped
<1> QED
  BY <1>1, <1>2 DEF FT!Next, FT!Ended

\* The rows tell of a success or do not.
Told == overtold \in BOOLEAN

LEMMA ToldTyped ==
  /\ FT!Init => overtold \in BOOLEAN
  /\ overtold \in BOOLEAN /\ [FT!Next]_(FT!vars) => overtold' \in BOOLEAN
<1>1. FT!Init => overtold \in BOOLEAN
  BY DEF FT!Init
<1> SUFFICES ASSUME overtold \in BOOLEAN, [FT!Next]_(FT!vars) PROVE overtold' \in BOOLEAN
  BY <1>1
<1>2. ASSUME NEW b \in Bridges, FT!Finished(b) PROVE overtold' \in BOOLEAN
  BY <1>2 DEF FT!Finished
<1>3. ASSUME NEW b \in Bridges, FT!Goes(b) \/ FT!Asked(b) \/ FT!BrowserGoes(b)
      PROVE  overtold' \in BOOLEAN
  <2>1. UNCHANGED overtold \/ FT!Finished(b)
    BY <1>3 DEF FT!Goes, FT!Asked, FT!BrowserGoes, FT!DownloadOpen, FT!DownloadRead,
       FT!DownloadEnd, FT!Close, FT!Connect, FT!UploadRefused, FT!UploadStart, FT!UploadChunk,
       FT!UploadEnd, FT!Remove, FT!Rename, FT!DownloadStat
  <2> QED
    BY <1>2, <2>1
<1> QED
  BY <1>3 DEF FT!Next, FT!Ended, FT!vars

(* Types of the five parts, for any jobs, hosts, bridges, frames and edits.  *)
THEOREM HostsTyped == MCSpec => []AllTypesOK
<1>1. MCInit => TypeOK /\ PatchInv /\ BatchInv /\ WT!TypeOK /\ TransferInv /\ TransferTyped
  BY TypeInit, PatchStart, BatchStart, TerminalTyped, TransferStart,
                        TransferTypedStart DEF MCInit
<1>6. MCInit => Told
  BY ToldTyped DEF MCInit, Told
<1>7. Told /\ [MCNext]_all => Told'
  BY PartSteps, ToldTyped DEF Told
<1>2. TypeOK /\ [MCNext]_all => TypeOK'
  <2>1. ASSUME [MCNext]_all PROVE [Next]_vars
    BY <2>1 DEF MCNext, Turn, all
  <2> QED
    BY <2>1, TypeNext
<1>3. /\ PatchInv /\ [MCNext]_all => PatchInv'
      /\ BatchInv /\ [MCNext]_all => BatchInv'
      /\ WT!TypeOK /\ [MCNext]_all => WT!TypeOK'
  BY PartSteps, PatchStep, BatchStep, TerminalTyped
<1>4. TransferInv /\ TransferTyped /\ [MCNext]_all => (TransferInv /\ TransferTyped)'
  BY PartSteps, TransferStep, TransferTypedStep
<1>5. TypeOK /\ PatchInv /\ BatchInv /\ WT!TypeOK /\ TransferInv /\ TransferTyped
      /\ Told => AllTypesOK
  BY TransferTypes DEF Told, PatchInv, BatchInv, AllTypesOK
<1> QED
  BY <1>1, <1>2, <1>3, <1>4, <1>5, <1>6, <1>7, PTL DEF MCSpec
=============================================================================
