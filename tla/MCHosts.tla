------------------------------ MODULE MCHosts -------------------------------
(* What the server does on hosts: commands of the autonomy worker, patches *)
(* of a file, batch jobs, terminals and file transfers.  They share no       *)
(* state; a behaviour is one of theirs, and the others do not move.          *)
EXTENDS RemoteCommand, FiniteSets

CONSTANTS N, MaxEdits,                            \* FilePatch
          Jobs, Hosts, Name, j1, j2,              \* BatchJob
          MaxInbox, MaxOutages,                   \* WebTerminal
          Bridges, b1, b2, Names, Elsewhere, Limit, Chunks, MaxFiles   \* FileTransfer

VARIABLES part,
  file_p, backup, tmp, fd, at, kind, status, before, edits,
  job, pc_b, host, link_b, late_b, item, row, unwritten, lost, proc, ran, file_b,
  token, redis, outages, peer_t, inbox, ws, idle, reader, pump, watch, chan, trans,
  closing, late_t,
  bridge, peer_f, path, file_f, sent_f, load, dir, len, due, overtold

\* one batch job on two hosts, or two jobs on one
Quiet(k, m) == [kind |-> k, n |-> m, habits |-> {}]
Ask(a, b) == [j \in {j1, j2} |-> IF j = j1 THEN a ELSE b]
OneOrTwo ==
  {Ask(Quiet(k, 2), Quiet("none", 1)) : k \in {"command", "script", "upload"}}
    \cup {Ask([Quiet("script", 2) EXCEPT !.habits = {"errors", "lingers", "detaches", "floods"}],
              Quiet("none", 1))}
    \cup {Ask(Quiet("script", 1), Quiet(k, 1)) : k \in {"script", "upload"}}
    \cup {Ask(Quiet("upload", 1), Quiet("upload", 1))}

FP == INSTANCE FilePatch    WITH file <- file_p
BJ == INSTANCE BatchJob     WITH pc <- pc_b, link <- link_b, late <- late_b,
                                 file <- file_b, Requests <- OneOrTwo
WT == INSTANCE WebTerminal  WITH peer <- peer_t, late <- late_t
FT == INSTANCE FileTransfer WITH peer <- peer_f, file <- file_f, sent <- sent_f

ASSUME HostsAssumption ==
  /\ FP!FilePatchAssumption /\ BJ!BatchAssumption
  /\ WT!TerminalAssumption /\ FT!TransferAssumption

patch    == <<file_p, backup, tmp, fd, at, kind, status, before, edits>>
batch    == <<job, pc_b, host, link_b, late_b, item, row, unwritten, lost, proc, ran, file_b>>
terminal == <<token, redis, outages, peer_t, inbox, ws, idle, reader, pump, watch, chan,
              trans, closing, late_t>>
transfer == <<bridge, peer_f, path, file_f, sent_f, load, dir, len, due, overtold>>
all == <<part, vars, patch, batch, terminal, transfer>>

In(p) == part = p

\* an action of one part is a step in which the others stand still
Turn(command_, batch_, terminal_, transfer_) ==
  /\ UNCHANGED <<part, patch>>
  /\ \/ In("command")  /\ command_  /\ UNCHANGED <<batch, terminal, transfer>>
     \/ In("batch")    /\ batch_    /\ UNCHANGED <<vars, terminal, transfer>>
     \/ In("terminal") /\ terminal_ /\ UNCHANGED <<vars, batch, transfer>>
     \/ In("transfer") /\ transfer_ /\ UNCHANGED <<vars, batch, terminal>>

MCInit ==
  /\ part \in {"command", "patch", "batch", "terminal", "transfer"}
  /\ Init /\ FP!Init /\ FT!Init
  /\ WT!Init /\ (In("terminal") \/ token = "low")
  /\ BJ!Init /\ (In("batch") \/ job = CHOOSE r \in OneOrTwo : TRUE)

MCNext ==
  \/ Turn(Next, BJ!Next, WT!Next, FT!Next)
  \/ In("patch") /\ FP!Next /\ UNCHANGED <<part, vars, batch, terminal, transfer>>

\* The fairness of the parts.  As part never changes, fairness to a turn is
\* fairness to the action of the part that moves; nothing of FilePatch is fair.
MCFairness ==
  /\ WF_all(Turn(Worker,    BJ!Step(j1), WT!EntryStep,    FT!Goes(b1)))
  /\ WF_all(Turn(TimeUp,    BJ!Late(j1), WT!ReaderStep,   FT!Goes(b2)))
  /\ WF_all(Turn(Arrive,    BJ!Step(j2), WT!PumpStep,     FALSE))
  /\ WF_all(Turn(EndOfFile, BJ!Late(j2), WT!WatchStep,    FALSE))
  /\ WF_all(Turn(Host,      FALSE,       WT!Age,          FALSE))
  /\ WF_all(Turn(Reaper,    FALSE,       WT!IdlePasses,   FALSE))
  /\ WF_all(Turn(Script,    FALSE,       WT!RedisReturns, FALSE))

MCSpec == MCInit /\ [][MCNext]_all /\ MCFairness

AllTypesOK == TypeOK /\ FP!TypeOK /\ BJ!TypeOK /\ WT!TypeOK /\ FT!TypeOK

PatchIsSafe       == FP!PatchIsSafe
JobIsHonest       == BJ!JobIsHonest
OneLateInput      == WT!OneLateInput
UploadsKeepLimits == FT!UploadsKeepLimits

\* Each part comes to its end, as CallEnds, QuietJobEnds, TerminalEnds and
\* NothingLeft say of it.
HostWorkSettles ==
  []<>(CASE In("command")  -> Settled
         [] In("batch")    -> BJ!Settled
         [] In("terminal") -> WT!Settled
         [] In("transfer") -> FT!Settled
         [] In("patch")    -> TRUE)
=============================================================================
