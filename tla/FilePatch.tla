----------------------------- MODULE FilePatch -----------------------------
(***************************************************************************)
(* File patches and their restores on one path of a host: the shell scripts*)
(* of src/backend/app/ai/autonomy/actions.py (build_file_patch_command,    *)
(* build_file_restore_command), run one step at a time by the executor.    *)
(*                                                                         *)
(* A script can end before any of its commands: the command fails, the     *)
(* process group is killed, or it is told to stop; its trap then removes   *)
(* the temporary files, but does not exit.  Others replace the file by     *)
(* renaming, as editors and package managers do.                           *)
(***************************************************************************)
EXTENDS Naturals, FiniteSets

CONSTANTS N,          \* how many write steps the Run has
          MaxEdits    \* bound of the checks: replacements by others

FilePatchAssumption == N \in Nat /\ MaxEdits \in Nat

\* the write steps of one Run in their order
Steps == 1..N

\* What a name names: no file, a part of one, or a whole version: the first,
\* what a step's patch makes of it, or what another puts there.
Copy(by, n) == [by |-> by, n |-> n]
None == Copy("none", 0)
Torn == Copy("torn", 0)
First == Copy("first", 0)
Patched(s) == Copy("patch", s)
Other(n) == Copy("other", n)
Others == {Other(n) : n \in 1..MaxEdits}
Versions == {First} \cup {Patched(s) : s \in Steps} \cup Others
Copies == Versions \cup {Torn, None}

\* what a step is: a patch, or the restore of another step's patch
Kind(what, j) == [what |-> what, of |-> j]
Kinds == {Kind(w, 0) : w \in {"none", "patch"}} \cup {Kind("restore", j) : j \in Steps}

VARIABLES
  file,    \* what the path names
  backup,  \* what each managed backup name in the backup directory names
  tmp,     \* the temporary file of the running script
  fd,      \* the file it opened
  at,      \* the step that runs and the command it has reached
  kind,    \* of each step
  status,  \* of each step
  before,  \* the version each patch opened
  edits    \* how often others have replaced the file

vars == <<file, backup, tmp, fd, at, kind, status, before, edits>>

Statuses == {"none", "running", "succeeded", "failed", "unknown"}
Idle == [s |-> 0, pc |-> "idle"]
Commands == {"open", "save", "keep", "copy", "write", "diff", "install", "exit"}

TypeOK ==
  /\ file \in Versions \cup {Torn} /\ tmp \in Copies /\ fd \in Copies
  /\ backup \in [Steps -> Copies] /\ before \in [Steps -> Copies]
  /\ at \in {Idle} \cup [s : Steps, pc : Commands]
  /\ kind \in [Steps -> Kinds]
  /\ status \in [Steps -> Statuses]
  /\ edits \in 0..MaxEdits

Init ==
  /\ file = First /\ tmp = None /\ fd = None /\ at = Idle
  /\ backup = [s \in Steps |-> None] /\ before = [s \in Steps |-> None]
  /\ kind = [s \in Steps |-> Kind("none", 0)] /\ status = [s \in Steps |-> "none"]
  /\ edits = 0

-----------------------------------------------------------------------------
(* The executor                                                            *)

\* patch_backup_path: the token of the name comes from path, Run and step
patch_backup_path(s) == s

\* _validate_restore_source: only the backup of a patch of this Run that
\* succeeded may be restored
MayRestore(j) == kind[j].what = "patch" /\ status[j] = "succeeded"

\* the Run goes on with its next step unless one of them is unknown: no
\* code resolves an unknown write
Start(s) ==
  /\ at = Idle /\ status[s] = "none"
  /\ \A t \in Steps : t < s => status[t] \in {"succeeded", "failed"}
  /\ \E k \in {Kind("patch", 0)} \cup {Kind("restore", j) : j \in {i \in Steps : MayRestore(i)}} :
       kind' = [kind EXCEPT ![s] = k]
  /\ status' = [status EXCEPT ![s] = "running"]
  /\ at' = [s |-> s, pc |-> "open"]
  /\ tmp' = None /\ fd' = None
  /\ UNCHANGED <<file, backup, before, edits>>

Runs(pc) == at.pc = pc
s0 == at.s
Patches == s0 # 0 /\ kind[s0].what = "patch"
Goto(pc) == at' = [at EXCEPT !.pc = pc]

\* build_file_restore_command: a restore makes no backup and writes nothing,
\* it copies the backup it names and installs the copy
AfterOpen == IF Patches THEN "save" ELSE "copy"
AfterCopy == IF Patches THEN "write" ELSE "install"
Source    == IF Patches THEN fd ELSE backup[patch_backup_path(kind[s0].of)]

\* the script ends; its exit status is recorded unless it was stopped before
Recorded(st) ==
  /\ status' = [status EXCEPT ![s0] = IF @ = "running" THEN st ELSE @]
  /\ at' = Idle

-----------------------------------------------------------------------------
(* The scripts                                                             *)

Open ==
  /\ Runs("open")
  /\ fd' = file
  /\ before' = [before EXCEPT ![s0] = file]
  /\ Goto(AfterOpen)
  /\ UNCHANGED <<file, backup, tmp, kind, status, edits>>

\* cp -p of the opened file to a temporary file of the backup directory
Save ==
  /\ Runs("save")
  /\ tmp' = fd
  /\ Goto("keep")
  /\ UNCHANGED <<file, backup, fd, kind, status, before, edits>>

\* mv: the backup has its name
Keep ==
  /\ Runs("keep") /\ tmp # None
  /\ backup' = [backup EXCEPT ![patch_backup_path(s0)] = tmp]
  /\ tmp' = None
  /\ Goto("copy")
  /\ UNCHANGED <<file, fd, kind, status, before, edits>>

\* cp -p to the temporary file beside the path, of the opened file or of the
\* backup a restore names
CopyIn ==
  /\ Runs("copy")
  /\ Source # None /\ tmp' = Source
  /\ Goto(AfterCopy)
  /\ UNCHANGED <<file, backup, fd, kind, status, before, edits>>

InPlace ==   \* mutant: printf into the path itself
  /\ Runs("write")
  /\ file' = Torn /\ tmp' = Patched(s0)
  /\ Goto("diff")
  /\ UNCHANGED <<backup, fd, kind, status, before, edits>>
\* printf into the temporary file, which it makes if a trap has removed it
Write ==
  /\ Runs("write")
  /\ tmp' = Patched(s0)
  /\ Goto("diff")
  /\ UNCHANGED <<file, backup, fd, kind, status, before, edits>>

Diff ==
  /\ Runs("diff") /\ tmp # None
  /\ Goto("install")
  /\ UNCHANGED <<file, backup, tmp, fd, kind, status, before, edits>>

\* mv over the path
Install ==
  /\ Runs("install") /\ tmp # None
  /\ file' = tmp
  /\ tmp' = None
  /\ Goto("exit")
  /\ UNCHANGED <<backup, fd, kind, status, before, edits>>

Exit ==
  /\ Runs("exit")
  /\ Recorded("succeeded")
  /\ UNCHANGED <<file, backup, tmp, fd, kind, before, edits>>

\* set -e: a command fails, a missing file or a full disk among the reasons;
\* what it was writing goes with the trap
CommandFails ==
  /\ at.s # 0 /\ ~Runs("exit")
  /\ Recorded("failed")
  /\ tmp' = None
  /\ UNCHANGED <<file, backup, fd, kind, before, edits>>

\* The script is told to stop, or the connection is lost: whatever became of
\* the write, its outcome is unknown.  The group may be killed where it is;
\* a shell that is told while no command runs cleans up, and goes on.
Stop ==
  /\ at.s # 0 /\ status[s0] = "running"
  /\ status' = [status EXCEPT ![s0] = "unknown"]
  /\ \/ at' = Idle /\ UNCHANGED tmp
     \/ UNCHANGED <<at, tmp>>
     \/ tmp' = None /\ UNCHANGED at
  /\ UNCHANGED <<file, backup, fd, kind, before, edits>>

Edit ==
  /\ edits < MaxEdits
  /\ edits' = edits + 1
  /\ file' = Other(edits + 1)
  /\ UNCHANGED <<backup, tmp, fd, at, kind, status, before>>

-----------------------------------------------------------------------------

Script ==
  Open \/ Save \/ Keep \/ CopyIn \/ Write \/ Diff \/ Install \/ Exit \/ CommandFails

\* the Run is over, or a step of it is unknown
Ended ==
  /\ at = Idle
  /\ \A s \in Steps : status[s] # "none" \/ \E t \in Steps : status[t] = "unknown"
  /\ UNCHANGED vars

Next == Script \/ Stop \/ Edit \/ Ended \/ \E s \in Steps : Start(s)

Spec == Init /\ [][Next]_vars

-----------------------------------------------------------------------------
(* Properties                                                              *)

\* Wherever a script is cut off, the path names a whole version: the one
\* before, the patch, or what others put there (the renames of both scripts).
FileIsWhole == file # Torn

\* What a patch put in the file it did not put there before the version it
\* replaced was kept, whole, under the name of its own backup; and it stays
\* there (patch_backup_path, build_file_patch_command).
PatchedMeansKept ==
  \A s \in Steps :
    file = Patched(s) => /\ before[s] \in Versions
                /\ backup[patch_backup_path(s)] = before[s]

\* Whatever stops, failures and later patches came between, each patch that
\* succeeded can be taken back
\* (ROADMAP.md:233, executor._validate_restore_source).
SuccessIsRecoverable ==
  \A s \in Steps :
    (kind[s].what = "patch" /\ status[s] = "succeeded")
      => backup[patch_backup_path(s)] = before[s] /\ before[s] \in Versions

\* A restore that succeeds put back the very version its patch opened, unless
\* others have replaced it since (build_file_restore_command).
RestoreGivesBack ==
  [][\A s \in Steps :
       (kind[s].what = "restore" /\ status[s] = "running" /\ status'[s] = "succeeded")
         => file \in {before[kind[s].of]} \cup Others]_vars

\* All of this: no patch loses a file or a version of it.
PatchIsSafe ==
  /\ [](FileIsWhole /\ PatchedMeansKept /\ SuccessIsRecoverable)
  /\ RestoreGivesBack
=============================================================================
