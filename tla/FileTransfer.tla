---------------------------- MODULE FileTransfer ----------------------------
(***************************************************************************)
(* File transfers over the web (src/backend/app/ssh/sftp.py, SftpBridge):  *)
(* each browser connection has a bridge that takes one message at a time   *)
(* and calls one host.  The bridges share the host's upload directory and  *)
(* give way to each other at every remote call.                            *)
(*                                                                         *)
(* A file is its length in chunks; names are those left by the sanitising  *)
(* of _sanitize_filename and the sandbox of _safe_sftp_path.               *)
(***************************************************************************)
EXTENDS Naturals, Sequences, FiniteSets

CONSTANTS Bridges,   \* the connections
          Names,     \* the paths of uploads, in SFTP_UPLOAD_DIR
          Elsewhere, \* the host's other paths
          Limit,     \* SFTP_MAX_UPLOAD_SIZE, in chunks
          Chunks,    \* the lengths of a binary frame
          MaxFiles   \* bound of the checks: files ever created

TransferAssumption == Limit \in Nat /\ Chunks \subseteq Nat /\ MaxFiles \in Nat

VARIABLES
  bridge,   \* where each bridge is: "auth", "loop", "stat" and "read" (a
            \* download whose file is not yet, or is, open), "closed"
  peer,     \* the browser: "here", "left" (it closed the socket), "lost"
  path,     \* _upload_remote_path, read only while a handle is open
  file,     \* _upload_file: the open handle, with its offset
  sent,     \* _upload_transferred
  load,     \* the download in progress: its file, size and what was sent
  dir,      \* the host's directory: the file each name stands for
  len,      \* the length of every file there ever was
  due,      \* the uploads that opened, and so emptied, a file no row tells of
  overtold  \* a row told of a success with more than was written

Paths == Names \cup Elsewhere

vars == <<bridge, peer, path, file, sent, load, dir, len, due, overtold>>
session == <<path, file, sent>>
host == <<dir, len>>

None == [f |-> 0, off |-> 0]
NoLoad == [f |-> 0, name |-> "-", size |-> 0, got |-> 0]
Files == DOMAIN len

TypeOK ==
  /\ bridge \in [Bridges -> {"auth", "loop", "stat", "read", "closed"}]
  /\ peer \in [Bridges -> {"here", "left", "lost"}]
  /\ path \in [Bridges -> Names \cup {"-"}]
  /\ file \in [Bridges -> [f : 0..MaxFiles, off : Nat]]
  /\ sent \in [Bridges -> 0..Limit]
  /\ load \in [Bridges -> [f : 0..MaxFiles, name : Paths \cup {"-"},
                       size : Nat, got : Nat]]
  /\ dir \in [Paths -> {0} \cup Files] /\ len \in Seq(Nat)
  /\ due \subseteq [by : Bridges, name : Names]
  /\ overtold \in BOOLEAN

Init ==
  /\ bridge = [b \in Bridges |-> "auth"] /\ peer = [b \in Bridges |-> "here"]
  /\ path = [b \in Bridges |-> "-"] /\ file = [b \in Bridges |-> None]
  /\ sent = [b \in Bridges |-> 0] /\ load = [b \in Bridges |-> NoLoad]
  /\ dir = [n \in Paths |-> 0] /\ len = <<>>
  /\ due = {} /\ overtold = FALSE

-----------------------------------------------------------------------------
(* The connection                                                          *)

\* sftp_connect: the credentials, the permission check and the connection to
\* the host; every refusal closes the socket.  This receive has no timeout.
Connect(b) ==
  /\ bridge[b] = "auth" /\ peer[b] # "lost"
  /\ \E at \in {"loop", "closed"} :
       /\ peer[b] = "left" => at = "closed"
       /\ bridge' = [bridge EXCEPT ![b] = at]
  /\ UNCHANGED <<peer, session, load, host, due, overtold>>

\* The browser closes the socket, or vanishes without a word.
BrowserGoes(b) ==
  /\ peer[b] = "here" /\ bridge[b] # "closed"
  /\ \E how \in {"left", "lost"} : peer' = [peer EXCEPT ![b] = how]
  /\ UNCHANGED <<bridge, session, load, host, due, overtold>>

\* run and _close: the browser has left, or nothing came for SFTP_IDLE_TIMEOUT.
\* An upload that is still open is closed without a word.
Close(b) ==
  /\ bridge[b] = "loop"
  /\ bridge' = [bridge EXCEPT ![b] = "closed"]
  /\ file' = [file EXCEPT ![b] = None]
  /\ path' = [path EXCEPT ![b] = "-"]
  /\ UNCHANGED <<peer, sent, load, host, due, overtold>>

\* a message of the browser is being handled
Handles(b) == bridge[b] = "loop" /\ peer[b] = "here"

-----------------------------------------------------------------------------
(* Uploads                                                                 *)

\* A start that is refused, or whose open fails, leaves an upload in progress
\* open; unless the name itself was refused it has changed the path already.
UploadRefused(b) ==
  /\ Handles(b) /\ file[b] # None
  /\ \E name \in Names : path' = [path EXCEPT ![b] = name]
  /\ UNCHANGED <<bridge, peer, file, sent, load, host, due, overtold>>

\* _upload_transferred starts again with every file
KeepCount(b) == UNCHANGED sent   \* mutant: counts on from the upload before
ResetCount(b) == sent' = [sent EXCEPT ![b] = 0]

\* sftp.open(path, 'wb') creates or empties the file.  A handle that was open
\* is dropped, and closed by the collector.
UploadStart(b) ==
  /\ Handles(b)
  /\ \E name \in Names :
       LET new == dir[name] = 0
           f == IF new THEN Len(len) + 1 ELSE dir[name] IN
       /\ f <= MaxFiles
       /\ path' = [path EXCEPT ![b] = name]
       /\ file' = [file EXCEPT ![b] = [f |-> f, off |-> 0]]
       /\ len' = IF new THEN Append(len, 0) ELSE [len EXCEPT ![f] = 0]
       /\ dir' = [dir EXCEPT ![name] = f]
       /\ due' = due \cup {[by |-> b, name |-> name]}
  /\ ResetCount(b)
  /\ UNCHANGED <<bridge, peer, load, overtold>>

\* _finish_upload, whoever calls it: the handle is closed, and the close alone
\* says whether the row tells of a success.
Finished(b) ==
  /\ \E ok \in BOOLEAN :
       overtold' = (overtold \/ (ok /\ sent[b] > file[b].off))
  /\ due' = due \ {[by |-> b, name |-> path[b]]}
  /\ file' = [file EXCEPT ![b] = None]
  /\ path' = [path EXCEPT ![b] = "-"]

\* the bytes land at the handle's own offset, whoever else writes the file
Written(b, n) ==
  LET end == file[b].off + n IN
  len' = [len EXCEPT ![file[b].f] = IF @ > end THEN @ ELSE end]

\* the running total stays within the limit
Fits(b, n) == sent[b] + n <= Limit

\* _handle_upload_chunk within the limit; a write that fails has written its
\* chunk or not, and ends the upload.
UploadChunk(b) ==
  /\ Handles(b) /\ file[b] # None
  /\ \E n \in Chunks :
       /\ Fits(b, n)
       /\ \/ /\ Written(b, n)
             /\ file' = [file EXCEPT ![b].off = @ + n]
             /\ sent' = [sent EXCEPT ![b] = @ + n]
             /\ UNCHANGED <<path, due, overtold>>
          \/ /\ Written(b, n) \/ UNCHANGED len
             /\ Finished(b)
             /\ UNCHANGED sent
  /\ UNCHANGED <<bridge, peer, load, dir>>

\* a chunk over the limit, or upload_end: the upload is finished either way
UploadEnd(b) ==
  /\ Handles(b) /\ file[b] # None
  /\ Finished(b)
  /\ UNCHANGED <<bridge, peer, sent, load, host>>

-----------------------------------------------------------------------------
(* Changes of the directory, and downloads                                 *)

Remove(b) ==
  /\ Handles(b)
  /\ \E n \in Paths : dir[n] # 0 /\ dir' = [dir EXCEPT ![n] = 0]
  /\ UNCHANGED <<bridge, peer, session, load, len, due, overtold>>

\* the SFTP rename does not replace a file
Rename(b) ==
  /\ Handles(b)
  /\ \E n, m \in Paths :
       /\ dir[n] # 0 /\ dir[m] = 0
       /\ dir' = [dir EXCEPT ![n] = 0, ![m] = dir[n]]
  /\ UNCHANGED <<bridge, peer, session, load, len, due, overtold>>

\* _handle_download: the size is read first, then the file is opened by name,
\* and whatever stands there then is sent, up to the chunk that reaches the size.
DownloadStat(b) ==
  /\ Handles(b)
  /\ \E n \in Paths :
       /\ dir[n] # 0
       /\ load' = [load EXCEPT ![b] = [f |-> 0, name |-> n, size |-> len[dir[n]], got |-> 0]]
  /\ bridge' = [bridge EXCEPT ![b] = "stat"]
  /\ UNCHANGED <<peer, session, host, due, overtold>>

DownloadOpen(b) ==
  /\ bridge[b] = "stat"
  /\ dir[load[b].name] # 0
  /\ load' = [load EXCEPT ![b].f = dir[load[b].name]]
  /\ bridge' = [bridge EXCEPT ![b] = "read"]
  /\ UNCHANGED <<peer, session, host, due, overtold>>

Left(b) == len[load[b].f] - load[b].got   \* what the file still has to give

DownloadRead(b) ==
  /\ bridge[b] = "read" /\ peer[b] = "here"
  /\ load[b].got < load[b].size /\ load[b].got < len[load[b].f]
  /\ \E n \in Chunks : n <= Left(b) /\ load' = [load EXCEPT ![b].got = @ + n]
  /\ UNCHANGED <<bridge, peer, session, host, due, overtold>>

\* the size was reached, the file ends before it, or a call fails
Through(b) ==
  \/ load[b].got >= load[b].size \/ load[b].got >= len[load[b].f]
  \/ peer[b] # "here"

DownloadEnd(b) ==
  /\ \/ bridge[b] = "stat"
     \/ bridge[b] = "read" /\ Through(b)
  /\ bridge' = [bridge EXCEPT ![b] = "loop"]
  /\ load' = [load EXCEPT ![b] = NoLoad]
  /\ UNCHANGED <<peer, session, host, due, overtold>>

-----------------------------------------------------------------------------

\* what a bridge does without the browser
Goes(b) ==
  \/ DownloadOpen(b) \/ DownloadRead(b) \/ DownloadEnd(b)
  \/ peer[b] # "here" /\ Close(b)

Asked(b) ==
  \/ Connect(b) \/ Close(b)
  \/ UploadRefused(b) \/ UploadStart(b) \/ UploadChunk(b) \/ UploadEnd(b)
  \/ Remove(b) \/ Rename(b) \/ DownloadStat(b)

\* nobody is left who asks for anything
Ended ==
  /\ \A b \in Bridges : bridge[b] = "closed" \/ peer[b] # "here"
  /\ UNCHANGED vars

Next == Ended \/ \E b \in Bridges : Goes(b) \/ Asked(b) \/ BrowserGoes(b)

Spec == Init /\ [][Next]_vars

\* Remote calls and sends end, and an idle bridge notices: paramiko and TCP
\* give up in the end, and the receive of the loop has SFTP_IDLE_TIMEOUT.
FairSpec == Spec /\ \A b \in Bridges : WF_vars(Goes(b))

-----------------------------------------------------------------------------
(* Properties                                                              *)

\* However many bridges write one file, and however often each starts again,
\* no file grows past SFTP_MAX_UPLOAD_SIZE (_handle_upload_chunk counts for
\* each bridge by itself).
NoFileOverLimit == \A f \in Files : len[f] <= Limit

\* The size a row of a successful upload tells was written through the handle
\* that was closed (_finish_upload).
SizeToldIsWritten == ~overtold

\* A connected browser that closed its socket or vanished leaves no open file,
\* no SFTP channel and no bridge behind (run's timeout and _close).
Settled ==
  \A b \in Bridges :
    (bridge[b] # "auth" /\ peer[b] # "here")
      => (bridge[b] = "closed" /\ file[b] = None /\ load[b] = NoLoad)
NothingLeft == []<>Settled

\* What sftp.py:25-27 says: every upload is audited.  Once its bridge is
\* closed, an upload that emptied a file on the host has a row of its name.
UploadsAudited == \A o \in due : bridge[o.by] # "closed"

\* Both of the limits: of the files, and of what is told of them.
UploadsKeepLimits == NoFileOverLimit /\ SizeToldIsWritten
=============================================================================
