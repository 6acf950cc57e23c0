----------------------------- MODULE EventStream -----------------------------
(***************************************************************************)
(* One reader of a Run's events: GET /ai/autonomous-runs/<id>/stream of     *)
(* autonomy/views.py.  Each poll reads the events after the last one it has *)
(* delivered, at most a batch, and the Run, in one snapshot; it sends what  *)
(* it found frame by frame, and the connection may end before any of them.  *)
(* The client comes back with the last id it has seen.                      *)
(***************************************************************************)
EXTENDS Naturals, Sequences, SequencesExt

CONSTANTS
  Batch,     \* MAX_EVENT_BATCH
  MaxSeq,    \* bound: events of the Run
  MaxDrops   \* bound: lost connections

StreamAssumption == Batch \in Nat /\ MaxSeq \in Nat \ {0} /\ MaxDrops \in Nat

VARIABLES
  seq,     \* latest_event_seq: the Run's events are 1 .. seq
  ended,   \* the sequence of the event that ended the Run, 0 before
  open,    \* there is a connection
  sent,    \* delivered: the server's position on this connection
  wire,    \* frames on their way
  got,     \* the ids the client has seen
  closed,  \* the client has seen the terminal frame
  drops

vars == <<seq, ended, open, sent, wire, got, closed, drops>>
-----------------------------------------------------------------------------
Terminal == 0  \* the terminal frame, which has no id
Seen == IF got = <<>> THEN 0 ELSE Last(got)
Lesser(a, b) == IF a < b THEN a ELSE b

Init ==
  /\ seq = 1 /\ ended = 0
  /\ open = FALSE /\ sent = 0 /\ wire = <<>>
  /\ got = <<>> /\ closed = FALSE /\ drops = 0

\* A transaction of the Run: an event, and perhaps the end of the Run.
\* Evidence of a resolved alert is recorded after the end too.
Append1 ==
  /\ seq < MaxSeq
  /\ seq' = seq + 1
  /\ \/ UNCHANGED ended
     \/ ended = 0 /\ ended' = seq + 1
  /\ UNCHANGED <<open, sent, wire, got, closed, drops>>

Resume     == Seen       \* Last-Event-ID, or after_seq
Connect ==
  /\ ~open /\ ~closed
  /\ open' = TRUE
  /\ sent' = Resume /\ wire' = <<>>
  /\ UNCHANGED <<seq, ended, got, closed, drops>>

Upto      == Lesser(sent + Batch, seq)
EndedAny  == ended # 0                  \* mutant: the Run has ended
Finished  == ended # 0 /\ Upto >= seq
Poll ==
  /\ open /\ wire = <<>>
  /\ sent' = Upto
  /\ wire' = [i \in 1 .. Upto - sent |-> sent + i]
               \o IF Finished THEN <<Terminal>> ELSE <<>>
  /\ UNCHANGED <<seq, ended, open, got, closed, drops>>

\* The next frame reaches the client; the terminal frame closes the stream.
Receive ==
  /\ open /\ wire # <<>>
  /\ wire' = Tail(wire)
  /\ IF Head(wire) = Terminal
     THEN /\ closed' = TRUE /\ open' = FALSE
          /\ UNCHANGED got
     ELSE /\ got' = Append(got, Head(wire))
          /\ UNCHANGED <<closed, open>>
  /\ UNCHANGED <<seq, ended, sent, drops>>

\* The connection is lost, the poll fails, or STREAM_MAX_SECONDS are over.
Drop ==
  /\ open /\ drops < MaxDrops
  /\ open' = FALSE /\ wire' = <<>> /\ drops' = drops + 1
  /\ UNCHANGED <<seq, ended, sent, got, closed>>

Next == Append1 \/ Connect \/ Poll \/ Receive \/ Drop

\* The client reconnects, and the generator runs while somebody reads it.
Fairness == WF_vars(Connect) /\ WF_vars(Poll) /\ WF_vars(Receive)
Spec     == Init /\ [][Next]_vars /\ Fairness
-----------------------------------------------------------------------------
\* The types of the variables.
TypeOK ==
  /\ seq \in 1 .. MaxSeq /\ ended \in 0 .. seq /\ sent \in 0 .. seq
  /\ open \in BOOLEAN /\ closed \in BOOLEAN /\ drops \in 0 .. MaxDrops
  /\ wire \in Seq(0 .. seq) /\ got \in Seq(1 .. seq)

\* What a client has seen is the first events of the Run, each once and in
\* order, however often the connection was lost (views.py:838).
EveryEventOnce == got = [i \in 1 .. Len(got) |-> i]

\* The terminal frame comes after the event that ended the Run and all before
\* it, although a poll may have carried only a batch (views.py:859).
TerminalIsLast == closed => ended # 0 /\ Seen >= ended

\* A client that keeps coming back is told of the end of the Run.
Settled == ended # 0 => closed
EndIsSeen == []<>Settled

\* Both: no event is lost, repeated or cut off by the end.
StreamIsWhole == EveryEventOnce /\ TerminalIsLast
=============================================================================
