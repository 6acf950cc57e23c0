----------------------------- MODULE AgentChat -----------------------------
(***************************************************************************)
(* The conversations of one owner in Redis (storage.py) and the requests   *)
(* that work on them: chat turns (runner.py, tools.py), changes of the     *)
(* autonomy mode, deletions and creations (views.py).                      *)
(*                                                                         *)
(*  - A change of a conversation is a GET of the whole value and a later   *)
(*    SET of the changed copy.  Nothing compares the two: the run lock is  *)
(*    all that keeps writers apart, and deletions do not take it.          *)
(*  - The lock has a time to live of minutes; every other step is short.   *)
(*    It runs out only while its holder waits for the model, to answer or  *)
(*    to summarise, or for a tool, or after its process died.              *)
(*  - A client that goes away ends the generator at a yield.               *)
(***************************************************************************)
EXTENDS Naturals, Sequences, SequencesExt, FiniteSets

CONSTANTS
  Req,       \* HTTP requests, each of which does one thing
  Conv,      \* ids of conversations
  Mode,      \* autonomy modes
  MaxConvs,  \* max_conversations
  MaxSteps,  \* max_steps of a run
  MaxCalls,  \* bound: tool calls in one answer of the model
  KeepRounds,\* keep_rounds of the context manager
  None

ASSUME ChatAssumption ==
  /\ None \notin Req \cup Conv \cup Mode
  /\ MaxConvs \in Nat \ {0} /\ MaxSteps \in Nat \ {0}
  /\ MaxCalls \in Nat \ {0} /\ KeepRounds \in Nat \ {0}

VARIABLES
  conv,    \* ai:conversation:*, None when the key is absent
  index,   \* ai:conversation-index, least recently saved first
  lock,    \* ai:run-lock:*, the request whose token it holds
  sets,    \* ai:result:*
  links,   \* ai:conversation-results:*
  made,    \* ids that create_conversation has given out
  pc,      \* where each request is
  at,      \* its conversation
  copy,    \* the copy of the conversation it works on
  seen,    \* the result sets a deletion will remove
  next,    \* where it goes after saving or deleting
  mode,    \* the autonomy mode a run read when it started
  step,    \* model requests of a run
  left,    \* tool calls of the answer not yet done
  lost     \* runs whose lock ran out under them (history)

store == <<conv, index, lock, sets, links>>
vars  == <<conv, index, lock, sets, links, made, pc, at, copy, seen, next, mode,
           step, left, lost>>

-----------------------------------------------------------------------------
\* A message; n is the number of calls asked for, or the call answered.
Message == [role : {"user", "calls", "tool", "final"}, by : Req,
            step : 0 .. MaxSteps, n : 0 .. MaxCalls]

\* folded is the set of messages that the summary stands for, result the last
\* result set.  Of the events only the writing is kept, not what they say.
Value == [mode : Mode, messages : Seq(Message), folded : SUBSET Message,
          result : Req \cup {None}]

New(m) == [mode |-> m, messages |-> <<>>, folded |-> {}, result |-> None]

Msg(role, r, n) == [role |-> role, by |-> r, step |-> step[r], n |-> n]

With(v, m) == [v EXCEPT !.messages = Append(@, m)]

\* Where a request is working; where it may be for long; where its client may
\* leave it (it has just been sent an event).
Slow    == {"wait", "exec", "summary"}
Yields  == {"user", "wait", "exec", "drafted", "answer", "over"}
Running == {"load", "user", "first", "loop", "fold", "summary", "ask", "wait",
            "calls", "final", "tool", "exec", "drafted", "link", "mark", "told",
            "answer", "again", "save", "change", "over", "release"}
Active  == Running \cup {"members", "delete", "unlist", "clean"}

Init ==
  /\ \E m \in Mode, c \in Conv :
       /\ conv = [d \in Conv |-> IF d = c THEN New(m) ELSE None]
       /\ index = <<c>>
       /\ made = {c}
  /\ lock = [c \in Conv |-> None]
  /\ sets = [c \in Conv |-> {}]
  /\ links = [c \in Conv |-> {}]
  /\ pc = [r \in Req |-> "idle"]
  /\ at = [r \in Req |-> None]
  /\ copy = [r \in Req |-> None]
  /\ seen = [r \in Req |-> {}]
  /\ next = [r \in Req |-> "idle"]
  /\ mode = [r \in Req |-> None]
  /\ step = [r \in Req |-> 0]
  /\ left = [r \in Req |-> 0]
  /\ lost = {}

-----------------------------------------------------------------------------
(* Reading, saving and the lock.                                           *)

Goto(r, l) == pc' = [pc EXCEPT ![r] = l]

\* The copy is changed and will be saved; the request goes on at l.
Keep(r, v, l) ==
  /\ copy' = [copy EXCEPT ![r] = v]
  /\ next' = [next EXCEPT ![r] = l]
  /\ Goto(r, "save")

\* get_conversation and what the caller does with it.  A missing conversation
\* ends the run, whichever of its handlers catches it.
Present(r) == conv[at[r]] # None
Here(r)    == conv[at[r]]
Read(r, v, l) ==
  IF Present(r) THEN Keep(r, v, l)
                ELSE Goto(r, "release") /\ UNCHANGED <<copy, next>>

Touch(s, c) == Append(Remove(s, c), c)

\* _save_conversation: SET and ZADD, whatever is there by now.
Save(r) ==
  /\ pc[r] = "save"
  /\ conv' = [conv EXCEPT ![at[r]] = copy[r]]
  /\ index' = Touch(index, at[r])
  /\ Goto(r, next[r])
  /\ UNCHANGED <<lock, sets, links, made, at, copy, next, mode, seen, step, left,
                 lost>>

\* acquire_run_lock: the conversation exists and SET NX succeeds.  Otherwise the
\* request fails and changes nothing.
Vacant(c)       == lock[c] = None
Acquire(r, c, l) ==
  /\ pc[r] = "idle"
  /\ conv[c] # None
  /\ Vacant(c)
  /\ lock' = [lock EXCEPT ![c] = r]
  /\ at' = [at EXCEPT ![r] = c]
  /\ Goto(r, l)
  /\ UNCHANGED <<conv, index, sets, links, made, copy, next, mode, seen, step, left,
                 lost>>

\* refresh_run_lock raises when the token in the key is not the run's own.
Renews(r) == lock[at[r]] = r
AlwaysAppend(r) == TRUE  \* mutant: the lock is not renewed after the tool
MayAppend(r)    == Renews(r)
Refused(r) ==
  /\ \/ pc[r] \in {"loop", "wait", "tool"} /\ ~Renews(r)
     \/ pc[r] = "answer" /\ ~MayAppend(r)
  /\ Goto(r, "release")
  /\ UNCHANGED <<store, made, at, copy, next, mode, seen, step, left, lost>>

\* release_run_lock: compare and delete.
Freed(r)    == IF lock[at[r]] = r THEN None ELSE lock[at[r]]
Release(r) ==
  /\ pc[r] \in {"over", "release"}
  /\ lock' = [lock EXCEPT ![at[r]] = Freed(r)]
  /\ Goto(r, "done")
  /\ UNCHANGED <<conv, index, sets, links, made, at, copy, next, mode, seen, step,
                 left, lost>>

-----------------------------------------------------------------------------
(* A chat turn: AgentRunner.run.                                           *)

Load(r) ==
  /\ pc[r] = "load"
  /\ IF Present(r)
     THEN /\ copy' = [copy EXCEPT ![r] = conv[at[r]]]
          /\ mode' = [mode EXCEPT ![r] = conv[at[r]].mode]
          /\ Goto(r, "user")
     ELSE Goto(r, "release") /\ UNCHANGED <<copy, mode>>
  /\ UNCHANGED <<store, made, at, next, seen, step, left, lost>>

TakeMessage(r) ==
  /\ pc[r] = "user"
  /\ Read(r, With(Here(r), Msg("user", r, 0)), "first")
  /\ UNCHANGED <<store, made, at, mode, seen, step, left, lost>>

\* The loop: renew, then compress the copy if it is too long.
Loop(r) ==
  /\ pc[r] = "loop"
  /\ Renews(r)
  /\ Goto(r, "fold")
  /\ UNCHANGED <<store, made, at, copy, next, mode, seen, step, left, lost>>

\* ContextManager.compress keeps the last KeepRounds user messages and all that
\* follows the first of them.
UserAt(s)    == {i \in 1 .. Len(s) : s[i].role = "user"}
Rounds(s, i) == Cardinality({j \in UserAt(s) : j >= i})
KeepLast(s)  == Len(s)  \* mutant: not cut at a message of the user
KeepFrom(s)  == CHOOSE i \in UserAt(s) : Rounds(s, i) = KeepRounds
Foldable(v)  == Cardinality(UserAt(v.messages)) > KeepRounds
Cut(v) ==  \* mutant: the old messages go without a summary
  LET k == KeepFrom(v.messages) IN
  [v EXCEPT !.messages = SubSeq(@, k, Len(@))]
Folded(v) ==
  LET k == KeepFrom(v.messages) IN
  [v EXCEPT !.folded = @ \cup {v.messages[i] : i \in 1 .. k - 1},
            !.messages = SubSeq(@, k, Len(@))]

\* If it is long, the model is asked for a summary: in line, with no limit on
\* the whole of it, and without a renewal before or after.
Fold(r, from, to) ==
  /\ pc[r] = from
  /\ \/ Goto(r, to) /\ UNCHANGED next
     \/ /\ Foldable(copy[r])
        /\ Goto(r, "summary")
        /\ next' = [next EXCEPT ![r] = to]
  /\ UNCHANGED <<store, made, at, copy, mode, seen, step, left, lost>>

\* An accepted summary replaces the old messages, a refused one leaves the copy,
\* and either is saved.
Summarise(r) ==
  /\ pc[r] = "summary"
  /\ \E v \in {copy[r], Folded(copy[r])} : Keep(r, v, next[r])
  /\ UNCHANGED <<store, made, at, mode, seen, step, left, lost>>

\* Over the input budget the copy is saved once more and the run fails;
\* otherwise the model is asked.
Ask(r) ==
  /\ pc[r] = "ask"
  /\ \/ Keep(r, copy[r], "over") /\ UNCHANGED step
     \/ /\ Goto(r, "wait")
        /\ step' = [step EXCEPT ![r] = @ + 1]
        /\ UNCHANGED <<copy, next>>
  /\ UNCHANGED <<store, made, at, mode, left, seen, lost>>

\* The answer: the copy of before the request is saved with the telemetry.
\* An error of the provider ends the run.
Reply(r) ==
  /\ pc[r] = "wait"
  /\ Renews(r)
  /\ \/ \E n \in 0 .. MaxCalls :
          /\ left' = [left EXCEPT ![r] = n]
          /\ Keep(r, copy[r], IF n = 0 THEN "final" ELSE "calls")
     \/ Goto(r, "release") /\ UNCHANGED <<copy, next, left>>
  /\ UNCHANGED <<store, made, at, mode, seen, step, lost>>

Answer(r) ==
  /\ pc[r] = "final"
  /\ Read(r, With(Here(r), Msg("final", r, 0)), "release")
  /\ UNCHANGED <<store, made, at, mode, seen, step, left, lost>>

AskTools(r) ==
  /\ pc[r] = "calls"
  /\ Read(r, With(Here(r), Msg("calls", r, left[r])), "tool")
  /\ UNCHANGED <<store, made, at, mode, seen, step, left, lost>>

-----------------------------------------------------------------------------
(* The tool calls of an answer, one after the other.                       *)

Call(r) == Msg("tool", r, left[r])

StartTool(r) ==
  /\ pc[r] = "tool"
  /\ Renews(r)
  /\ Read(r, Here(r), "exec")
  /\ UNCHANGED <<store, made, at, mode, seen, step, left, lost>>

\* create_autonomy_draft, with the mode the run started with.
Draft(r) ==
  /\ pc[r] = "exec"
  /\ Read(r, Here(r), "drafted")
  /\ UNCHANGED <<store, made, at, mode, seen, step, left, lost>>

\* A query: the result set is stored if the conversation exists, linked to it,
\* and named in it.
Collect(r) ==
  /\ pc[r] = "exec"
  /\ IF Present(r)
     THEN sets' = [sets EXCEPT ![at[r]] = @ \cup {r}] /\ Goto(r, "link")
     ELSE UNCHANGED sets /\ Goto(r, "told")
  /\ UNCHANGED <<conv, index, lock, links, made, at, copy, next, mode, seen, step,
                 left, lost>>

Link(r) ==
  /\ pc[r] = "link"
  /\ links' = [links EXCEPT ![at[r]] = @ \cup {r}]
  /\ Goto(r, "mark")
  /\ UNCHANGED <<conv, index, lock, sets, made, at, copy, next, mode, seen, step,
                 left, lost>>

Mark(r) ==
  /\ pc[r] = "mark"
  /\ Read(r, [Here(r) EXCEPT !.result = r], "told")
  /\ UNCHANGED <<store, made, at, mode, seen, step, left, lost>>

\* run_diagnostic reports its progress under a renewed lock; without it the
\* tool counts as failed.
Progress(r) ==
  /\ pc[r] = "exec"
  /\ Renews(r)
  /\ Read(r, Here(r), "exec")
  /\ UNCHANGED <<store, made, at, mode, seen, step, left, lost>>

\* A tool that stores nothing, or that fails.
PlainTool(r) ==
  /\ pc[r] = "exec"
  /\ Goto(r, "told")
  /\ UNCHANGED <<store, made, at, copy, next, mode, seen, step, left, lost>>

EndTool(r) ==
  /\ pc[r] \in {"told", "drafted"}
  /\ Read(r, Here(r), "answer")
  /\ UNCHANGED <<store, made, at, mode, seen, step, left, lost>>

\* The tool message is appended under a renewed lock.
ToolMessage(r) ==
  /\ pc[r] = "answer"
  /\ MayAppend(r)
  /\ Read(r, With(Here(r), Call(r)), IF left[r] = 1 THEN "again" ELSE "tool")
  /\ left' = [left EXCEPT ![r] = @ - 1]
  /\ UNCHANGED <<store, made, at, mode, seen, step, lost>>

MoreSteps(r) == step[r] < MaxSteps
\* After the last call the conversation is read again for the next request.
Again(r) ==
  /\ pc[r] = "again"
  /\ IF Present(r) /\ MoreSteps(r)
     THEN copy' = [copy EXCEPT ![r] = conv[at[r]]] /\ Goto(r, "loop")
     ELSE Goto(r, "release") /\ UNCHANGED copy
  /\ UNCHANGED <<store, made, at, next, mode, seen, step, left, lost>>

Turn(r) ==
  \/ \E c \in Conv : Acquire(r, c, "load")
  \/ Load(r) \/ TakeMessage(r) \/ Loop(r) \/ Fold(r, "first", "loop")
  \/ Fold(r, "fold", "ask") \/ Summarise(r) \/ Ask(r) \/ Reply(r)
  \/ Answer(r) \/ AskTools(r) \/ StartTool(r) \/ Draft(r) \/ Collect(r)
  \/ Link(r) \/ Mark(r) \/ Progress(r) \/ PlainTool(r) \/ EndTool(r) \/ ToolMessage(r)
  \/ Again(r)

-----------------------------------------------------------------------------
(* The other requests.                                                     *)

\* update_conversation: under the run lock.
ChangeMode(r) ==
  /\ pc[r] = "change"
  /\ \E m \in Mode :
       Read(r, [Here(r) EXCEPT !.mode = m], "release")
  /\ UNCHANGED <<store, made, at, mode, seen, step, left, lost>>

Update(r) == (\E c \in Conv : Acquire(r, c, "change")) \/ ChangeMode(r)

\* delete_conversation: without the lock.  The members of the result index are
\* read first; they, the index and the conversation go in one DEL.
BeginDelete(r, c) ==
  /\ pc[r] = "idle"
  /\ conv[c] # None
  /\ at' = [at EXCEPT ![r] = c]
  /\ next' = [next EXCEPT ![r] = "done"]
  /\ Goto(r, "members")
  /\ UNCHANGED <<store, made, copy, mode, seen, step, left, lost>>

Members(r) ==
  /\ pc[r] = "members"
  /\ seen' = [seen EXCEPT ![r] = links[at[r]]]
  /\ Goto(r, "delete")
  /\ UNCHANGED <<store, made, at, copy, next, mode, step, left, lost>>

Delete(r) ==
  /\ pc[r] = "delete"
  /\ sets' = [sets EXCEPT ![at[r]] = @ \ seen[r]]
  /\ links' = [links EXCEPT ![at[r]] = {}]
  /\ conv' = [conv EXCEPT ![at[r]] = None]
  /\ Goto(r, "unlist")
  /\ UNCHANGED <<index, lock, made, at, copy, next, mode, seen, step, left,
                 lost>>

Unlist(r) ==
  /\ pc[r] = "unlist"
  /\ index' = Remove(index, at[r])
  /\ Goto(r, next[r])
  /\ UNCHANGED <<conv, lock, sets, links, made, at, copy, next, mode, seen, step,
                 left, lost>>

\* create_conversation, and the deletion of the oldest beyond the limit.
Create(r, c) ==
  /\ pc[r] = "idle"
  /\ c \notin made
  /\ made' = made \cup {c}
  /\ \E m \in Mode : conv' = [conv EXCEPT ![c] = New(m)]
  /\ index' = Touch(index, c)
  /\ Goto(r, "clean")
  /\ UNCHANGED <<lock, sets, links, at, copy, next, mode, seen, step, left,
                 lost>>

Clean(r) ==
  /\ pc[r] = "clean"
  /\ IF Len(index) <= MaxConvs
     THEN Goto(r, "done") /\ UNCHANGED <<index, at, next>>
     ELSE IF conv[Head(index)] = None
     THEN index' = Tail(index) /\ UNCHANGED <<pc, at, next>>
     ELSE /\ at' = [at EXCEPT ![r] = Head(index)]
          /\ next' = [next EXCEPT ![r] = "clean"]
          /\ Goto(r, "members")
          /\ UNCHANGED index
  /\ UNCHANGED <<conv, lock, sets, links, made, copy, mode, seen, step, left,
                 lost>>

Discard(r) == (\E c \in Conv : BeginDelete(r, c))
             \/ Members(r) \/ Delete(r) \/ Unlist(r)
Grow(r)   == (\E c \in Conv : Create(r, c)) \/ Clean(r)

\* list_conversations takes ids without a conversation out of the index.
List ==
  \E c \in Conv :
    /\ conv[c] = None
    /\ Contains(index, c)
    /\ index' = Remove(index, c)
    /\ UNCHANGED <<conv, lock, sets, links, made, pc, at, copy, next, mode,
                   seen, step, left, lost>>

-----------------------------------------------------------------------------
(* The environment.                                                        *)

\* GeneratorExit at a yield: the finally clause releases the lock.
Disconnect(r) ==
  /\ pc[r] \in Yields
  /\ Goto(r, "release")
  /\ UNCHANGED <<store, made, at, copy, next, mode, seen, step, left, lost>>

Crash(r) ==
  /\ pc[r] \in Active
  /\ Goto(r, "dead")
  /\ UNCHANGED <<store, made, at, copy, next, mode, seen, step, left, lost>>

\* The time to live of the lock runs out.
Overdue(c) == /\ lock[c] # None
              /\ pc[lock[c]] \in Slow \cup {"dead"}
Expire(c) ==
  /\ Overdue(c)
  /\ lock' = [lock EXCEPT ![c] = None]
  /\ lost' = IF pc[lock[c]] = "dead" THEN lost ELSE lost \cup {lock[c]}
  /\ UNCHANGED <<conv, index, sets, links, made, pc, at, copy, next, mode, seen, step,
                 left>>

Work(r) == Turn(r) \/ Update(r) \/ Discard(r) \/ Grow(r)
           \/ Save(r) \/ Refused(r) \/ Release(r)

Next == \/ \E r \in Req : Work(r) \/ Disconnect(r) \/ Crash(r)
        \/ \E c \in Conv : Expire(c)
        \/ List

Spec == Init /\ [][Next]_vars
-----------------------------------------------------------------------------
(* Properties.                                                             *)

\* storage.py: every variable holds a value the code can store there.
TypeOK ==
  /\ conv \in [Conv -> Value \cup {None}]
  /\ index \in Seq(Conv)
  /\ lock \in [Conv -> Req \cup {None}]
  /\ sets \in [Conv -> SUBSET Req] /\ links \in [Conv -> SUBSET Req]
  /\ made \in SUBSET Conv
  /\ pc \in [Req -> Active \cup {"idle", "done", "dead"}]
  /\ at \in [Req -> Conv \cup {None}]
  /\ copy \in [Req -> Value \cup {None}]
  /\ seen \in [Req -> SUBSET Req]
  /\ next \in [Req -> Active \cup {"idle", "done"}]
  /\ mode \in [Req -> Mode \cup {None}]
  /\ step \in [Req -> 0 .. MaxSteps] /\ left \in [Req -> 0 .. MaxCalls]
  /\ lost \in SUBSET Req

\* The messages of a conversation, and those its summary stands for.
Held(v) == v.folded \cup {v.messages[i] : i \in 1 .. Len(v.messages)}

\* docs/ai/API.md:396 "one run lock per conversation": whatever a request saves,
\* it holds the lock at that moment, however long the model and the tools took
\* (renew_lock in runner.py).  Two things come late when the lock ran out under
\* the run: what a tool call leaves behind, and the compressed copy, with what
\* is saved of it before the lock is next renewed.
LateSaves == {"told", "drafted", "answer", "loop", "ask", "over"}
SavesUnderLock ==
  \A r \in Req :
    pc[r] = "save" => \/ lock[at[r]] = r
                      \/ r \in lost /\ next[r] \in LateSaves

\* API.md:401 "avoids overwriting messages": as long as no run outlives its lock,
\* no save of an older copy drops a message that another request has recorded,
\* and compression drops none that the summary does not stand for.
MessagesKept ==
  [][\A c \in Conv :
       (/\ conv[c] # None /\ conv'[c] # None
        /\ \A r \in lost : at[r] # c)
       => Held(conv[c]) \subseteq Held(conv'[c])]_vars

\* API.md:401 "or using an outdated profile": the mode with which a running
\* turn makes drafts is that of the conversation, as long as no run on it
\* outlives its lock.
ProfileIsCurrent ==
  \A r \in Req :
    (/\ pc[r] \in Running /\ mode[r] # None /\ conv[at[r]] # None
     /\ \A q \in lost : at[q] # at[r])
    => conv[at[r]].mode = mode[r]

\* What the model is sent (_provider_messages): every call it asked for has been
\* answered, unless the run that asked was cut off in between or lost its lock.
Unanswered(s) ==
  {i \in 1 .. Len(s) :
     /\ s[i].role = "calls"
     /\ \E n \in 1 .. s[i].n :
          \A j \in i + 1 .. Len(s) :
            ~(/\ s[j].role = "tool" /\ s[j].by = s[i].by
              /\ s[j].step = s[i].step /\ s[j].n = n)}
WireIsAnswered ==
  \A r \in Req : (pc[r] = "wait" /\ lost = {}) =>
    LET s == copy[r].messages IN
    /\ \A i \in Unanswered(s) : s[i].by # r /\ pc[s[i].by] \in {"done", "dead"}
    /\ \A j \in 1 .. Len(s) : s[j].role = "tool" =>
         \E i \in 1 .. j - 1 : /\ s[i].role = "calls" /\ s[i].by = s[j].by
                               /\ s[i].step = s[j].step

\* API.md:402: a request takes no lock but its own away, however late it comes.
OthersLockStays ==
  [][\A c \in Conv : \A r \in Req :
       (lock[c] = r /\ lock'[c] # r) =>
         \/ pc[r] \in {"over", "release"} /\ pc'[r] = "done"
         \/ r \in lost' \ lost
         \/ pc[r] = "dead"]_vars

\* API.md:412 "deleting a conversation also deletes its temporary result sets":
\* when a deletion is over and nothing works on the conversation, no result set
\* of it is left.
ResultsGoWithConversation ==
  \A c \in Conv :
    (/\ c \in made /\ conv[c] = None
     /\ \A r \in Req : at[r] = c => pc[r] \in {"done"})
    => sets[c] = {}

\* Both: of what others saved or hold, a request takes nothing away.
OthersAreKept == MessagesKept /\ OthersLockStays
=============================================================================
