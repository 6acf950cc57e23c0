--------------------------- MODULE KnowledgeIndex ---------------------------
(***************************************************************************)
(* The documents and the one embedding row in MySQL, the one vector index  *)
(* in Redis, and what keeps them together (ai/knowledge.py): requests of   *)
(* administrators that edit, configure or ask for a rebuild, searches, and *)
(* the rebuild task, whose message is delivered again when a worker dies,  *)
(* to workers that run two tasks at a time (autonomy/worker.py).            *)
(*                                                                         *)
(*  - A transaction reads from the snapshot of its first read, unless it   *)
(*    reads FOR UPDATE (InnoDB's default isolation).                       *)
(*  - At commit the session writes the columns whose value it changed: a   *)
(*    row already read as stale is not written again.                      *)
(***************************************************************************)
EXTENDS Naturals, FiniteSets

CONSTANTS
  Client,  \* web requests of administrators, each busy with one at a time
  Reader,  \* searches
  Task,    \* executors of the rebuild task
  Doc,     \* ids of documents
  Model,   \* fingerprints of embedding model and layout
  MaxOps,  \* bound: writing requests
  MaxMsgs, \* bound: rebuild messages on the way
  MaxDeaths, \* bound: deaths of workers
  NoDoc, NoModel

KnowledgeAssumption ==
  /\ {MaxOps, MaxMsgs, MaxDeaths} \subseteq Nat /\ IsFiniteSet(Client)
  /\ NoModel \notin Model
  /\ NoDoc \notin Doc /\ NoDoc \notin [ver : Nat, text : Nat, idx : Model \cup {NoModel}]

VARIABLES
  cfg,    \* t_ai_embedding_config: state and model (what else it says of the index
          \* is only displayed)
  doc,    \* t_ai_knowledge_document
  born,   \* ids given out
  index,  \* the chunks in Redis
  job,    \* what each client is doing
  saw,    \* the snapshot its transaction reads from
  goal,   \* the document it works on
  search, \* where each search is, its snapshot and what it found
  msgs,   \* rebuild messages with the broker
  task,   \* where each rebuild is
  view,   \* its snapshot, and the fingerprint it began with
  todo,   \* documents it has still to load
  ops,    \* writing requests so far
  deaths, \* workers that died
  past    \* history: a stale mark that was not written,
          \* an edit over another's, a rebuild nobody will do

vars == <<cfg, doc, born, index, job, saw, goal, search, msgs, task, view, todo,
          ops, deaths, past>>
client == <<job, saw, goal>>
work   == <<msgs, task, view, todo>>

-----------------------------------------------------------------------------
\* text stands for the content and its digest: the request that wrote it.
Row   == [ver : 1 .. MaxOps + 1, text : 0 .. MaxOps, idx : Model \cup {NoModel}]
Entry == [doc : Doc, ver : 1 .. MaxOps + 1, text : 0 .. MaxOps, model : Model]
Cfg   == [state : {"empty", "ready", "stale", "rebuilding", "error"},
          model : Model]
Idle  == [at |-> "idle", doc |-> NoDoc, model |-> NoModel, hits |-> {}]
First(op) == [ver |-> 1, text |-> op, idx |-> NoModel]
Docs  == {d \in Doc : doc[d] # NoDoc}

\* One document has been created, and no index has been built.
Init ==
  /\ \E m \in Model :
       cfg = [state |-> "stale", model |-> m]
  /\ \E d \in Doc :
       /\ doc = [e \in Doc |-> IF e = d THEN First(0) ELSE NoDoc]
       /\ born = {d}
  /\ index = {}
  /\ job = [c \in Client |-> "idle"]
  /\ saw = [c \in Client |-> NoDoc]
  /\ goal = [c \in Client |-> NoDoc]
  /\ search = [r \in Reader |-> Idle]
  /\ msgs = 0 /\ ops = 0 /\ deaths = 0
  /\ task = [t \in Task |-> "idle"]
  /\ view = [t \in Task |-> NoDoc]
  /\ todo = [t \in Task |-> {}]
  /\ past = {}

Note(p, b) == past' = IF b THEN past \cup {p} ELSE past

\* _mark_stale at commit, after the row was read as old: only a column whose
\* value differs from the one read is written.
Stale(old) ==
  IF old = "stale" THEN cfg
  ELSE [cfg EXCEPT !.state = "stale"]

\* The first read of a request's transaction: the row of the document and the
\* embedding row.
Open(c, what, d) ==
  /\ job[c] = "idle" /\ ops < MaxOps
  /\ ops' = ops + 1
  /\ job' = [job EXCEPT ![c] = what]
  /\ goal' = [goal EXCEPT ![c] = d]
  /\ saw' = [saw EXCEPT ![c] =
       [row |-> IF d = NoDoc THEN NoDoc ELSE doc[d], state |-> cfg.state,
        model |-> cfg.model, op |-> ops + 1]]
  /\ UNCHANGED <<cfg, doc, born, index, search, work, deaths, past>>
Done(c) == /\ job' = [job EXCEPT ![c] = "idle"]
           /\ goal' = [goal EXCEPT ![c] = NoDoc]
           /\ saw' = [saw EXCEPT ![c] = NoDoc]

-----------------------------------------------------------------------------
(* Requests that write.                                                    *)

Writing(c) == \/ \E d \in Doc \ born : Open(c, "create", d)
              \/ \E d \in Docs : Open(c, "update", d) \/ Open(c, "delete", d)
              \/ Open(c, "configure", NoDoc)

\* create_document and capture_run, update_document, delete_document: the row
\* and the mark commit together.  An update of a row deleted by now fails.
Edited(c, d) ==
  [ver |-> saw[c].row.ver + 1, text |-> saw[c].op,
   idx |-> IF saw[c].row.idx = NoModel THEN doc[d].idx ELSE NoModel]
Written(c, d) == CASE job[c] = "create" -> First(saw[c].op)
                   [] job[c] = "update" -> Edited(c, d)
                   [] OTHER -> NoDoc
CommitDoc(c) ==
  LET d == goal[c] IN
  /\ job[c] \in {"create", "update", "delete"}
  /\ job[c] = "create" => d \notin born
  /\ born' = born \cup {d}
  /\ IF job[c] = "update" /\ doc[d] = NoDoc
     THEN UNCHANGED <<doc, cfg, past>>
     ELSE /\ doc' = [doc EXCEPT ![d] = Written(c, d)]
          /\ cfg' = Stale(saw[c].state)
          /\ past' = past \cup {p \in {"unmarked"} : cfg'.state # "stale"}
                \cup {p \in {"overwritten"} : /\ job[c] = "update"
                                              /\ doc[d].ver # saw[c].row.ver}
  /\ Done(c)
  /\ UNCHANGED <<index, search, work, ops, deaths>>

\* save_config: the fingerprint is compared with the one the request read.
CommitConfig(c) ==
  /\ job[c] = "configure"
  /\ \E m \in Model \ {saw[c].model} :
       cfg' = [Stale(saw[c].state) EXCEPT !.model = m]
  /\ Note("unmarked", cfg'.state # "stale")
  /\ Done(c)
  /\ UNCHANGED <<doc, born, index, search, work, ops, deaths>>

\* request_reindex under the row lock; then the message is sent.
RequestReindex(c) ==
  /\ job[c] = "idle" /\ ops < MaxOps /\ msgs < MaxMsgs
  /\ cfg.state # "rebuilding"
  /\ cfg' = [cfg EXCEPT !.state = "rebuilding"]
  /\ job' = [job EXCEPT ![c] = "dispatch"]
  /\ ops' = ops + 1
  /\ UNCHANGED <<doc, born, index, saw, goal, search, work, deaths, past>>

\* Not dispatched: mark_index_error.  The process may also die in between.
Erred == [cfg EXCEPT !.state = "error"]
Dispatch(c) ==
  /\ job[c] = "dispatch"
  /\ Done(c)
  /\ \/ msgs' = msgs + 1 /\ UNCHANGED <<cfg, past>>
     \/ cfg' = Erred /\ UNCHANGED <<msgs, past>>
     \/ Note("abandoned", TRUE) /\ UNCHANGED <<cfg, msgs>>
  /\ UNCHANGED <<doc, born, index, search, task, view, todo, ops, deaths>>

-----------------------------------------------------------------------------
(* Searches: the row, the index, the documents.                            *)

BeginSearch(r) ==
  /\ search[r].at = "idle" /\ cfg.state = "ready"
  /\ search' = [search EXCEPT ![r] = [at |-> "query", doc |-> doc,
                                     model |-> cfg.model, hits |-> {}]]
  /\ UNCHANGED <<cfg, doc, born, index, client, work, ops, deaths, past>>

Cites(row, e, m)    == row # NoDoc /\ row.idx = m /\ row.ver = e.ver
Query(r) ==
  /\ search[r].at = "query"
  /\ search' = [search EXCEPT ![r].at = "cite", ![r].hits =
       {e \in index : Cites(search[r].doc[e.doc], e, search[r].model)}]
  /\ UNCHANGED <<cfg, doc, born, index, client, work, ops, deaths, past>>

Answer(r) ==
  /\ search[r].at = "cite"
  /\ search' = [search EXCEPT ![r] = Idle]
  /\ UNCHANGED <<cfg, doc, born, index, client, work, ops, deaths, past>>

-----------------------------------------------------------------------------
(* The rebuild.                                                            *)

At(t, l) == task' = [task EXCEPT ![t] = l]
End(t)   == /\ At(t, "idle")
            /\ view' = [view EXCEPT ![t] = NoDoc]
            /\ todo' = [todo EXCEPT ![t] = {}]
Busy     == {t \in Task : task[t] # "idle"}

\* A message is taken.
Begin(t) ==
  /\ task[t] = "idle" /\ msgs > 0
  /\ msgs' = msgs - 1
  /\ view' = [view EXCEPT ![t] = [doc |-> NoDoc, was |-> cfg.state,
                                 model |-> cfg.model, by |-> cfg.model]]
  /\ At(t, "mark")
  /\ UNCHANGED <<cfg, doc, born, index, client, search, todo, ops, deaths, past>>

Mark(t) ==
  /\ task[t] = "mark"
  /\ cfg' = IF view[t].was = "rebuilding" THEN cfg
            ELSE [cfg EXCEPT !.state = "rebuilding"]
  /\ At(t, "reset")
  /\ UNCHANGED <<doc, born, index, client, search, msgs, view, todo, ops, deaths, past>>

\* The approved documents and the model that will embed them are read; then
\* the index is dropped and created anew.
Reset(t) ==
  /\ task[t] = "reset"
  /\ view' = [view EXCEPT ![t].doc = doc, ![t].by = cfg.model]
  /\ index' = {}
  /\ todo' = [todo EXCEPT ![t] = Docs]
  /\ At(t, "load")
  /\ UNCHANGED <<cfg, doc, born, client, search, msgs, ops, deaths, past>>

\* _chunks: what is embedded and inserted of one document, as it was read.
Chunks(t, d) == [doc |-> d, ver |-> view[t].doc[d].ver,
                 text |-> view[t].doc[d].text, model |-> view[t].by]
Load(t) ==
  /\ task[t] = "load"
  /\ \E d \in todo[t] :
       /\ index' = index \cup {Chunks(t, d)}
       /\ todo' = [todo EXCEPT ![t] = @ \ {d}]
  /\ UNCHANGED <<cfg, doc, born, client, search, msgs, task, view, ops, deaths, past>>

\* The row is read again under its lock; the documents still come from the
\* snapshot, so the two manifests are equal.
SameModel(t)  == cfg.model = view[t].model  \* mutant: whatever the state is
Unchanged(t)  == cfg.state = "rebuilding" /\ cfg.model = view[t].model
Manifest(t)   == {d \in Doc : view[t].doc[d] # NoDoc}
Stamped(t, d) == IF d \in Manifest(t) /\ view[t].doc[d].idx # view[t].model
                 THEN [doc[d] EXCEPT !.idx = view[t].model] ELSE doc[d]
\* Stamping a row that was deleted fails.
Finish(t) ==
  /\ task[t] = "load" /\ todo[t] = {}
  /\ IF Unchanged(t)
     THEN /\ \A d \in Manifest(t) :
               doc[d] = NoDoc => view[t].doc[d].idx = view[t].model
          /\ doc' = [d \in Doc |-> Stamped(t, d)]
          /\ cfg' = [cfg EXCEPT !.state = IF Manifest(t) = {} THEN "empty" ELSE "ready"]
     ELSE /\ cfg' = [cfg EXCEPT !.state = "stale"]
          /\ UNCHANGED doc
  /\ End(t)
  /\ UNCHANGED <<born, index, client, search, msgs, ops, deaths, past>>

\* Any exception: roll back and mark the error.
Fail(t) ==
  /\ task[t] \in {"reset", "load"}
  /\ cfg' = Erred
  /\ End(t)
  /\ UNCHANGED <<doc, born, index, client, search, msgs, ops, deaths, past>>

\* The worker dies: the message comes back, or it does not.
Crash(t) ==
  /\ task[t] # "idle"
  /\ deaths < MaxDeaths /\ deaths' = deaths + 1
  /\ End(t)
  /\ \/ msgs < MaxMsgs /\ msgs' = msgs + 1 /\ UNCHANGED past
     \/ Note("abandoned", TRUE) /\ UNCHANGED msgs
  /\ UNCHANGED <<cfg, doc, born, index, client, search, ops>>

-----------------------------------------------------------------------------
Request(c) == Writing(c) \/ CommitDoc(c) \/ CommitConfig(c)
              \/ RequestReindex(c)
Search(r)  == BeginSearch(r) \/ Query(r) \/ Answer(r)
Rebuild(t) == Begin(t) \/ Mark(t) \/ Reset(t) \/ Load(t)
              \/ Finish(t) \/ Fail(t)

Next == \/ \E c \in Client : Request(c) \/ Dispatch(c)
        \/ \E r \in Reader : Search(r)
        \/ \E t \in Task : Rebuild(t) \/ Crash(t)

\* A request that has asked for a rebuild goes on to dispatch it; a worker
\* takes what is queued, goes on, and does not only ever see a message twice.
Fairness == /\ \A c \in Client : WF_vars(Dispatch(c))
            /\ \A t \in Task : WF_vars(Rebuild(t))
Spec     == Init /\ [][Next]_vars
FairSpec == Spec /\ Fairness
-----------------------------------------------------------------------------
TypeOK ==
  /\ cfg \in Cfg
  /\ doc \in [Doc -> Row \cup {NoDoc}]
  /\ born \in SUBSET Doc /\ Docs \subseteq born
  /\ index \in SUBSET Entry
  /\ job \in [Client -> {"idle", "create", "update", "delete", "configure",
                         "dispatch"}]
  /\ \A r \in Reader : /\ search[r].at \in {"idle", "query", "cite"}
                       /\ search[r].hits \in SUBSET Entry
  /\ task \in [Task -> {"idle", "mark", "reset", "load"}]
  /\ todo \in [Task -> SUBSET Doc]
  /\ msgs \in 0 .. MaxMsgs + Cardinality(Client) /\ ops \in 0 .. MaxOps
  /\ deaths \in 0 .. MaxDeaths
  /\ past \subseteq {"unmarked", "overwritten", "abandoned"}

\* The current versions of the documents, embedded by the configured model.
Complete ==
  \A d \in Docs :
    [doc |-> d, ver |-> doc[d].ver, text |-> doc[d].text, model |-> cfg.model]
      \in index

\* docs/ai/API.md:187: a citation shows the text of the document and version it
\* names, although the index may be rebuilt while it is searched; unless two
\* edits of that document were made from the same version.
CitationsAreCurrent ==
  \A r \in Reader :
    (search[r].at = "cite" /\ "overwritten" \notin past) =>
      \A e \in search[r].hits : e.text = search[r].doc[e.doc].text

\* However requests, edits and repeated deliveries of the rebuild overlapped:
\* when all rebuilds are over and the state is ready, every document is in the
\* index as it is now.  It takes edits that do not straddle the request of a
\* rebuild (their mark is not written), and no rebuild that died for good.
Quiet == /\ \A t \in Task : task[t] = "idle"
         /\ \A c \in Client : job[c] # "dispatch"
         /\ msgs = 0
ReadyIsComplete ==
  (/\ cfg.state = "ready" /\ Quiet
   /\ past \cap {"unmarked", "abandoned"} = {}) => Complete

\* Once asked for, a rebuild comes to an end, unless the process that was to
\* dispatch it or the worker that did it died without a redelivery.
Settled == cfg.state = "rebuilding" => "abandoned" \in past
RebuildEnds == []<>Settled

\* docs/ai/USER_GUIDE.md:181 "after a change of a document the page shows
\* stale; until the rebuild is done the old index is not used for answers".
EditsShow == cfg.state = "ready" => Complete

\* Both: what the index answers is what the documents say.
AnswersAreCurrent == CitationsAreCurrent /\ ReadyIsComplete
=============================================================================
