# TLA+ models of OrangeServer

OrangeServer is an operations platform: a Flask backend (hosts, accounts, authorisation, web
terminal, scheduled jobs, mail), a Vue frontend, and an AI part whose *autonomous Runs* let a
language model investigate a host and, under a policy, a Guardian or a human approval, change it
over SSH. This directory holds TLA+ models of the parts whose correctness depends on order: who may
write, who may run a command, what is left after a crash, and which copies of a fact agree. Paths
below are relative to `src/`; `autonomy/` stands for `backend/app/ai/autonomy/`.

## 1. Inventory

| Component | State | Operations | Hard behaviours |
|---|---|---|---|
| Run and step rows (`autonomy/repository.py`, `state.py`) | `t_ai_autonomous_run`, `_step`, `_event`, `_evidence`, `_artifact` | create, start, decide, cancel, sweep, propose, conclude | unlocked read-modify-write next to `SELECT ... FOR UPDATE`; unique keys as the only guard |
| Lease (`lease.py`) | owner, token, expiry in the Run row | claim, heartbeat, release, scan | expiry under a live worker; stale tokens and clocks |
| Drive loop (`drive.py`, `graph.py`) | graph cursor in memory, its Redis checkpoint | plan, policy, pause, execute, observe, verify, decide, finalize | checkpoint older than MySQL or lost; claim lost between two writes |
| Recovery (`recovery.py`) | none of its own | how a claimed Run enters the graph | every mixture of step statuses a crash can leave |
| Executor and SSH runner (`executor.py`, `ssh_runner.py`) | the remote process group | execute a step, control probe, stop | writes of unknown outcome; cancel and revocation during a command |
| Worker (`worker.py`) | Celery queue, timer | deliver, retry, scan, dispatch | lost, repeated and late deliveries |
| Planner, plans, policy, actions, Guardian | plan snapshots; a backup file per patch on the host | propose, repair, verify, classify, review, patch, restore | late answers; authority that changes after approval; scripts cut off half way |
| Chat (`ai/runner.py`, `ai/storage.py`) | conversations and a run lock in Redis | run, append, compact, delete, renew | lock expiry, lost updates |
| Knowledge index (`ai/knowledge.py`) | documents and index state in MySQL, vectors in Redis | edit, rebuild, search | edits during a rebuild, two rebuilds |
| Diagnoses (`ai/diagnostics.py`) | run, report, evidence rows | start, probe, cancel | cancel and revocation between two probes |
| Batch jobs, web terminal, SFTP (`assets/batch_service.py`, `ssh/`) | connections, remote files, audit rows | run, upload, relay | broken connections, half done uploads, three greenlets on one socket |
| Accounts, assets, rules (`users/`, `assets/`, `tools/auto_update.py`) | rows, bindings, cached roles, derived lists | add, change, delete, rebuild | rows and derived data change in different transactions |
| Cron (`cron/cron.py`) | `t_cron` rows, in-memory scheduler, Redis lock | add, pause, resume, remove, load | row and scheduler diverge; a lock without a token |
| Login (`users/user.py`, `local/Captcha.py`) | counters, codes and locks in Redis | login, reset | counters and one-time codes under concurrency |
| Mail (`mail/`, `tools/sendmail.py`) | one SMTP session, two counters | send with retries | a retry after an accepted message |
| Setup wizard (`backend/setup/`) | token, environment file, sentinel, seeded rows | verify, apply, bootstrap | a crash between two steps |
| Providers, monitoring, local tools, audit listings, schema and routes, migrations, frontend, website, deployment | | I/O, CRUD, wiring | not modelled, see section 9 |

What makes them correct: a write of a Run reaches the host at most once and only with consent; its
status never leaves a terminal one; a cancel stops further writes; a Run is never out of everybody's
reach; what is recorded is final; a command is told to have ended only if it has. A conversation
loses no message to another request; an answer cites current documents only; what is derived from
rows (caches, bindings, the list of all assets, the scheduler) follows them; a code serves once;
what is reported to a user is true.

`PROJECT.json` lists every component with what is left out of it and, under `hazards`, the places
in the code where these properties could break, each with the property that watches it.

## 2. Modules

| Module | Models |
|---|---|
| `AutonomyStates` | the status alphabets and the two transition whitelists of `state.py` |
| `AutonomyRun` | one Run end to end: sessions, lease, recovery, graph, plan expansion, executor, crashes |
| `RunLease` | claim, heartbeat, release, scan and retry with tokens and a clock, and a broker |
| `RunIntake` | creation by request and by alert, events and artifacts under the unique key (run, sequence) |
| `RunEvidence` | evidence rows, the conclusion and the end of a Run with a stale worker |
| `Investigation` | the rounds of the planner under its budgets, whatever the model answers |
| `PlanAuthority` | role, grant, mode and environment that change between approval, checks and command |
| `RemoteCommand` | one supervised command: worker, transport, wrapper and guardian process on the host |
| `CommandPromise` | abstract specification: what an answer of the SSH runner promises |
| `RunPromise` | abstract specification: what a Run promises the person who started it |
| `FilePatch` | the scripts of file patches and restores, one shell command at a time |
| `EventStream` | one reader of a Run's events over connections that break |
| `AgentChat` | the conversations of one owner in Redis, chat turns, deletions, cleanup |
| `KnowledgeIndex`, `Diagnostics`, `MailRelay`, `Login`, `CronJob`, `BatchJob`, `WebTerminal`, `FileTransfer`, `Accounts`, `AssetDirectory`, `SetupWizard` | the component their name says |
| `MCAutonomyRun`, `MCRunLease`, `MCRunIntake` | small instances for TLC |
| `MCHosts` | `RemoteCommand`, `FilePatch`, `BatchJob`, `WebTerminal`, `FileTransfer` side by side |
| `MCServices` | `PlanAuthority`, `MailRelay`, `KnowledgeIndex`, `Diagnostics`, `Investigation`, `EventStream`, `RunEvidence` side by side |
| `MCTables` | `Accounts`, `AssetDirectory`, `CronJob`, `SetupWizard` side by side |
| `MCRedis` | `AgentChat` and `Login` side by side |
| `*_proofs` | theorems and their TLAPS proofs, see section 5 |

The side-by-side modules put components that share no state into one run: a variable `part`, chosen
in `Init` and never changed, says which of them moves. Components that do share state are in one
module, or one is an abstraction of the other's part: `RunLease` of the lease of `AutonomyRun`,
`RemoteCommand` of its `remote`, `PlanAuthority` of its consent, `RunEvidence` of its end.

A definition whose comment says *mutant* is a deliberately broken variant of its neighbour, used to
show that a property notices the corresponding bug. It is not part of the specification.

To read the models, start with `AutonomyStates` and `RunLease`, then the variables of `AutonomyRun` and its
sections in the order of the file: sessions, lease and crashes, prologue, recovery, graph, execute,
executor, end. `Next` at the end lists who does what. The other modules can be read in any order.

## 3. Correspondence with the code

### `AutonomyRun`

| Variable | Code |
|---|---|
| `status`, `cancel` | `t_ai_autonomous_run.status`, `cancel_requested` |
| `lease` | `lease_owner`, `lease_token`, and whether `lease_expires_at` lies in the future |
| `step`, `note` | status of every step row; of the note only what it says of a Guardian review |
| `intent` | steps with a `write_intent` event |
| `txn` | sessions between the unlocked read and the commit of start, decide or an expiry |
| `ckpt` | the checkpoint of the LangGraph thread in Redis |
| `drive` | what each worker holds in memory: phase, graph cursor, step in hand, and whether the last cursor is saved |
| `remote` | writes whose command is running on the managed host |
| `launches`, `consent`, `silent` | ghosts: how often a write was started; which plans were authorised; which writes were recorded as failed with exit code -1 |

Steps are named in advance: `Probe`, `Verification` and `Plan` are the ids a planner may hand out,
and `<<p, i>>` is the i-th action of plan `p`, which plans allocate before they are signed. A step
is a write if its position is in `Writes`.

**Atomicity.** Code of the worker runs in transactions that lock the Run row and re-check owner,
token and expiry (`_lock_claim_in_session`). Each such transaction is one action guarded by
`Owns(w)`. `start_run`, `decide`, `sweep_expired_runs` and the lazy expiry take no lock; they are a
`Read...` and a `Commit...` action joined by `txn[s]`. What stops a stale commit is the unique key
(run_id, sequence) of the event table: both writers computed the same next sequence number. So an
appended event makes every open transaction stale (`AppendEvent`, `Fresh`), and a stale one can
only `Rollback`. A transaction that appends no event cannot collide and commits over whatever is
there (`CommitStepExpiry`). Two pairs of adjacent transactions are merged because nothing can tell
them apart: the halt of recovery with the release of the lease, and the check of a plan's
signature with its locked start.

**Crashes.** `AbandonDrive` ends a drive at any point and keeps the lease: SIGKILL, a lost claim,
`DriveAbort`, too many resumes, or an unexpected exception, an illegal transition among them (`drive`
swallows these and leaves the lease to expire). `ExpireLease` may happen at any time, also under a
healthy worker. `LoseCheckpoint` lets Redis forget the thread. `SaveCheckpoint` may lag behind the nodes
that have run: LangGraph writes checkpoints asynchronously and waits for them only when the graph stops;
a saver without the claim is refused. Commands go on after their worker dies and end by `RemoteExit`.
They may also go on after an answer: when the SSH transport dies, paramiko raises nothing in the poll
loop, says that an exit status is ready and gives -1 (`ssh_runner.py:521-530`), and the executor records
a failure like any other (`executor.py:876-903`). So `RecordExit` either takes the command off the host
or, for a failure, leaves it there and notes the write in `silent`. The properties of what runs on the
host name these writes as their exception. A drive that has lost its claim can do one more harmful
thing, to start the command whose intent it just committed (`Launch` has no `Owns` guard); every other
step of its needs the claim.

**Abstractions.** The planner, the policy, the Guardian and the remote command are nondeterministic
choices. Observations are read only and always allowed by the v2 policy; the v1 graph, denied
observations, the constraint of tool choice, evidence, artifacts and the outcome text are left out
(the last four are in `Investigation`, `RunEvidence` and `RunIntake`). Plan expiry, changed binding and
changed budget are one nondeterministic `InvalidatePlan`. `DurationExhausted` may happen wherever the
code looks at the clock. `Owns` stands for the whole fence (owner, token, expiry), which
`FenceExclusive` of `RunLease` shows to admit one drive. That a late heartbeat can revive an expired
lease adds no behaviour: `AutonomyRun` lets a lease expire at any time, and a revived lease is one
that expired later. Recovery's answer to an action of unknown outcome is left out because no claim
meets one: it would need a Run that is not in `needs_attention`, which `UnknownWriteStopsRun`
excludes; a drive that starts on a Run in `needs_attention` is excluded by the claim.

**The promise.** `RunPromise` says what the owner of a Run may rely on, without workers, leases, plans,
checkpoints or transactions. Its `fate` is the status as far as the owner cares (active, with a
person, or how it ended), `outcome` is what is on record of each write (nothing before the intent is
durable, then the step's status), `starts` counts how often the command was sent. `Declare` and
`Start` are apart because the commit of the intent and the command are (`executor.py:649`), and
`Start` asks nothing of the Run because a worker that has lost its claim there still sends it.
`TerminalAbsorbing` has no run of its own: the promise implies it, and it is proved.

### `RunLease`

| Variable | Code |
|---|---|
| `status` | `t_ai_autonomous_run.status`, as far as the lease and the queue depend on it |
| `lease` | `lease_owner`, `lease_token`, and `left`: `lease_expires_at` minus the present |
| `task` | the Celery task each prefork child runs: claiming, asking why it was refused, driving, releasing; its token |
| `beats` | heartbeat statements that have read the clock and have not run yet |
| `queue`, `later` | messages of this Run in the broker, and retries whose countdown is running |

**Statements.** `claim_run`, `heartbeat` and `release_lease` read the clock in the worker and send an
UPDATE that compares with it, perhaps after a wait for the row lock: two steps, with the age of the
clock in between. The fence of a drive reads the clock after it has locked the row: one step.
`get_lease_state` after a refused claim is a statement of its own (`AskWhy`). The heartbeat thread
is not joined for ever, so a statement may outlive its drive and meet a later claim of the same
worker.

**Time.** Only differences matter, so time is relative: `Tick` takes one from `left` and adds one to
every age. Without a lease there is nothing to count, and an expiry further back than `MaxDelay` is
no longer told apart, so the state space is finite without a bound on time. Hosts share one clock.

**Tokens.** `secrets.token_urlsafe` draws a token that nothing holds any more (`InUse`). Identities are
a constant function: `Together` gives both workers one identity, which a reused pid or a long host
name cut at 64 characters produces.

**The broker** may lose a message, repeat one whose task is running, or fail to take one; a dead
worker's message comes back or is lost. What a drive does is reduced to what it does to status
and lease: `Advance`, `Settle`, `Finish`, `Halt`, `Abort`. `start_run` and `decide` are one step
`Enqueue`: their races are the matter of `AutonomyRun`, and each has an effect on lease and queue
only when its commit succeeds.

### The other modules

Each names its variables after the columns, keys and objects they stand for; the comment behind each
declaration says which. What follows is what the code makes of steps and what is abstracted.

- **`RunIntake`** (`views.py`, `repository.py`). A transaction reads the Run (`tx`), and its writes are
  decided at its first event: it commits if the sequence it computed is still free, and otherwise
  changes nothing (`Write`). `cancel` and the worker's steps lock the row, so they are one step. The
  alert webhook looks the active Run up, creates one, starts it: three transactions between which
  others run. `log` is the event table; `stale` are the Runs past the time to live.
- **`RunEvidence`** (`drive.py`, `repository.py`). Recording evidence looks for steps without a row
  and inserts behind no fence, so two workers may do it; `conclude_run` is behind the fence and checks
  the evidence it cites; `_finalize` ends the Run.
- **`Investigation`** (`planner.py`, `drive.py`). A round shows the model phase and budgets (`ctx`),
  takes one tool call, gives it one repair, and writes at most one probe, plan, verification or
  conclusion. The model may answer anything. Loops, actions and phases are counted as the code does.
- **`PlanAuthority`** (`policy.py`, `plans.py`, `repository.py`, `drive.py`, `executor.py`). Role, grant,
  environment of the host and time may change at any step (`Change`, `Expire`). `Verified` is
  `verify_plan_authority`, `Check` and `Commit` the two looks of the executor, `Look` the control probe
  while the command runs. A change is noticed by comparing with the rows the command was built from.
- **`RemoteCommand`, `CommandPromise`** (`ssh_runner.py`). The worker's poll loop, the channel with
  its window, the shell wrapper with its guardian process, and the second channel that stops the
  group are each a sequence of steps; the connection, the worker and every process may go at any of
  them. Output is counted in chunks. The poll calls the command "exited" when its status has come or the
  transport is lost (`Ready`), as paramiko does, and only `ans.status` tells the two apart.
- **`FilePatch`** (`actions.py`). Every command of the patch and the restore script is a step, after
  any of which the script may fail, be killed or be told to stop; its trap removes the temporary
  files and does not exit. Others replace the file by renaming.
- **`EventStream`** (`views.py`). A poll reads events and Run in one snapshot and writes frames; the
  connection ends before any of them; the client comes back with the last id it has seen.
- **`AgentChat`** (`ai/storage.py`, `ai/runner.py`, `ai/views.py`). Every change of a conversation is a
  GET of the value into `copy` and a later SET. The lock may expire while its holder waits for the
  model, to answer or to summarise, or for a tool. Tools answer anything; compaction asks the model
  for a summary without a limit on the whole call and without a renewal, folds the oldest rounds into it
  and saves.
- **`Login`** (`users/user.py`, `local/Captcha.py`). Every Redis command of a login and a reset is a step
  (`at`), in the order of the handler (`After`); keys expire; Redis may fail, and what each handler
  does then is part of the step. Passwords are reduced to whether the account is the known one.
- **`KnowledgeIndex`** (`ai/knowledge.py`). A transaction reads its snapshot (`saw`, `view`) and writes
  later only the columns it has changed; of the embedding row that is the state and the model, for what
  else it says of the index is only displayed; the rebuild runs document by document next to edits, changes
  of the embedding model and a second rebuild, whose message may be delivered twice.
- **`Diagnostics`** (`ai/diagnostics.py`, `ai/diagnostic_adapters.py`). Probes run one after the other,
  each host by host; cancel and permission are looked at where the code looks. A command may hang
  (`Hang`): `_read_with_select` looks at the clock only between its reads.
- **`MailRelay`** (`mail/MailApi.py`, `tools/sendmail.py`), **`BatchJob`** (`assets/batch_service.py`,
  `tools/shellcmd.py`), **`FileTransfer`** (`ssh/sftp.py`), **`WebTerminal`** (`ssh/webssh.py`, `tools/at.py`):
  one step per remote or Redis call; connections break at each. Greenlets give way only there.
- **`Accounts`, `AssetDirectory`** (`users/`, `assets/`, `tools/auto_update.py`). A request checks, commits
  one transaction, then corrects the derived data step by step. `crossed` remembers the names or tables
  on which two requests overlapped or one broke off; the properties speak of the others, because
  nothing in the code orders such requests. `granted` are the names that other rules bind; an edit of
  such a rule (`EditRule`) writes any names into it, of live accounts or of nobody (`strays`), and one of the
  all-access rule by its old name renames it (`RenameAllRights`, `Accounts` only).
- **`CronJob`** (`cron/cron.py`). One job name: its row and its scheduler job change in different
  steps; a restart rebuilds the scheduler from the rows. The scheduler may refuse the fields of a row that
  is already committed as started (`Unusable`, `Added`). `past` remembers what the properties except.
- **`SetupWizard`** (`backend/setup/`, `wsgi.py`). Modes, apply requests, the bootstrap child process
  and the files it leaves, with a death of the process between any two of them. `flag` is `OGS_SETUP_MODE`
  of the next start; writing the sentinel may fail without a word, and the data directory may be lost
  with all that lies in it (`LoseConfig`); `spoiled` remembers both.

## 4. Runs

Passing runs. Symmetry is used over interchangeable workers, sessions, requests and tokens where no
liveness is checked. `CHECK_DEADLOCK FALSE` where the system really stops: a Run that has ended, a
request that has been answered. `lease` checks deadlock.

| Run | Instance | Checks |
|---|---|---|
| `takeover` | 2 workers, 1 session, a verification, a plan of two writes | `NoReplay`, `WritesAreAccounted`, `ActionOutcomeFinal`, `NoPlanningOverOpenWrite`, `KeepsRunPromise` (refinement) through crash, takeover and lost checkpoint |
| `sessions` | 1 worker, 2 sessions, a probe, a plan of a read and a write | `ConsentedWrites`, `UnknownWriteStopsRun`, `NoWriteAfterCancel` against unlocked transactions |
| `guardian` | 2 workers, 1 session, a verification, one write, Guardian wired | `NoRunIsLost`, `RejectedNeverRuns` |
| `lease` | 2 workers of one identity, 3 tokens, time to live 1, delay up to 1, 1 heartbeat under way, 1 message | `FenceExclusive`, `ClaimsKeepApart`, `AbandonedIsDriven` under `FairSpec` |
| `admission` | 2 requests, 2 Runs, a worker and a sweeper | `IntakeIsSound` |
| `redis` | 2 requests, 2 conversations, 2 modes; 2 captchas, 1 failure of Redis | `SavesUnderLock`, `WireIsAnswered`, `OthersAreKept`; `LoginsAreCounted` |
| `hosts` | 1 command, 3 patch steps, 2 batch jobs or hosts, 1 terminal, 2 transfers | `AnswersAreTrue`, `KeepsPromise` (refinement), `PatchIsSafe`, `JobIsHonest`, `OneLateInput`, `UploadsKeepLimits`, `HostWorkSettles` |
| `tables` | 2 requests, 3 names, 3 operations; 2 setup applies, 1 crash | `AccountsAgree`, `DirectoryIsWhole`, `JobsFollowRows`, `SetupIsSafe` |
| `services` | see `MCServices.cfg` | `MailIsTrue`, `AnswersAreCurrent`, `DiagnosisIsTrue`, `StaysInBounds`, `StreamIsWhole`, `ConclusionHolds`, `AuthorityIsKept`, `ServicesSettle` |

The last three also check the types of their parts (`AllTypesOK`); those of `AutonomyRun` and
`RunLease` are proved. Several properties are conjunctions whose parts have a comment each:
`WritesAreAccounted` (`OneWriteInFlight`, `WriteInFlightIsRecorded`), `NoRunIsLost` (`NoOrphanedRun`,
`ParkedUnlessExpired`), `ClaimsKeepApart` (`LiveLeaseNotDisplaced`, `OnlyOwnBeatProlongs`,
`LongExpiredStaysExpired`), `AnswersAreTrue` (`ConfirmedMeansGone`, `CutIsTold`), and so on in the other
modules.

**Why the bounds are enough.** Two workers suffice for takeovers: the code distinguishes the holder
of the claim from everyone else, and a third worker is the second one again. Two sessions suffice
for unlocked transactions: a commit conflicts with at most one other read. Two actions are the
least for which a plan can be half done. `MaxLoops` 3 lets the graph come back to the planner after each kind of
step the run has. In `lease`, three tokens are the row's, another task's and a heartbeat's; a delay as
long as the time to live lets a statement outlive a whole lease, and one identity for both workers is
the hardest case for the tokens. In `admission` two Runs let an alert meet an older one. Limits
(`WhoLimit`, `IpLimit`, `Limit`, `Budget`, `MinLimit`) are small so that they are reached; retries
have the code's value. `MaxOps`, `MaxEdits`, `MaxFaults`, `MaxCrashes`, `MaxDeaths`, `MaxDrops`,
`MaxChanges` bound how often the environment acts: once is enough for a fault to meet every step, and
three overlapping requests are enough to rename an account, reuse its name and delete it.

In `tables`, one of two callers defines a job the scheduler refuses. In `hosts`, a command writes more
chunks than the budget keeps and one drain takes.

The runs of `AutonomyRun` check each property in one of three instances, because an instance with
everything has too many states. For the properties proved in section 5 the instance does not matter.
One thing lies beyond `takeover`: a second write beside one recorded with exit code -1 needs a second plan,
and with two plans and two workers TLC does not end within minutes. One worker with two plans of a write each
(485,988 states) reaches it: `OneWriteInFlight` holds there, and without its exception it does not.

### Disagreements between code and documents

Each of these runs checks one sentence of a document or comment, and TLC finds a behaviour of the
code that breaks it. Details and quotations are in `PROJECT.json`, `findings`.

| Run | Sentence | Behaviour |
|---|---|---|
| `review_crash` | an interrupted Guardian review goes back to a human (`state.py`, `drive.py`) | the worker dies during the review; the recovery scan of *running* steps turns the plan into an approved one and it is executed |
| `half_plan` | recovery never guesses completion (`recovery.py`) | crash between inserting a plan's action and running it: the rest of the plan is dropped and the Run completes |
| `env_drift` | a changed environment of the asset voids a plan's authorisation (`repository.py`) | the plan approved for a lab runs on the host marked as production |

`ConsentedWrites` holds without a Guardian (`sessions`, and `ConsentHolds` for every instance) and
fails with one (`review_crash`).

Other sentences TLC refuted have a definition but no run; their comments quote them:
`Accounts.CountsFollow` (the group an account leaves is not recounted),
`AssetDirectory.NoHostInDeletedGroup` (a host is added between check and commit),
`AgentChat.ResultsGoWithConversation` and `ProfileIsCurrent`, `Diagnostics.TerminalStays` (a cancelled
run is overwritten by the worker's end), `FileTransfer.UploadsAudited`, `Investigation.AskedAfterWrite`
(a Run whose budget ends with a write completes without a verification), `KnowledgeIndex.EditsShow`,
`MailRelay.ConnectRetried` and `LimitLifts`, `RunEvidence.OneEvidencePerStep` and
`ResolvedHasNoUnknown`, `RunIntake.FiringStartsRun`, `PlanAuthority.ExpiryAsksAgain`,
`SetupWizard.AdministratorCanLogin`, `BatchJob.JobEnds` (a read behind `select` has no deadline).

## 5. What is proved

Every theorem holds for all values of the constants that satisfy the named assumptions of its module.
These say that sets of ids are disjoint and finite, that `None` is no id and that bounds and limits are
natural numbers; `AutonomyRun` has three (`ConstantsAssumption`, `FinitenessAssumption`,
`NamesAssumption`). `SetupAssumption` also says that nobody asks for the seeded password: an apply
refuses one shorter than `ADMIN_MIN_PASSWORD` (`backend/setup/app.py:187`). TLC evaluates every
assumption on the runs.

| Theorem | Statement |
|---|---|
| `AutonomyRun_proofs`: `TypeCorrect` | `Spec => []TypeOK` |
| `OpenTxnsMeetActiveRunInvariant` | `Spec => []OpenTxnsMeetActiveRun` |
| `TerminalIsAbsorbing` | `Spec => TerminalAbsorbing` |
| `AutonomySafety_proofs`: `WritesAreNotReplayed` | `Spec => []NoReplay` |
| `CancelStopsWrites` | `Spec => NoWriteAfterCancel` |
| `WritesAreKnown` | `Spec => []WritesAreAccounted` |
| `UnknownWritesStop` | `Spec => []UnknownWriteStopsRun` |
| `OutcomesAreFinal` | `Spec => ActionOutcomeFinal` |
| `NothingPlannedOverOpenWrite` | `Spec => NoPlanningOverOpenWrite` |
| `ConsentHolds` | `~GuardianWired => (Spec => []ConsentedWrites)` |
| `RunsAreNotLost` | `Spec => []NoRunIsLost` |
| `RejectedStayRejected` | `Spec => RejectedNeverRuns` |
| `RunKeepsItsPromise` | `Spec => KeepsRunPromise`: the refinement of `RunPromise` |
| `RunLease_proofs`: `LeaseTyped` | `Spec => []TypeOK` |
| `FenceIsExclusive` | `Spec => []FenceExclusive` |
| `ClaimsHoldApart` | `Spec => ClaimsKeepApart` |
| `Hosts_proofs`: `AnswersHold` | `Spec => []AnswersAreTrue` |
| `PromiseHolds` | `Spec => KeepsPromise`: the refinement of `CommandPromise` |
| `LateInputs` | `WebTerminal` keeps `OneLateInput` |
| `LimitsHold` | `FileTransfer` keeps `UploadsKeepLimits` |
| `JobsAreHonest` | `BatchJob` keeps `JobIsHonest` |
| `PatchesAreSafe` | `FilePatch` satisfies `PatchIsSafe` |
| `HostsTyped` | `MCHosts` keeps `AllTypesOK` |
| `RunIntake_proofs`: `IntakeHolds` | `Spec => []IntakeIsSound` |
| `IntakeIsTyped` | `Spec => []TypeOK` |
| `Redis_proofs`: `SavesAreLocked` | `Spec => []SavesUnderLock` |
| `OthersKeepTheirs` | `Spec => OthersAreKept` |
| `WireAnswered` | `Spec => []WireIsAnswered` |
| `LoginsCounted` | `Login` keeps `LoginsAreCounted` |
| `Services_proofs`: `StreamWhole` | `EventStream` keeps `StreamIsWhole` |
| `MailTold` | `MailRelay` keeps `MailIsTrue` |
| `ConclusionsHold` | `RunEvidence` satisfies `ConclusionHolds` |
| `DiagnosisTells` | `Diagnostics` keeps `DiagnosisIsTrue` |
| `InvestigationBounded` | `Investigation` satisfies `StaysInBounds` |
| `IndexIsCurrent` | `KnowledgeIndex` keeps `AnswersAreCurrent` |
| `WithdrawalIsKept` | `PlanAuthority` keeps `AuthorityIsKept` |
| `ServicesTyped` | `MCServices` keeps `AllTypesOK` |
| `Tables_proofs`: `AccountsStayAgreed` | `Accounts` keeps `AccountsAgree` |
| `DirectoryStaysWhole` | `AssetDirectory` keeps `DirectoryIsWhole` |
| `JobsAreFollowed` | `CronJob` keeps `JobsFollowRows` |
| `SetupStaysSafe` | `SetupWizard` satisfies `SetupIsSafe` |
| `TablesTyped` | `MCTables` keeps `AllTypesOK` |

But for `ServicesTyped` and `TablesTyped`, the theorems of `Services_proofs` and `Tables_proofs`,
`LoginsCounted`, and `LateInputs`, `LimitsHold`, `JobsAreHonest` and `PatchesAreSafe` say this twice: of
the module by itself, and of the part of it that `MCServices`, `MCTables`, `MCRedis` or `MCHosts` runs
beside the others. `PartSteps` proves once that a step of the whole is for each part one of its own or a
stutter.

So every safety property that a passing run checks is proved; of `AutonomyRun` for any number of workers,
sessions, probes, verifications and plans, any length of a plan and any choice of which of its
actions write. Every inductive invariant below was checked by TLC on the instances of section 4
before it was proved.

**`AutonomyRun`, types.** `TypeOK` is not inductive: a step that starts an action, for example, needs
to know that what the drive has in hand is an action of the plan it expands. `Typed` adds `DriveShape`
and `TxnShape`, and is split into the parts that concern the database, the sessions and the drives,
each with one lemma per group of actions. That an open transaction which can still commit a status
finds a Run that has not ended (`OpenTxnsMeetActiveRun`) follows because every action that ends a Run
appends an event, which makes the transaction stale; `TerminalIsAbsorbing` needs it for the commits
of sessions, which check the status they *read*.

**`AutonomyRun`, writes.** Why is a write not replayed, although a drive without its claim may still
launch one? `Declared` says that a launched write has its intent in the event table, that it was
launched once, that an intent belongs to a step that has begun, and that what runs on the host was
launched and is open, or recorded as failed with exit code -1 (`silent`). `InHand` says of every worker
between the commit of an intent and the answer, with its claim or without, that its write is declared,
and before the launch that it has not been launched, is still open, and is in no other worker's hand.
With `Typed` they are inductive (`Writes1`) and give `NoReplay` and `NoWriteAfterCancel`. For the writes
that are running or of unknown outcome, `Writes2` adds `Single`, at most one write is open, and
`Watched`: while one is open the Run is running, in recovery, with a person or badly ended; an unknown
outcome leaves only the last two; no unlocked transaction can commit; and whoever owns the Run either
holds that very write, or enters by recovery, or is a drive that needs_attention leaves nothing to do
(`Holding`). That is why a takeover in the middle of a command is safe: the new drive must enter by
recovery, which settles the write before the graph moves.

**`AutonomyRun`, consent.** `Consented`: an executable plan, the plan of every action that exists, and
the plan that a drive expands are in `consent`. It is preserved only if no plan is running because it
is under review, which is where `~GuardianWired` comes in and where `review_crash` breaks it.

**`AutonomyRun`, plans.** `NoRunIsLost` and `RejectedNeverRuns` rest on `Plans`: one plan is open
(`OneOpen`); a review that began is of a plan that runs or has ended (`NotesFollow`); only plans wait
for a person, and a Run with an undecided one is neither queued nor running (`PlansWait`, `AskedIsParked`);
what the owner of the Run may rely on at each phase of its drive (`OwnerPlaced`); and a decision
that can still commit is about a plan that has at most been taken for review or expired since it was
read, while the owner has not begun to expand it (`DecisionsOpen`). `NextRows` sums up what any step
may do to a row: follow the table of `state.py`, insert, or overwrite a plan by an unlocked
transaction.

**`AutonomyRun`, the promise.** `RunKeepsItsPromise` goes through the actions by what they do to the four
abstract variables; most stutter. One lemma each says that the commit of an intent is a `Declare`
(`BeginIsDeclared`), that a launch, with the claim or without, is a `Start` (`LaunchIsStart`), that
an open write ends by a `Settle` or a `Lose` (`OpenEnds`), and that everything else moves
at most the fate (`FateMoves`). It needs the invariants above and two facts more. `AskedFirst`: a
drive's cursor, and a checkpoint, say "cancelled" only of a Run whose owner asked, so a Run ends
cancelled only then. `LeftToPerson`: while a Run is with a person no session can commit a status and
every drive that still owns it is on its way out, so nothing makes it active again. No write can be
open when the Run completes or expires, because the owner's drive holds the open write (`Holding`)
and an open transaction of the sweep would have become stale (`Watched`).

**`RunLease`.** The inductive invariant adds `TasksApart`: a task has a token exactly while it drives
or releases, and no two tasks have the same. Two drives that pass the fence compare equal to one
token in the row, so they are the same drive; identities and time play no part. For the action
properties, `LeaseChange` lists what can change a lease; an age is never negative, so a lease that
looks expired to a claim is expired, and never above `MaxDelay`, so a lease expired for longer does
not look live to a heartbeat.

**`RemoteCommand`.** `Inv` says where the exec request can be while the worker is at each point
(`Asked`), in which order the processes on the host come up (`Born`), what the shell's end tells
(`Reaped`), that nothing stirs a group found gone (`Confirmed`), what each answer stands on (`Grounds`),
and that no chunk is lost or counted twice (`Counted`). The refinement maps initial states to initial
states and each step to one of `CommandPromise` or a stutter. Of "exited" the promise speaks twice: with a
status the command has ended, because the shell's status comes after the shell's end (`Reaped`); with -1
(`silent`) nothing follows, because a lost transport gives that answer too.

**`Hosts_proofs`.** Beside `RemoteCommand`, under `HostsAssumption`, which joins the assumptions of the
parts.
- *Terminal* (`LateInv`): once a frame has been forwarded on a closed socket, the socket stays closed
  and the reader is past every place from which it would receive again.
- *Transfer* (`TransferInv`): the offset of an open handle is what its bridge has counted since it
  opened it (`Counting`), so a write that the count admits leaves the file within the limit, also when
  several bridges write one file; what another bridge truncates or extends never makes a handle's own
  offset larger.
- *Batch* (`BatchInv`): a job has said something of the hosts before its current one, and of that one
  once its run there is over (`Spoken`); the audit rows follow in the same order (`Noted`). The script's
  file is whole when it is interpreted, and it is gone from a host the job has left unless the
  connection broke there (`Scripts`). No other job touches it, for uploads share one name and scripts
  have each its own (`Apart`).

- *File patch* (`PatchInv`): a patch is kept when the version it opened lies whole under its own backup name.
  Whatever holds the content of a patch (the path, the descriptor, the temporary file, another backup)
  belongs to a patch that is kept (`ContentKept`), and `Progress` says what a script has done at each of its
  commands, with or without its temporary file, which a trap may have removed at any of them.
- *Types* (`HostsTyped`): what the invariants above leave open of the types of the five parts, among them that
  a download has a name before it asks for the size, so it opens only what the directory can name
  (`TransferTyped`).

**`RunIntake_proofs`** (`IInv`, which TLC also found to hold on the instance of `admission`). A transaction
follows the Run it has read (`Follows`): as long as no event was added since, the bytes it has summed up are
the Run's, and so is the status, but for the claim of a queued Run, which no event tells of. Hence the unique
key on (run, sequence) is enough for the budget and for the status, without a lock (`WriteKeeps`). A
request about to record that an alert fires is the one that made the Run, and nobody has recorded it so far
(`Unrecorded`); one about to accept an alert knows of its Run what no later step takes back, that it was
started (`Placed`, `Grew`). `Tells` says with a quantifier, not by going through the log, that the last event
that tells of a status tells of the Run's, so the proof needs no induction (`TellsOn`).

**`Redis_proofs`.** `RedisAssumption` names the assumptions of `Login`.
- *Chat* (`Inv`): a request on its way holds its lock unless it is in `lost`, and even then at every
  place it reaches only by a renewal or a short step from one (`Locked`); its copy holds every message
  of the conversation as long as no run there is lost (`Current`), so a save takes nothing away.
- *What the model is sent* (`Wire`, on top of `Inv`): a tool message stands after its call with no
  message of a user in between, so compression, which cuts at a message of a user, takes both or neither
  (`SoundFolded`). Calls of another request lack an answer only if that one has ended or is at work
  there (`Sound`); a request's own are all answered when it turns to the model, and while it goes
  through its tools those down to the current one (`Fit`). This holds of the conversation and, between
  reading and saving, of the copy. A lost lock ends the argument, as it ends the property.
- *Login* (`LoginInv`): without a lock, the count is at most one short of the limit, but for the
  requests about to set the lock and the failures of Redis; with it, only requests that had looked
  before it was set go on counting (`Tries`). A code that a reset has removed stays invalid until the
  reset commits (`CodeIsGone`).

**`Services_proofs`.** Under `ServicesAssumption`, which joins the assumptions of the parts.
- *Stream* (`StreamInv`, `OnTheWay`): the frames on their way are the events after those the client has
  seen, up to those the server has sent; a terminal frame comes last, and not before the event that
  ended the Run.
- *Mail* (`MailTrue`): until a request is done every copy belongs to an attempt that failed and counted
  its try, so the tries bound the copies; an attempt is made only on an open session.
- *Evidence* (`EvidenceInv`): evidence, and a worker's list of what lacks it, are of executed steps
  only, also of a worker that records late; a conclusion reads evidence and steps in one transaction.
- *Diagnosis* (`DiagnosisInv`): a probe begun after the cancel leaves no check that would begin another
  (`OneOverrun`), the last look hears a cancel that came before it (`CancelHeard`), between probes every
  host has been reached or none (`HostsReached`), and the status written is the one the stored evidence
  gives (`StatusWritten`).
- *Investigation* (`InvestigationInv`): an open plan has no pending step beside it and the latest write
  is not verified until it ends (`PlanIsAlone`); otherwise at most one step is pending, and the phase
  the model was shown is still that of the Run when it answers (`OneStepPending`). Actions are added
  only where they are counted against `max_actions`.
- *Index* (`KnowledgeInv`): a version has one text in every place that holds it, and no place is ahead
  of the row (`VersionsInv`), so a search shows the text of the version it cites. For completeness
  (`RebuildInv`), while the state is rebuilding every rebuild works on the documents of now and has
  loaded what it passed (`Fresh`), or it is not the last one under way; a rebuild that ends takes the
  state from rebuilding, so a late one cannot call the index ready. Excepted are a mark that was not
  written and a rebuild that died for good, as in the property.
- *Authority* (`IInv`): a command about to be sent while another was already late had its rows compared
  after the last change (`LateOnce`), so only one is late. A stopped Run becomes active only by a
  decision, which needs a Run that waits (`Deciding`), which has no drive (`Parked`); the drive left in
  a stopped Run stands at an action that did not succeed and only ends (`Ended`).
- *Types* (`ServicesTyped`): what the invariants above leave open. A version or text of a document stays
  within the writing requests so far, also in the snapshot that a rebuild or an edit still works from
  and in the chunks made of it (`VersionsYoung`); a request for a rebuild holds a place in the queue of
  messages until it has dispatched, so the queue never exceeds its bound by more than the clients, which
  takes that `Client` is finite (`MessagesCounted`). A row has only an id that was given out
  (`KnowledgeRest`); a probe or a round begins only below its bound (`ProbesCounted`, `RoundsCounted`);
  a frame on its way was sent (`StreamRest`).

**`Tables_proofs`.** Under `AccountsAssumption` and `TablesAssumption`, which joins those of the other
parts. Each property speaks of what no crossing has touched, so each invariant says how a crossing is
noticed.
- *Accounts* (`AccountsInv`): two requests that share a name or an account are crossed with all their
  names (`Apart`), for an edit moves from one name to another. `ReliesOn` says what a request may still
  rely on, of the row it is about to change and of the names it is about to set or forget. Bindings change in
  the transaction of the row; the cached role is right or a request that is under way puts it right
  (`Caches`), also when a login writes it in between. A name that no account has is in a rule only if
  an edit put it there since (`strays`).
- *Directory* (`AssetsInv`): an uncrossed table has one request at most (`OneEach`). Its list is whole or
  is being rebuilt, and a rebuild between its read and its last write holds the names there still are
  (`Lists`, `Steady`). `HostsHaveAGroup` needs no exception: a deleted group keeps its row, and a renamed one
  takes its hosts along in the same transaction.
- *Cron* (`CronInv`): unless operations crossed, only additions are under way together, and the one past
  its check has the lock (`Ordered`). So what a request read before is still so when it uses it (`Follows`),
  and row and job differ only while a request is between the two (`Tells`), or where the scheduler cannot
  use the row (`Usable`).
- *Setup* (`SetupInv`): a child inserts one row at most, so a row is always left (`RoomIsLeft`, by counting).
  Only the first row has the seeded password, and a child that is about to commit has seen it
  (`SeedIsSeen`). From a commit on the database is ready, and nothing takes that back; the sentinel is
  written before an apply is answered, or `spoiled` remembers that it could not be (`Prepared`).
- *Types* (`TablesTyped`), the unique keys among them: a name of a keyed table has one row, live or deleted
  (`OneRow`), and an account of a system being set up a name of its own (`NamedOnce`), since the child
  renames or creates only over a name whose row is not in its way, or fails at the key (`NamedCommits`). A
  group counts at most the hosts there are, which takes that `Hosts` is finite (`CountsFit`).

### Only model-checked

- Liveness, which is out of the prover's reach: `AbandonedIsDriven`, `HostWorkSettles`, `ServicesSettle`.
- The refutations in section 4.

## 6. Fairness

Fairness is assumed only for the liveness properties; all safety properties hold without.

**`RunLease`.** Weak fairness of `Tick`, `Scan` and `RetryDue`: time passes, the worker's timer runs the scan
every thirty seconds (`_on_worker_ready`), a countdown ends. Weak fairness of the statements of a task
and of a heartbeat: MySQL answers or the connection fails. Weak fairness of the end of a drive:
commands, model calls and the Run itself have time limits, and a drive without its lease ends at the
next fence. Strong fairness of taking a message and of a successful claim: messages are lost and
workers die, but not at every single attempt. With weak fairness alone, a broker that loses each
message just before a worker takes it would refute any system. No fairness is assumed of web
sessions, the sweep, losses or crashes.

**`hosts` and `services`.** Each part moves by its own processes: a poll loop and its clock, a greenlet
that can run, a child process, a worker with a task, a client that reconnects. Nothing obliges a remote
command, a browser, a person or a model to do anything: a command may write for ever, a model may answer
nonsense, a plan may wait for a decision (it then expires, `Decision`). In `PlanAuthority` only `Work`
is fair. Nothing makes a hung command of a diagnosis or a batch job return, so `DiagnosisEnds` and
`QuietJobEnds` except it. `FileTransfer` takes calls over SFTP to return, although `sftp.py` sets no
limit for them: that is assumed of the network. The side-by-side modules state fairness of a `Turn`, a
disjunction of one action per part; since `part` never changes, that is fairness of the action of the
part that moves. Each module defines `Settled` and its own property (`CallEnds`, `QuietJobEnds`,
`TerminalEnds`, `NothingLeft`, `EveryoneAnswered`, `RebuildEnds`, `DiagnosisEnds`, `RunEnds`,
`EndIsSeen`, `WithdrawalTakesEffect`); `HostWorkSettles` and `ServicesSettle` join them.

## 7. Observations

Seen while modelling and not kept as runs; each is a behaviour of the code that a maintainer may want
to know.

*Runs.* `lease.py:160` says an expired lease cannot be revived by its worker; a heartbeat that read its
clock before the expiry and waited for the row lock revives it (no claim is lost by it). `state.py:4-8`
says every status written has passed the whitelist; a claim moves `waiting_approval` with an expired
lease to `recovering`, which is not listed. Nothing takes the transition from
`needs_attention` back to `running` that the whitelist admits (`state.py:125`): such a Run can only fail
or be cancelled. After a write of unknown outcome the graph loops to the
planner, whose conflict fails the Run, so `needs_attention` is left without a person (`drive.py:1502`).
A cancel of a Run with an expired lease, or in `needs_attention`, is final while the command runs
(`repository.py:717`). An expiry of a step alone appends no event, so an approval read before commits
over it (`repository.py:1526`), and it may take the only thing a parked Run has to decide
(`repository.py:1475`). A permission error before execution raises out of the drive, which keeps its
lease, so the Run is driven again by every recovery scan; a loss of permission during execution fails it.
An action inserted as approved runs alone after recovery even when its plan has expired. `decide` of the
planner checks the loop budget first, so a Run that concludes in its last loop is failed with its
outcome kept. `conclude_run` accepts a failed verification for `resolved`. `create_artifact`'s budget is
kept by the unique event key, not by its row lock. A write whose transport died is recorded as failed
with `exit_code=-1` and a confirmed stop, and the Run goes on, while the command may still be running: the
guardian on the host ends it only once the host sees the end of the channel (`ssh_runner.py:337`,
`executor.py:876`).

*Chat.* Compaction saves its copy after a call of the model of any length without renewing the lock
(`runner.py:278`, 366), so it may write over the messages of the request that has the lock by then.

*Hosts.* The patch script's trap on TERM does not exit, so a stop between `cp -p` and `printf` lets the
script go on and install a file with the umask's mode. A batch read behind `select` has no deadline when
`select` returned for stderr or the exit. Audit rows of scripts pass an address where `t_host.alias` is
referenced and are lost. A second `upload_start` drops the open handle unaudited; a refused one changes
the path while the old file stays open; a failed chunk is audited as a success. A terminal opened under
an earlier login's token survives a later logout; its permission is checked only at the start; its
first `receive()` has no timeout. A mail reported as failed may have been delivered up to four times.

*Tables.* Two live system users with the same alias make every rebuild of the all-access list fail
after one is deleted. `AccGroupAdd` never refreshes the list; `AccGroupDel` with members always fails.
`AuthHostUpdate` looks a rule up by name without `is_deleted` and renames every row of that name;
`_check_host_permitted` does not filter deleted rules, the batch service does. `DataSumAll` counts
deleted hosts. Crossing edits of one account may leave role cache and binding stale. A rule may name an account
that does not exist (`AuthHost.py:205`, 284), and an account created later under that name has its rights.
The all-access rule is refused as a new name but not as an old one (`AuthHost.py:266`): renamed, it is no
longer found by those that keep it up to date. A job whose fields the scheduler refuses keeps its row as started
(`cron.py:273`). A diagnosis whose command keeps its output open never ends.

*Login and setup.* Two concurrent requests with one captcha or code are both served. The transparent
rehash after a login may write the old password back over a reset. `UserRegister` always fails, because alias
and group are not nullable. A failure between INCR and EXPIRE leaves a counter that never lifts. A
partial bootstrap leaves committed rows; a retry with another name and the same mail address fails.

## 8. Plan

Done: the core Run with its lease and its promise, the surrounding components, and the proofs of
section 5. Left: clocks that differ between hosts in `RunLease` (a bound on the skew, added to
`MaxDelay` in `ClaimsKeepApart`); the parts listed in section 9; and the liveness properties, which
TLC checks on small instances and the prover cannot reach.

## 9. Not modelled

Providers and their configuration, planner prompts, catalogues of commands and digests, the v1 graph,
encryption, readiness and health views, monitoring queries and parsers, conversion of documents,
registration, avatars and tokens, hosts and groups of single authorisation rules, import of tables, what a cron
job runs, local file and shell tools, audit listings, schema and route declarations, migrations, the
frontend, the website, deployment and operations scripts. They are I/O, presentation, or data without
an order to get wrong; `PROJECT.json` says so for each component. Clocks of different hosts are
assumed to agree (`RunLease`): with skew, a lease is shorter or longer than its time to live.
