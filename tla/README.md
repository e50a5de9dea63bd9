# Verification of hrdr

TLA+ models, TLC runs and TLAPS proofs for **hrdr** ("Herder"), a terminal agent
harness written in Rust. Paths below are relative to the repository root. The
models are translated from the code; where a comment or a test says something
the code does not do, the disagreement is a finding (see *Findings*).

- [The system](#the-system): the parts, what they keep and how they meet
- [Modules](#modules): what models what
- [Runs](#runs): what TLC checks, with which bounds and which fairness
- [Proofs](#proofs): what TLAPS proves and how
- [Findings](#findings): where the code and its own words part
- [Plan](#plan): what comes next, and what stays out

## The system

One `hrdr` process is one terminal window (or one headless run). It runs a UI
thread, an agent task that loops over model calls and tool calls, and any number
of background tasks. Several processes share one state directory: sessions,
attachments, credentials, registrations. There is no server; processes meet
through files, file locks and local sockets.

| Component | Where | State | Operations | Hard parts | Correct when |
|---|---|---|---|---|---|
| Session save pipeline | `hrdr-tui/src/app/session.rs`, `app.rs`, `app/commands.rs` | mirror of the history, round cursor, save in flight, one pending snapshot, `save_done` | adopt a mid-turn snapshot, enqueue, spawn, promote, flush on quit, /new, resume | save tasks run beside the agent and the UI; cancelled turns land late; permits of `Notify` outlive their wait | one save task writes at a time; the newest snapshot is written; a crash loses no committed round; a session gets its own messages only |
| Session files and round journal | `hrdr-agent/src/session.rs` | `<id>.json`, `<id>.rounds` | save, append a round, replay, load | torn appends, a crash between writing the .json and removing the journal | a load returns exactly what was saved last, each message once |
| Session open-lock | `hrdr-agent/src/session.rs` (`SessionLock`) | `<id>.lock`: process lease, age | acquire, release, reap a stale one | judge and remove are two steps; crashes leave files | at most one process has a session open, and a dead one does not keep it |
| Handoff journal and recovery | `hrdr-agent/src/handoff_journal.rs`, `session.rs`, `hrdr-tui/src/app/handoff.rs`, `apps/hrdr` | `Prepare`, `Commit`, `Abort`, `Claim` frames bound to a snapshot | prepare, commit, abort, discover, recover, claim | crash at every step; several recoverers; a journal that outlives its handoff | a session committed to a successor is continued once, with the snapshot committed |
| Self-update coordinator | `apps/hrdr/src/update_coordinator.rs`, `update_exec.rs` | request slot, candidate, source lease | check, build, install, wait for the source, launch | the source, the coordinator and other windows race | the successor starts only after the source is gone |
| Store lock | `hrdr-agent/src/store_lock.rs` | lock file per store: token, pid, lease | acquire with retries, reap, release | the same check-then-remove; fairness between waiters | mutual exclusion; a waiter gives up or gets it |
| Attachments, retention | `hrdr-agent/src/attachment_store.rs`, `session.rs` | content-addressed blobs, session age | write, mark and sweep, purge, compress | the collector runs beside savers of other processes | a blob a session names is never removed |
| Agent registry and turns | `hrdr-agent/src/registry.rs`, `turn.rs`, `turn_state.rs` | entries, generation, steering queue, run guard | register, begin/end a turn, steer, prune | guards dropped by aborted tasks after a new turn began | a turn's end is recorded on that turn |
| Turn loop, compaction | `turn_loop.rs`, `agent_impl.rs`, `compaction.rs` | history, tool calls outstanding | round, tool results, interrupt, compact | interruption between a call and its result | every call has one result; a compaction keeps the tail |
| Delegation | `delegation.rs`, `registry.rs` | slots, task rows, worker handles, entries with their queues, results to deliver | task, task_cancel, steer, clear | calls of one batch side by side; workers aborted at any await; results that arrive between turns | slots bound the workers, a result reaches its parent once, no row stays running |
| Peer messaging, local IPC | `hrdr-tui/src/app/messaging/`, `hrdr-agent` IPC | registrations, inbox, acknowledgements | send, admit, deliver, acknowledge | the receiver quits or hands over | a message is delivered once or reported |
| Retry, provider clients | `hrdr-llm` | attempt, backoff, stream state | request, retry, reassemble | partial streams | bounded attempts, no output used twice |
| Budget | `hrdr-agent/src/budget.rs` | cost cap, spent, shared by a conversation's agents | check, account | the check and the accounting are a model call apart | overshoot is bounded |
| Credentials, OAuth | `auth_store.rs`, `oauth.rs`, `hrdr-app/src/login.rs` | token file, cache by modification time, gate and waiters | read, refresh, write back, log in | refresh tokens that work once; cancelled refreshers; other processes | one refresh at a time, no waiter forgotten, the newest token stays |
| Transcript log | `transcript_log.rs` | events | append, reduce | partial lines | the live view and a resume agree |
| Cron, watch, goal, todo | `hrdr-tools`, `hrdr-agent` | schedules, deliveries | next time, fire, deliver | clock, duplicates | fire once per due time |
| File tools, mutation queue | `hrdr-tools/src/mutation.rs` | a queue per path | enqueue, apply | concurrent tools | edits of a path are serial |
| MCP and LSP clients | `hrdr-tools/src/mcp`, `lsp` | pending calls | call, answer, time out | exits with calls outstanding | each call ends once |
| Gate, guardrails, sandbox; processes, hooks; configuration; app layer; rendering, editor; test support | the rest | | | mostly sequential or I/O | |

`PROJECT.json` lists every one of them with its status, and under "hazards" the
places where this code is hard to test, each at its line, with the properties
that cover it or the reason none does. A property is named there only if a run that
checks it lets the hazard happen; where a run leaves the case out, or a property excuses
a part of it, the note says so and *Findings* what is known of it.

How they meet: the agent task posts `History` and `Done` events on a bounded
channel to the UI thread; the UI thread alone decides what is saved and spawns
save tasks; these post `SessionSaved` on the same channel and then wake
`save_done`; sessions are shared between processes through the open-lock; a
self-update passes a session through the handoff journal.

## Modules

| Module | Kind | Models |
|---|---|---|
| `SessionFiles` | pure operators | what the two session files hold, `replay_journal`, `append_journal` |
| `SavePipeline` | state machine | the save pipeline of every process, the agent and the user as its environment, crashes |
| `LatestWins` | abstract specification | a writer of whole snapshots: one in progress, one waiting, the newest next |
| `MCSavePipeline` | instance | the refinement mapping from `SavePipeline` to `LatestWins` |
| `SavePipeline_proofs` | proofs | the theorems about `SavePipeline`: types and bookkeeping |
| `SaveFiles_proofs` | proofs | the theorems about what `SavePipeline` leaves in the files |
| `Handoff` | state machine | a session handed to a successor: journal, lock, recovery by three kinds of process |
| `Handoff_proofs` | proofs | the theorems about `Handoff` |
| `Retention` | state machine | windows that save into a directory of sessions while it is swept, and its attachments collected, under the store lock |
| `MCRetention` | instance | the symmetry of `Retention`'s tasks |
| `Retention_proofs` | proofs | the theorems about `Retention` |
| `Turns` | state machine | the UI's loop, the main agent's turns and compactions, its queue of messages, peers, background results, interrupting, /clear and quitting |
| `MCTurns` | instance | what the surroundings do: twelve plans |
| `Turns_proofs` | proofs | the theorems about `Turns` |
| `SequenceLemmas` | lemmas | flattening and listing sequences, and the induction they need; used by `Turns_proofs` |
| `Delegation` | state machine | sub-agents: slots, the task calls, workers, steering, results, cancelling, clearing, the cost cap |
| `MCDelegation` | instance | two readers and a writer, five plans |
| `Delegation_proofs` | proofs | the theorems about `Delegation` |
| `Refresh` | state machine | one ChatGPT credential: the refresh gate, the store with its cache, the server, logins, crashes |
| `MCRefresh` | instance | two processes, five plans |
| `Refresh_proofs` | proofs | the theorems about `Refresh` |

How they compose: `SavePipeline` is built from `SessionFiles`, and implements
`LatestWins`. The other machines are separate and meet at a point each of them
names: `Turns` decides when a turn lives, which `SavePipeline` takes for granted in
its `turn[p]`; `Delegation` folds a result into a turn that runs, and `Turns` has
the results that land while none does (`ResultLands`); `Handoff` and `Retention`
take over the session and its files once a save is done; `Refresh` is what a
round waits for before it calls the model.

### SessionFiles and SavePipeline

A message is a number drawn once: a message edited in place is a new message. A
history is a sequence of messages, message 1 is the system prompt, and the
digest the code takes of the last message (`anchor`) is that message. So the
model can tell apart what the code tells apart: the length of a history and its
last message, and not the messages before. A journal is its head (`base`,
`anchor`), the messages of its complete chunks, and `torn`.

| Model | Code |
|---|---|
| `ui[p]` | `App`: `mirror` = `state.messages`, `sess` = `state.session_id`, `cursor` = `round_cursor`, `inFlight`, `pending`, `pendingFull`, `handle` = the turn's task handle |
| `agent[p]`, `turn[p]` | the agent behind its mutex; "unseen" is a turn whose handle and running flag were cleared by the `Done` of the turn before |
| `tasks[p]` | spawned save tasks: they write, remove the journal, send `SessionSaved`, call `notify_one`, one step each |
| `chan[p]`, `permit[p]` | the UI's event channel; the permit in `tokio::sync::Notify` |
| `EnqueueSave`, `SpawnSave`, `SpawnRound`, `OnSaveDone`, `PromotePendingSave`, `CanAppend`, `Adopted`, `Persist`, `Autosave` | the functions of these names (`Persist` is `persist_mid_turn` and `save_session_now`) |
| `WriteJson`, `RemoveRounds`, `AppendRound` | the halves of `Session::save`, and `Session::append_journal` |
| `Quit`, `FinalSave`, `AwaitSaves`, `AwaitWakes`, `Exit`, `ExitDone` | the way out: cancel, reap the turn, last autosave, `await_saves`, drop of the app, end of the runtime |
| `Submit`, `SubmitHidden`, `Cancel`, `ClearAll`, `Resume` | the user |

The handlers of the UI thread are one action each, since nothing else runs on
that thread; a save task is one action per file operation or `await`; the agent
posts a round in one action, because it changes the history and posts it while
holding its own lock. `Allowed` names the races an instance lets happen, so that
a run can ask about one of them alone.

What the model simplifies:

- The open-lock is ideal: taken and released in one step, and a dead process's
  lock is taken by the next opener. How it is built, and where it fails, is in
  `Handoff`; the store lock is in `Retention`.
- `/new` while a turn runs is a `Cancel` and then a `ClearAll`; the agent's own
  reset, which the code queues behind the agent's lock, is immediate; `/new`
  over an unseen turn is left out.
- Steering text left over at a turn's end, which the `Done` handler relaunches, is
  a later `Submit`.
- A crash keeps what was written before it: there is no loss of data the
  operating system accepted (the code writes to a temporary file and renames).
- A turn of which the UI has taken the events is started only from a UI in step
  with its agent, unless "typeAhead" is allowed.

### LatestWins

What a reader of `enqueue_save` and `on_save_done` should be able to think: no
journal, no cursor, no channel; each write stores one whole snapshot. The
refinement maps `stored` to what a load of the two files would return, so an
appended round must amount to a rewrite of the whole file. It is checked in
`SaveOneProcess` and proved in `SaveFiles_proofs`.

### Handoff

One session. A process stands for one process lease (a pid and its start
time), so a unix `exec` keeps the process and a coordinator's launch takes
another.

| Model | Code |
|---|---|
| `json` | the saved snapshot, a new number at every save: its hash |
| `frames`, `torn` | the handoff journal: `Prepare`, `Commit`, `Abort`, `Claim` frames, each bound to a snapshot and a source lease |
| `Scans`, `ClaimableState`, `RequiresRecovery`, `SourceClaimableBy` | `scan`, and the functions of these names |
| `lock`, `old`, `reaping` | the open-lock file and its age; who has judged it and is about to remove it |
| `CreateLock`, `JudgeLock`, `ReapLock`, `ReapFails`, `RefuseLock` | `acquire_open_lock_mode` in its steps: `create_new`, the two judgements (`MayReap`), `remove_file`, `SessionBusy` |
| `Handed`, `Insists` | its arguments: the source whose lock may be taken over at any age, and whether no other may |
| `Discover`, `DiscoverCheck` | `discover_handoff`: look, lock (at "discoverLock"), look again, unlock |
| `Recover`, `CheckClaim`, `AppendClaim` | `recover_handoff` and its variants, with the lock at "recoverLock"; `claim_locked_handoff` |
| `Open`, `OpenCheck` | an ordinary resume |
| `CommitSave` .. `AppendAbort` | `commit_stored_admitted_update` |
| `Launch`, `LaunchFails`, `ExitSource`, `CoordinatorLaunch`, `CoordinatorFails` | `App`'s handoff, the exec of the successor, the coordinator |
| `Forget` | not code: a dead lease no file and no process names is taken for a new one, so that a bounded `Proc` does not bound the number of starts |

Other sessions, the build and installation of the candidate, and `OwnedAbandon`
(which no code outside the tests appends) are left out.

The code judges a lock file and then removes whatever its path names. `Races` names what
this lets happen: with "reapRace" in `Allowed` a lock file may be created between the
judgement and the removal of another process. It is in the model, and left out of the
runs, because two processes then hold one session (see *Findings*). Creating the file
and writing its owner into it are one step; degraded guards, which only a session
without a snapshot gets, are left out.

### Retention

A task is one process: a window with its saves, and its retention worker
(`Sweeper` are those where retention is not switched off). Of a session file the
model keeps which save wrote it, the attachments it names and its age: fresh, old
enough to compress, old enough to purge. Of an attachment it keeps whether it is
stored and past its grace. The two copies of one save have one age, since
compression keeps the time of the file.

| Model | Code |
|---|---|
| `plain`, `packed` | `<id>.json`, `<id>.json.zst` |
| `blob` | the files under `blobs/` |
| `lock`; `CreateLock`, `StampLock`, `JudgeLock`, `ReapLock`, `Unlocked` | `blobs.lock`; `StoreLock::acquire` in its steps, `is_stale_lock`, `remove_lock_file_if_owned` |
| `SaveUnguarded`, `SkipCollection` | what the two callers do when `lock_blob_store` fails |
| `BeginSave`, `LookForBlob`, `TouchBlob`, `WriteSession`, `EndSave`, `SaveFails` | `Session::save` with `write_blobs` |
| `BeginSweep`, `Look`, `Claim`, `Purge`, `Pack`, `DropPlain`, `LeaveAlone`, `EndSweep` | `sweep_dir`, `compress_session_file` |
| `List`, `LateEntry`, `LostEntry`, `Mark`, `Marked`, `LookAtBlob`, `Unlink`, `EndCollection` | `collect_blob_garbage`, `sweep_blobs` |
| `AgeSession`, `AgeBlob`, `AgeLock` | time |

What it simplifies: the session's open-lock is ideal, and a window leaves a
session only between saves (the save pipeline's "lateWrite" is the rest). The
collector's listing is begun in one step and read on lazily, as `read_dir` is: until
its end a file that appears may be given too (`LateEntry`), and one that is gone may
be left out (`LostEntry`). What a directory may do besides, when a session file is
replaced by its other form while it is read, is to give neither; that is the race
"lazyList". The sweep's own listing is one step. A compressed copy and its time
appear together. The round journal, the transcript and the sub-agents' files, which a
purge removes with the session, are left out. Time is bounded in four places:
a lock cannot get stale while its live owner is between creating and stamping it;
an attachment does not pass its grace while a save that refers to it is among
the attachments, or while a collection runs; a session file written during a
collection does not reach the ages of a sweep, which are days, before the
collection is over (without this a purge could bring back, under the collector, an
earlier copy that its listing has missed); and, unless "staleAge" is allowed, a
session the sweep found old is not written before the sweep has its open-lock.

### Turns

The interactive main agent in one process. The UI is one task (`loop` says where
it stands); every turn or compaction is a task in a slot of `Task`, which is
used again once nobody names it. One action is what a task does between two
awaits or locks.

| Model | Code |
|---|---|
| `loop`; `DeliversBackground`, `DeliversPeer`, `Draws`, `Ticks`, `HandlesMessage` | the loop of `tui.rs`, in the order it does them: deliver what landed, deliver one peer's message, draw, wait for an input, a message or a tick |
| `handle`, `reap`, `compactQ`, `quitting` | `turn_handle`, `quit_reap`, `pending_compaction`, `should_quit` |
| `running`, `owner`, `queue` | the registry entry: its running flag, its turn generation (whose `begin_turn` made it), its queue; `Merged` is the merging of adjacent user messages in `enqueue` |
| `Launches`, `Compacts`, `Aborts`, `CancelTurn` | `launch_turn`, `spawn_compaction`, the abort of `turn_handle`, `cancel_turn` |
| `Opens`, `HookPasses`, `HookBlocks`, `Round`, `CallsTools`, `Answers`, `Summarizes`, `Reports` | the spawned task: pop the opener, the `user_prompt` hook, rounds that take what is queued, the report |
| `GuardJudges`, `GuardWrites`, `Drops` | `RunGuard::drop`: compare the generation, then write the entry; an aborted task's future dropped at an await |
| `Resumes`, `HandlesDone`, `HandlesCompacted` | the handlers of `Done` and `Compacted` |
| `Clears`, `Forgets`, `Wipes` | `clear_all`: cancel, empty the queue, `Agent::clear` at once or, while the aborted task still has the lock, in a spawned task that waits for it |
| `Quits`, `ShutsMessaging`, `Exits` | the way out: cancel, report undelivered messages, await the aborted task, final save |
| `raced` | history: a turn was begun, or a message queued, while the end of another was still under way; from then on the code's own bookkeeping may be wrong, and the properties that depend on it say nothing |

### Delegation

A parent turn that delegates jobs, each once. A job has its `task` call, its slot,
its registry entry, its row in the task list, its worker and its handle, and
these come and go one by one.

| Model | Code |
|---|---|
| `used`, `TakesSlot`, `ReturnsSlot` | `SubagentSlots`: one compare-and-set, one drop |
| `Delegates`, `Builds`, `DropsCall`, `Registers`, `Publishes` | `SubagentTool::execute` and `spawn_background`: slot, workspace and agent, entry, then row, worker and handle; a call of an interrupted turn is dropped at an await or runs past its last one |
| `Begins` .. `FinishesOrContinues`, `Records`, `Leaves`, `Dies` | the worker: its run, its rounds with the budget check and the accounting, `continue_or_finish`, its row, its guards |
| `ParentBegins` .. `ParentFinishesTools`, `Folds` | the main agent's turn; results are folded into its history between rounds |
| `Sends`, `Steers` | `send_prompt` from the parent's tool or the user's pane |
| `Cancels`, `Marks`, `Cancelled` | `task_cancel`: abort, wait, mark the row |
| `Interrupts`, `ClearAborts`, `ClearForgets` | the user's interrupt, and /clear, which aborts the workers and then clears without waiting for them |

`cut` marks a job whose `task_cancel` was interrupted in its wait, `late` a call
that was still registering when the conversation was cleared, `silenced` a job
reported cancelled; the properties name what these still allow.

### Refresh

One ChatGPT credential, an access token and a refresh token, each the number of
the grant that made it. The server accepts the refresh tokens in `live`; if it
rotates them, a token is accepted once.

| Model | Code |
|---|---|
| `store`, `stamp`, `cache`; `Load`, `Reads`, `Writes` | `auth.json`, its modification time, `OAUTH_LOAD_CACHE`; `load_oauth_entry_at`, `save_entry_at` |
| `refreshing`, `Gate`, "waits" | `CoordState`, the life of a `RefresherGuard`, a registered `Notified` |
| `Calls`, `Decides`, `Rechecks`, `Checks`, `Persists` | `refresh_oauth_if_needed`, and `coordinated_access_core` cut where it reads or writes the store |
| `Closes`, `Wakes` | `RefresherGuard::drop`: clear the flag, then `notify_waiters` |
| `Grants`, `Refuses`, `TimesOut` | the server and the HTTP client: the server acts first, the answer may be lost |
| `Cancels`, `Crashes` | a turn dropped at one of the two awaits; the end of a process |
| `LogsIn`, `LogsOut`, `Expires` | a browser login, the deletion of `auth.json`, time |

`lost` and `blind` are history variables that hold the causes the properties
excuse: a spent token whose successor was never stored, and a task whose last
look at the store is not what is there now. A write under the store lock is one
step (the lock itself is in `Retention`). One server policy holds for a behaviour.

## Runs

Each run below ends within the five minutes a run is given; the numbers are
distinct states.

| Run | States | What it asks |
|---|---|---|
| `SaveOneProcess` | 667,581 | One process, one session, six messages, a compaction, an attachment, one failing file operation, a crash and a restart. The cursor describes the files, adopted rounds survive, nothing is replayed twice, and the pipeline implements `LatestWins` |
| `SaveTwoProcesses` | 1,149,579 | Two processes, each of which may open the session the other left by dying, five messages, one failing file operation. The files never go back to an older state |
| `SaveAllRaces` | 383,589 | One process, two sessions, every race. A snapshot goes to its session; quitting ends |
| `SaveExitEarly` | violation | the exit before the last write |
| `SaveStaleCursor` | violation | the cursor kept across a resume |
| `SaveNewSession` | violation | the mirror kept across /new |
| `HandoffAll` | 345,550 | Three processes, both platforms, two failures, one crash, the open-lock in its steps. One worker on the session, a commit claimed once, the committed snapshot kept, and recovery |
| `HandoffStaleJournal` | violation | the journal that outlives its handoff |
| `RetentionAll` | 2,079,499 | Two windows, each with its sweep, two sessions (one named by the user), one attachment, two saves, one crash or failure. The store lock excludes, attachments stay while a session names them, fresh and named sessions stay |
| `TurnsAll` | 205,790 | Twelve plans. No message is lost or delivered twice, and nothing queued before a /clear outlives it, a peer's message is delivered, discarded with a notice or reported; a live turn is the one an interrupt reaches; what is queued is served, results are delivered, quitting ends with the agent's lock free |
| `DelegationAll` | 150,944 | Five plans. Slots bound the workers, the overshoot of the budget is bounded, a steer is heard, a result is told once and to its own conversation, no entry or row stays running |
| `RefreshAll` | 225,419 | Five plans. One refresh at a time, no waiter forgotten, a refresh token spent twice or stranded only for a named cause, a login kept, calls end |

Why these bounds are enough to be of interest:

- *Save runs.* The interesting distances are: cursor at the .json or past it
  (two rounds), a save in flight with one pending behind it (three rounds), a
  compaction that leaves the length equal, shorter or longer, an append after a
  failed append. Six messages give a prompt, an opener and four rounds or
  changes. One failure can hit every file operation; a second failure meets the
  cursor already reset. A compaction summarizes two messages (`CompactHeads`), so
  that it shortens the history; one that summarizes a single message is a known
  case, see *Findings*. A crash is paid for by a start, so every crash can be
  followed by a load. `SaveTwoProcesses` lets a process leave its session only by
  dying: with "switch" allowed `DiskNeverOlder` is false, although it takes seven
  messages to see it (*Findings*, 2). `ChanCap` 3 makes tasks wait at the channel in
  `SaveOneProcess`; `SaveAllRaces` has room for every message (8) because a
  full channel on the way out is a known hang, see *Findings*.
- *Handoff runs.* A source, its successor or coordinator's launch, and a third
  window are all the roles at once, and `Forget` lets them return. Two failures
  allow a Commit that fails and an Abort that fails after it. Two processes can
  judge one lock file; that a third is created before both have removed it is
  "reapRace", which `Allowed` leaves out. Symmetry is not
  used: the runs with liveness must not use it and the others do not need it.
- *Retention runs.* Two sessions let one be purged while the other names the
  same attachment; two sweeps let one compress what the other's collector has
  listed, which is when a session file is gone under the collector. A crash can
  leave both copies of a session, or the store lock with its dead owner. Tasks
  are alike, and the properties are invariants and action properties, so the
  runs use symmetry. Before the listing was made lazy, three windows of which one
  sweeps were tried too, with the same result.

- *Turns.* A plan names two or three things that happen around the agent: two
  messages (which merge), a message and a peer, two peers, a message or a peer and
  a result, compactions of both panes; with an interrupt, a /clear or quitting; two
  messages with an interrupt and then quitting, which interrupts again.
  Three task slots hold a turn, the aborted one before it and the one launched
  in between.
- *Delegation.* One slot per kind: two readers compete for it, a writer runs
  beside a reader. A budget of three calls is used up by the parent and one or two
  jobs. One steer, one cancel, one interrupt and one clear can each fall between
  any two steps of a job.
- *Refresh.* A refresher, two waiters in its process and a refresher in another;
  three grants are the first credential, a refresh and a login (or a refresh of
  each process). The plans pair a login with a cancelled turn, with a coarse clock
  and with a logout, and a failed write with a crash; the server rotates tokens in
  all of them but the last.

`CHECK_DEADLOCK FALSE` is set where every process may have quit (the save pipeline,
the handoff, `TurnsAll`) or the calls of a plan are used up (`RefreshAll`).

### Fairness

- `SavePipeline`: weak fairness of save tasks (the runtime polls a ready task),
  of the UI loop taking a message, and of the flush. Nothing is asked of the
  user or of the model, and a turn may run for ever. The property that quitting
  ends needs no more: the flush only waits for save tasks.
- `Handoff`: weak fairness of a process that is starting, recovering, finishing
  a commit or leaving; that a window without the session is closed some day; and
  that hrdr is started again in the directory (`Forget`, `Start`). Strong
  fairness of a recovery meeting a free lock, and of one recovery taking it: the
  code retries (the coordinator's recovery), dies and is started again (the
  others), and does not queue, so without it two starts could collide for ever.
  This is an assumption about the environment and not something the code
  ensures.
- `Turns`: weak fairness of the loop and of each task; strong fairness of
  handling a message of the channel, because `tokio::select!` picks among ready
  branches at random, and of a turn's last answer, because `max_steps` bounds its
  rounds. Background work ends. The user need do nothing.
- `Delegation`: weak fairness of calls, workers, the end of a clear and of
  `task_cancel`'s wait (which has a timeout); strong fairness of a worker's last
  answer, for `max_steps` again.
- `Refresh`: weak fairness of what a task does by itself, in which a request that is
  not answered ends at its deadline. The server owes no answer.

`CommitIsRecovered` excepts two ends: the lock left by a dead process that is not
the source (see *Findings*), and a source that goes on
with the session because the append of its commit or its launch failed.

## Proofs

TLAPS checks the theorems for every value of the constants, under
the assumptions the modules name and no others (bounds are naturals, nobody is not a
process, a task has a home, jobs are finitely many). The theorems of each machine are
about `Spec`, so they need no fairness. Three of `Retention_proofs`, five of
`Handoff_proofs` and all of `SaveFiles_proofs` have a hypothesis on the constant
`Allowed` besides; it says which of the races the code is exposed to are left out.

`SavePipeline_proofs`:

- `SpecIInv`: `Spec => []IInv`, with `IInv == SharedOK /\ PipelinesOK`. SharedOK
  types files, locks and counters; PipelinesOK types each process's part and
  adds the accounting that makes "one writer" inductive. `inFlight` alone is not
  enough: between the end of a task's write and the UI's handling of its
  message, the task is gone as a writer while a token for it is in the channel.
  `Accounted` counts unreported tasks and unread `saved` messages together: while
  the process runs there is at most one, and if there is one, `inFlight` holds.
  Two more parts are needed: a pending snapshot implies a session and a save in
  flight, and a task's snapshot is of the task's session.
- From it: `TypeCorrect` (`TypeOK`), `AtMostOneWriter` (`OneWriter`),
  `NoSnapshotForgotten` (`PendingBehindASave`) and `SessionsNotMixed`
  (`SnapshotKeepsItsSession`).

The proof of each step is one lemma per action over the part of one process it
touches, and two generic lemmas say that the other processes' parts stay.

`SaveFiles_proofs`, whose theorems take `Allowed = {}`, as the run `SaveOneProcess`
does: a UI that is in step with its agent, an abort that lands at once, a process that
keeps its session and does not quit. Any number of processes, sessions and messages,
failed and torn writes, crashes and restarts are covered.

- `SpecSaveInv`: `Spec => []SaveInv`, with
  `SaveInv == IInv /\ OwnsOK /\ FilesOK /\ ProcessesOK` (and the hypothesis). None of
  the four properties is inductive, because they speak of a process whose saves have
  settled, and a process is seldom there: the agent is ahead of the UI by what the
  channel holds, the UI is ahead of the snapshot being written, and that is ahead of
  the files. `Ordered` says how each of these histories follows from the one behind it
  (`Follows`: a message that both have has not moved back, and what was no longer the
  last message does not become the last again). That is why a length and the digest
  of one message, all the code compares, are enough to recognise the history a journal
  extends: `plan_round` and `persist_mid_turn` compare nothing else. `TaskFits` says
  what a save task needs at each of its stages, `FilesKnown` and `Exact` what is true
  of cursor and mirror when a report comes back, `TurnOK` what the channel still holds
  for the mirror. `FilesOK` says that a journal which a crash or a failed removal left
  behind cannot be taken for one that extends the new .json: its anchors are messages
  that are no longer last. `OwnsOK` keeps other processes from these files.
- From it: `CursorIsRight` (`CursorMatchesFiles`), `FilesHoldTheMirror`
  (`AdoptedRoundsSurvive`, if `1 \notin CompactHeads`: see *Findings*), `QuietIsDurable`
  (`QuietMeansDurable`) and `JournalsReplayOnce` (`NoMessageTwice`). With `SavePipeline_proofs`
  this is every invariant `SaveOneProcess` checks.
- `DiskGrows` (`DiskNeverOlder`, an action property). `Follows` also says that the later
  history is not older (`NotOlder`), which every change of the history keeps, since it
  draws a new message. Each step that writes a file (`JsonGrows`, `RemovalGrows`,
  `AppendGrows`, `FirstSaveGrows`, `CrashGrows`) leaves what follows what a load gave
  before, or the same. What remains is that `Newest` is the greatest message
  (`NewestIs`), since a bounded set of naturals has a greatest element.
- `WritesLatest` (`ImplementsLatestWins`), for an instance of one process, if
  `1 \notin CompactHeads`. `InitImplements` maps the initial state; each action maps as
  follows, and `StepImplements` puts them together. A save that is requested is a
  `Request`, or a `Switch` (which may leave the session as it is) when the cursor says
  that nothing is to be added; opening or leaving a session is a `Switch` too; a first
  synchronous save is `StoreFirst`; `WriteJson` and `AppendRound` are `Land`, or `Fail`
  when they fail; a report taken off the channel is an `Acknowledge`; a crash is `Lose`;
  all others stutter. That an appended round is a `Land` is the heart of it:
  `RoundAppended` says that a load then gives the mirror's `Adopted`, and in an unbroken
  history that is the snapshot itself (`AdoptedFits`).

`Handoff_proofs`:

- `LostOnlyByReap`, without a hypothesis: a step that ends `OneHolder` is one in which a
  process that judged an earlier lock file removes, by its path, the file of the process
  that holds the session by then. The lock is safe in every other step, whatever
  crashes, is judged or is refused: so that this race is the open-lock's only hole is
  proved and not assumed. It follows from `TypeCorrect` (`TypeOK`), also
  without a hypothesis.
- `SpecIInv`: `Spec => []IInv` if "reapRace" is not allowed, with
  `IInv == TypeOK /\ OneHolder /\ ReapersAlone /\ LeavesAlone /\ JournalOK`. `OneHolder`
  is not inductive with the types, since a process may be about to remove a lock file
  by its path. `ReapersAlone` says that nobody holds the session while somebody is;
  that it stays so is where the hypothesis is used, and only there.
  `OneWorker` needs more, because a source that is leaving has let go of the lock and
  still counts as working. What keeps others out is the journal: the last frame is
  the source's own commit (`JournalFollows`), no claim passes its check while the
  source lives, and no resume passes a commit; `LeavesAlone` says the result.
  `ClaimedOnce` needs that whoever is about to append a Claim has a Commit as the
  last frame, which holds because only the holder of the lock appends.
- From it, under the same hypothesis: `OneLockHolder` (`OneHolder`), `OneSessionWorker`
  (`OneWorker`), `CommitClaimedOnce` (`ClaimedOnce`) and `CommittedKept`
  (`CommittedSnapshotKept`). With `TypeCorrect` this is every safety property
  `HandoffAll` checks.

`Delegation_proofs`:

- `Inductive`: `Spec => []Ind`. The slots are counted by `Holders`: a job holds
  its slot from `Delegates` until its call is dropped or its worker is gone, so the
  count needs that a worker exists exactly when its call has returned
  (`CallsMatch`). The overshoot follows from the slots: whoever is calling the
  model holds one, or is the parent. `SteersHeard` needs that an agent shown as
  running has a run that will look at its queue (`RunsAreShown`), and
  `UnpolledIsOwed` covers the worker that was aborted before it was first polled.
  `HandlesKept`, `ClearFinds` and `OldOnes` say what a clear reaches, and
  `CallsAreBatched` and `RowsTell` tie calls and rows to the parent's turn.
- From it: `Types` (`TypeOK`), `SlotsAreCounted` (`SlotsBound`), `OvershootIsBounded`
  (`OvershootBounded`), `SteersAreHeard` (`SteersHeard`), `ResultsAreAccounted`
  (`ResultsAccounted`) and `RunningAreReal` (`RunningIsReal`): every safety
  property `DelegationAll` checks.

`Refresh_proofs`:

- `Inductive`: `Spec => []Ind`. `GateKept` is inductive with the types.
  `ChainKept` and `RefusedForCause` are about the server's tokens, and need that
  every refresh token about is accepted or was spent on record (`Issued`), that a
  rotated token which is not stored yet is known to its task alone (`Unshared`),
  that this task's request is on record as having spent the one before
  (`SpentIsKnown`), and that whoever is about to write and is not blind has seen
  nothing newer (`LooksFirst`).
- From it: `Types` (`TypeOK`), `GateIsKept` (`GateKept`), `ChainIsKept`
  (`ChainKept`), `RefusalsHaveACause` (`RefusedForCause`) and `LoginsAreKept`
  (`LoginsKept`, an action property): every safety property `RefreshAll` checks.

`Retention_proofs`, whose theorems name the races they exclude as hypotheses on
`Allowed`:

- `Typed` is `TypeOK` with the shape of each task's work list (`Shape`). From it,
  without a hypothesis: `Types` (`TypeOK`, which includes that a session is handled
  only by the holder of its open-lock).
- `LockKept`: whoever is in the guarded section is named, stamped, by the store lock's
  file, and the owner of a lock that is being reaped is dead. Exclusion alone is not
  inductive, since what a waiter judged must still hold when it removes the file.
  Gives `StoreLockExcludes` (`StoreExclusion`) unless "reapRace" is allowed.
- `FilesOrdered` and `Handled`: of a session's two copies the compressed one is never
  the later save's, and what a save or a compression has in hand is newer than, or
  equal to, what it will remove. With `PurgesOld` (what is about to be purged is
  old) they give `SessionsAreKept` (`SessionsKept`) unless "staleAge" is allowed.
- `BlobsStored` and `NamedSpared`: for each attachment that a session's file names, a
  collection has kept its name, has yet to read a file that names it, or finds the
  attachment or the file in front too young. Compression moves a name from
  a listed file to one that is not, which `CopyOfListed` follows. They give
  `NamedBlobsAreKept` (`NamedBlobsKept`) unless "reapRace", "reuse", "staleAge" or
  "lazyList" is allowed: saves that go on without the lock ("unguarded") and a listing
  that gains and loses entries while it is read (`ReadingMoves`) are covered.

`Turns_proofs`, whose theorems have no hypothesis:

- `Typed` is `TypeOK` with the shape of the queue (no element is empty, and one that
  begins with the user's message holds only the user's) and with what a task may
  carry where it stands. Gives `Types` (`TypeOK`).
- `OneHolds`: the agent's lock has one holder. A task takes it only when nobody has
  it, and the clear that wipes the history waits for it.
- `Ordered`: either a turn was begun late (`raced`), or one task works at a time and no
  report of another waits (`OneWorks`), the live turn is the one the handle, the
  running flag and the generation name (`Owned`), and one that was aborted and still
  works is the one that quitting awaits (`Abandoned`). `TurnIsOwned` alone is not
  inductive: it does not keep the report of an earlier task, which clears the handle,
  or an earlier guard, which clears the flag, from being still to come. The frame's
  look at the flag is part of it,
  since the UI decides in a later step on what it saw. Gives `TurnsAreOwned`
  (`TurnIsOwned`) and `SavesLockFree` (`FinalSaveIsLockFree`, an action property).
- `Conserved`: the places a message can be in are disjoint and together hold all that
  entered (`InPlace`), no place holds one twice (`Once`), the inbox holds what was
  accepted and is not on its way (`InboxKept`), and what a clear found is nowhere
  again (`Erased`). It holds through the races too. Gives `MessagesAreKept`
  (`MessagesKept`) and `PeersAreAccounted` (`PeersAccounted`).

`Conserved` is about what the queue's elements hold end to end, which is a recursive
function (`FlattenSeq`). `SequenceLemmas` proves what it does with an appended, a
removed and a merged element by an induction over the naturals stated for a set,
`NatSetInd`, which follows from the pigeonhole principle.

The invariants of `Retention_proofs` and of `Turns_proofs` were checked by TLC on the
instances of `RetentionAll` and `TurnsAll` before they were proved.

Only model-checked: all liveness (`QuitTerminates`, `QuitEnds`, `QueueIsServed`,
`ResultIsDelivered`, `CommitIsRecovered` and the others). Liveness under fairness and
ENABLED are out of the prover's reach, and so are RECURSIVE operators, of which no module
here declares one, and the library's induction theorems, which take an operator.

## Findings

Each is a run TLC ends with a counterexample.

1. **Exit before the last write** (`SaveExitEarly`, `hrdr-tui/src/app/session.rs:640`).
   Every save task calls `notify_one`; nobody waits during normal work, so a
   permit is left, and the first wait of `await_saves` returns at once.
2. **Cursor kept across a resume** (`SaveStaleCursor`, `session.rs:492`). Leave a
   session, let another window extend it, come back: rounds are appended to a
   journal with the old base, which no load replays. It can be worse. If the other
   window had left a journal of its own (it died in the middle of a turn), the first
   round after coming back opens a fresh journal over it
   (`hrdr-agent/src/session.rs:1139` truncates), and a load then gives less than it gave
   before: with "switch" allowed and seven messages `DiskNeverOlder` fails.
3. **Mirror kept across /new** (`SaveNewSession`, `commands.rs:60`). The first save
   of the new session holds the messages of the old one.
4. **Handoff journal outlives its handoff** (`HandoffStaleJournal`,
   `handoff_journal.rs:702`). After a Claim or an Abort the next save changes the
   snapshot the frames are bound to; every later resume of that session is refused.

Met while modelling, in the model or excluded from a run by `Allowed`, without a
run of their own:

- The open-lock is let go of (/new, resume, handoff) while a save of the session
  may be in flight (`commands.rs:105`): with "switch" and "lateWrite" allowed
  `DiskNeverOlder` fails in an instance like `SaveTwoProcesses`.
- A quit no longer drains the event channel: a save task waiting to send to a full
  channel never notifies, and the flush waits for ever (`app.rs:403`): with a small
  `ChanCap`, `QuitTerminates` fails.
- Enter pressed, or a background result delivered, between the drop of the run guard
  and the handling of `Done` starts a turn whose handle and flag that `Done`
  clears: it runs unseen, an interrupt does not reach it, and it is not saved at
  its end (`messaging.rs:391`, `app.rs:1763`, `app.rs:3823`, `app.rs:3615`). This
  is the exception `raced` of `TurnIsOwned`.
- History events of a cancelled turn are applied once a new turn is live
  (`app.rs:3538`).
- A compaction may summarize a single message: the split of a turn that outgrew its
  budget may begin at message 2 (`hrdr-agent/src/compaction.rs:563`). The history then
  has as many messages as before and the same last one, so `persist_mid_turn`, whose
  comment says "a history it rewrote (a compaction) is copied whole"
  (`hrdr-tui/src/app/session.rs:257`), and `plan_round` take it for unchanged: mirror and
  files keep the old head, and a crash before the turn's full save brings it back. With
  1 in `CompactHeads` (and a seventh message) `AdoptedRoundsSurvive` fails in an instance
  like `SaveOneProcess`; the other three invariants about the files hold. It is why
  `FilesHoldTheMirror` has its second hypothesis.
- The same permit as in 1 makes two save tasks write at once during the flush,
  which is why `OneWriter` speaks of running processes.
- Two waiters that judge one stale store lock may each remove what the path names
  then, and the second removes the lock the first has just created
  (`store_lock.rs:238`): with "reapRace" allowed `StoreExclusion` fails.
- The open-lock has the same hole (`hrdr-agent/src/session.rs:845` and 852), although the
  comment at line 643 says "Only one hrdr instance may hold a given session open at a
  time". With "reapRace" allowed in an instance like `HandoffAll`, `OneWorker` fails: a
  process dies holding the lock; a window that resumes the session and a recovery both
  judge its file; the recovery removes it, creates its own and goes on to its claim; the
  window then removes that file by its path and creates another; both end up working on
  the session. `LostOnlyByReap` is proved and says that there is no other way.
- The collector reads the directory lazily while other sweeps compress sessions
  (`hrdr-agent/src/session.rs:2128`). If the reading passes the place of the
  compressed file before it appears and that of the plain one after it is gone,
  neither is given, although the comment at line 2111 means that an incomplete mark set
  is never acted on. With "lazyList" allowed `NamedBlobsKept` fails: the other sweep
  compresses a session while the first collects, and an attachment it names is removed.
  Whether it happens depends on how the file system orders its entries.
- The sweep reads the age of a session before it takes its open-lock
  (`hrdr-agent/src/session.rs:2048`): a session saved and closed in between is
  purged, and with "staleAge" allowed `SessionsKept` fails.
- A save that crashes before it removes the compressed copy leaves it to age on
  its own (`session.rs:1224`). Its purge removes the transcript and the journal of
  the session that is still in use. If it is the plain file that is purged
  first, the earlier copy is what a load returns, and its attachments may be gone,
  which is why `NamedBlobsKept` excepts a step back.
- The exec successor does not retry a busy lock (`hrdr-tui/src/lib.rs:236`): a
  window that tries to resume at that moment makes it die. A later start recovers
  the session.
- A discovered recovery insists on the lock of the handoff's source and reaps no
  other (`hrdr-agent/src/session.rs:845`). One that dies between taking the
  open-lock and its Claim leaves a lock that makes every later start in the directory
  fail, although the comment at `session.rs:647` says a dead process's lock "is reaped
  on the next open". `CommitIsRecovered` names this end (`Stranded`).
- A save that could not take the store lock relies on the grace of its blobs, but
  a blob stored long ago has none until the save refreshes it, and the collector
  may have read its age by then (`attachment_store.rs:252`; the comment at line 48
  says the grace keeps them alive): with "reuse" allowed `NamedBlobsKept` fails.
- `Compacted` is handled without a check that it is the current task's
  (`app.rs:3759`), `/compact` of a sub-agent's pane keeps its handle where the main
  turn's is kept (`app.rs:3471`), a second interrupt replaces the task quitting will
  await (`app.rs:3120`), and a background result is delivered to a window that is
  quitting (`app.rs:3823`): each is in `Turns`.
- The comment at `app.rs:3115` says that an aborted task which is not awaited is "simply
  reaped by the next quit or overwritten by the next turn — harmless either way". It is
  not when the second turn is begun before the aborted first has landed: interrupt,
  submit, quit. The quit's own interrupt puts the second task in the place of the first,
  which nobody awaits any more; if it still has the agent's lock, the final save finds
  it held and is skipped. This is the exception `raced` of `FinalSaveIsLockFree`; without it
  the plan of `TurnsAll` that has an interrupt and a quit violates the property.
- A result that lands while the loop waits with nothing animated wakes nobody
  (`tui.rs:175`; the README of hrdr promises waking at line 757): it is delivered
  after the next input. This is the exception `Asleep` of `ResultIsDelivered`.
- A message the `user_prompt` hook is looking at is lost when the turn is interrupted
  (`turn_loop.rs:1014`): it is in `refused` in `MessagesKept`.
- A /clear between the drop of a turn's run guard and the handling of its `Done`
  finds the entry idle and empties the queue (`commands.rs:81`): a message that was
  waiting behind the turn goes without being given back, as it is when the turn
  still runs. It is in `dropped` in `MessagesKept`. A clear that waits for the lock
  of the turn it aborted may get it only after the next turn's task, and then clears
  what the user has sent since (`commands.rs:65`): `raced`.
- A message queued while only an aborted compaction is still shown as compacting
  waits for the next input; `QueueIsServed` excepts it as `raced`.
- A `task_cancel` interrupted in its wait leaves the row of its job running
  (`delegation.rs:2013`): the exception `cut`. A `task` call past its last await while
  the conversation is cleared registers a worker whose result lands in the new
  conversation: the exception `late`. The clear does not wait for the workers it
  aborts, so a cost may be added after the reset (`budget.rs:55`).
- A login saved between the refresher's look at the store and its write, or in the
  same tick of a coarse clock, is overwritten (`oauth.rs:856`), although the comment
  at line 855 says "login wins": the exception `blind` of `LoginsKept`. A stale
  cache entry lives until the file's time changes, not "at most one round"
  (`auth_store.rs:222`). A refresh under way when `auth.json` is deleted writes it
  again.
- An MCP request waits for its answer no longer than its deadline, but for its
  sending without one (`mcp/transport.rs:65`, for stdio and SSE), while the comment at
  `mcp/client.rs:200` says each send is raced against the deadline. The client is
  not modelled.

## Plan

Done: `SessionFiles`, `SavePipeline`, `LatestWins`, `Handoff`, `Retention`, `Turns`,
`Delegation` and `Refresh` with their runs; the proofs of every invariant and action
property that a passing run checks, and of the refinement of `LatestWins`.

Proofs that could follow: the theorems of `SaveFiles_proofs` for processes that also
quit or leave their session without coming back, which takes `SaveInv` for the states
of the flush and for a UI whose mirror and session part.

### Not modelled

Of the modelled parts:

- *Turns*: the gate a handoff closes on messages, the user's `!command` shell, a
  compaction inside a turn, deferred frames, rotation of the session, what /clear
  resets on the screen, and what a message says.
- *Delegation*: pinned panes, watches and cron rows, nudges, the compaction of a
  sub-agent, transcripts and snapshots, unpriced models, the length of
  `task_cancel`'s wait.
- *Refresh*: API keys, empty tokens, account ids, the browser flow, a server that
  changes its policy, and `valid_access_token`, which nothing calls.
- *Turn loop*: tool calls and their results, approvals, retries of a model call.
- *Open-lock and id reservations*: a lock file its owner has yet to be written to,
  degraded guards, and the reservation of an id (`session.rs:629`), which is judged and
  removed as the open-lock is.

Of the rest: the MCP client's matching of requests and responses, the retry policy and
the transcript reducer would each bear a small model and have none. The arithmetic of
schedules, text editing and the mutation queue are sequential per path and
unit-tested. Rendering, key handling and editing; configuration, skills and model
tables; provider formats; the classification of commands by the gate (string
analysis) and the sandbox (system calls); and test support, which with the unit
tests is most of the repository's lines, are sequential or made of I/O, and a model
would say nothing a unit test does not.
