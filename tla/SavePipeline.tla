---------------------------- MODULE SavePipeline ----------------------------
(***************************************************************************)
(* How the terminal frontend keeps a conversation on disk                  *)
(* (crates/hrdr-tui/src/app/session.rs).                                   *)
(*                                                                         *)
(* Four parties act for each hrdr process: the agent task, which grows the *)
(* history while a turn runs and posts snapshots of it; the UI thread,     *)
(* which adopts the snapshots, decides what to write and tracks one save   *)
(* in flight and one pending; the spawned save tasks, which write the      *)
(* files; and the user, who submits, cancels, switches session and quits.  *)
(* Several processes share the files, each session guarded by its          *)
(* open-lock, taken here as an ideal lock.                                 *)
(***************************************************************************)
EXTENDS SessionFiles, FiniteSets

CONSTANTS
    Proc,          \* hrdr processes
    Session,       \* session ids
    NoProc,        \* an open-lock nobody holds
    NoSession,     \* no id yet
    MaxMsg,        \* bound: messages ever written
    MaxFail,       \* bound: failing file operations
    MaxStart,      \* bound: processes started again after an exit or a crash
    ChanCap,       \* capacity of the channel to the UI (TUI_EVENT_CAP)
    CompactHeads,  \* how many messages a compaction may summarize
    Attached,      \* the messages that carry attachments
    Allowed        \* the races and operations this instance lets happen: a
                   \* subset of Races

\* "abortLag": an aborted turn may outlive its cancellation.  "switch": the user
\* changes session within a process.  "typeAhead": the user submits,
\* leaves or resumes before the UI has taken an earlier turn's events off the channel.  "lateWrite":
\* the session is left while a save of it is in flight.  "quit": the user quits
\* (a process may always crash).
Races == {"abortLag", "switch", "typeAhead", "lateWrite", "quit"}

ASSUME BoundsAssumption ==
    /\ {MaxMsg, MaxFail, MaxStart, ChanCap} \subseteq Nat
    /\ MaxMsg > 1 /\ ChanCap > 0
    /\ CompactHeads \subseteq Nat \ {0}
    /\ Attached \subseteq 1..MaxMsg
    /\ Allowed \subseteq Races

ASSUME NamesAssumption == NoProc \notin Proc /\ NoSession \notin Session

VARIABLES
    json,      \* [Session -> history]: <id>.json
    rounds,    \* [Session -> journal]: <id>.rounds
    owner,     \* [Session -> Proc or NoProc]: who holds the open-lock
    nextMsg,   \* the next message to be written
    fails,     \* file operations that failed
    starts,    \* processes started again
    ui,        \* [Proc -> the UI thread's state]
    agent,     \* [Proc -> the history the agent holds]
    turn,      \* [Proc -> "idle", "running", "unseen" or "aborting"]
    tasks,     \* [Proc -> sequence of save tasks]
    chan,      \* [Proc -> the channel to the UI]
    permit     \* [Proc -> the permit stored in save_done]

files == <<json, rounds>>
budget == <<nextMsg, fails, starts>>
vars == <<json, rounds, owner, nextMsg, fails, starts,
          ui, agent, turn, tasks, chan, permit>>

Message == 1..MaxMsg
History == Seq(Message)

\* The system prompt: the first message of every history.
Sys == 1
Blank == <<Sys>>

-----------------------------------------------------------------------------
(* The UI thread: what is on disk, what is in flight, what waits.          *)

\* Where the journal stands: the .json holds the first `base` messages and the
\* journal carries them up to `written`.
Cursor(s, base, baseAnchor, written, writtenAnchor) ==
    [sess |-> s, base |-> base, baseAnchor |-> baseAnchor,
     written |-> written, writtenAnchor |-> writtenAnchor]

NoCursor == Cursor(NoSession, 0, NoAnchor, 0, NoAnchor)

AfterFullSave(s, h) == Cursor(s, Len(h), Anchor(h), Len(h), Anchor(h))

Snapshot(s, h) == [sess |-> s, hist |-> h]
NoSnapshot == Snapshot(NoSession, << >>)

FreshUi ==
    [phase |-> "running", sess |-> NoSession, mirror |-> << >>,
     cursor |-> NoCursor, inFlight |-> FALSE, pending |-> NoSnapshot,
     pendingFull |-> FALSE, handle |-> FALSE, wait |-> "no"]

DownUi == [FreshUi EXCEPT !.phase = "down"]

\* Mutant: only the length is compared.
CanAppendByLength(c, s, h) == c.sess = s /\ Len(h) >= c.written

\* The history grew past the cursor and nothing that joined it has attachments:
\* the new messages may be appended to the journal.
CanAppend(c, s, h) ==
    /\ c.sess = s
    /\ Len(h) >= c.written
    /\ Anchor(Upto(h, c.written)) = c.writtenAnchor
    /\ \A i \in c.written + 1 .. Len(h) : h[i] \notin Attached

\* A save task: the snapshot it stands for, the session it writes and the one
\* the snapshot was taken in, and, for a journal append, what it appends.
FullTask(snap, s) ==
    [kind |-> "full", snap |-> snap, sess |-> s, stage |-> "write", ok |-> TRUE,
     base |-> 0, baseAnchor |-> NoAnchor, fresh |-> FALSE, tail |-> << >>]

AppendTask(snap, c) ==
    [kind |-> "append", snap |-> snap, sess |-> c.sess, stage |-> "write", ok |-> TRUE,
     base |-> c.base, baseAnchor |-> c.baseAnchor, fresh |-> c.written = c.base,
     tail |-> From(snap.hist, c.written)]

\* What an operation of the UI thread leaves: its state and the tasks it spawned.
Outcome(u, spawned) == [ui |-> u, spawned |-> spawned]

SpawnRound(u, snap) ==
    LET h == snap.hist
        c == u.cursor
    IN  IF Len(h) = c.written
        THEN Outcome([u EXCEPT !.pendingFull = FALSE], << >>)
        ELSE Outcome([u EXCEPT !.inFlight = TRUE,
                               !.cursor.written = Len(h),
                               !.cursor.writtenAnchor = Anchor(h)],
                     <<AppendTask(snap, c)>>)

SpawnSave(u, snap, full) ==
    IF ~full /\ CanAppend(u.cursor, u.sess, snap.hist)
    THEN SpawnRound(u, snap)
    ELSE Outcome([u EXCEPT !.inFlight = TRUE,
                           !.cursor = AfterFullSave(u.sess, snap.hist)],
                 <<FullTask(snap, u.sess)>>)

\* Mutants: the flag is not looked at; the snapshot that waits is kept.
EnqueueSaveAtOnce(u, full) == SpawnSave(u, Snapshot(u.sess, u.mirror), full)

EnqueueSaveFirstWins(u, full) ==
    IF ~u.inFlight THEN SpawnSave(u, Snapshot(u.sess, u.mirror), full)
    ELSE IF u.pending # NoSnapshot THEN Outcome(u, << >>)
    ELSE Outcome([u EXCEPT !.pending = Snapshot(u.sess, u.mirror), !.pendingFull = full], << >>)

EnqueueSave(u, full) ==
    LET snap == Snapshot(u.sess, u.mirror)
    IN  IF u.inFlight
        THEN Outcome([u EXCEPT !.pending = snap, !.pendingFull = @ \/ full], << >>)
        ELSE SpawnSave(u, snap, full)

\* Mutant: the session of the snapshot is not compared.
PromoteAnySession(u) ==
    LET v == [u EXCEPT !.pending = NoSnapshot, !.pendingFull = FALSE]
    IN  IF u.pending # NoSnapshot /\ u.sess # NoSession
        THEN SpawnSave(v, u.pending, u.pendingFull)
        ELSE Outcome(v, << >>)

PromotePendingSave(u) ==
    LET v == [u EXCEPT !.pending = NoSnapshot, !.pendingFull = FALSE]
    IN  IF u.pending # NoSnapshot /\ u.pending.sess = u.sess
        THEN SpawnSave(v, u.pending, u.pendingFull)
        ELSE Outcome(v, << >>)

\* Mutants: a failure leaves the cursor; the snapshot that waits is dropped.
OnSaveDoneKeepsCursor(u, ok) == PromotePendingSave([u EXCEPT !.inFlight = FALSE])

OnSaveDoneDropsPending(u, ok) ==
    Outcome([u EXCEPT !.inFlight = FALSE, !.pending = NoSnapshot, !.pendingFull = FALSE,
                      !.cursor = IF ok THEN @ ELSE NoCursor], << >>)

OnSaveDone(u, ok) ==
    PromotePendingSave([u EXCEPT !.inFlight = FALSE,
                                 !.cursor = IF ok THEN @ ELSE NoCursor])

\* Adopting the agent's mid-turn snapshot: only what the round added is copied,
\* unless the mirror is no prefix of the snapshot by length and anchor.
Adopted(mirror, h) ==
    IF Len(mirror) <= Len(h) /\ Anchor(Upto(h, Len(mirror))) = Anchor(mirror)
    THEN mirror \o From(h, Len(mirror))
    ELSE h

\* A turn is live for the UI: it holds its handle, or the agent says it runs.
TurnLive(p) == ui[p].handle \/ turn[p] = "running"

\* The agent's lock is free, so autosave can read its history.
AgentFree(p) == turn[p] = "idle"

\* An id nobody has taken: no file, no open-lock, no write on its way.
Unminted(s) ==
    /\ json[s] = << >>
    /\ owner[s] = NoProc
    /\ \A p \in Proc : \A i \in DOMAIN tasks[p] : tasks[p][i].sess # s

\* Process p's UI thread ends a handler with this outcome.
Commits(p, o) ==
    /\ ui' = [ui EXCEPT ![p] = o.ui]
    /\ tasks' = [tasks EXCEPT ![p] = @ \o o.spawned]

\* A synchronous full save by a session's first writer.
FirstSave(p, u, s) ==
    /\ Unminted(s)
    /\ owner' = [owner EXCEPT ![s] = p]
    /\ json' = [json EXCEPT ![s] = u.mirror]
    /\ rounds' = [rounds EXCEPT ![s] = NoJournal]
    /\ Commits(p, Outcome([u EXCEPT !.sess = s, !.cursor = AfterFullSave(s, u.mirror)],
                          << >>))

\* Save the mirror of UI state u: through the pipeline once the session has an
\* id; synchronously, minting the id, before.  A history without a user's
\* message is not saved.
Persist(p, u, full) ==
    \/ /\ u.sess # NoSession
       /\ Commits(p, EnqueueSave(u, full))
       /\ UNCHANGED <<files, owner>>
    \/ /\ u.sess = NoSession
       /\ Len(u.mirror) > 1
       /\ \E s \in Session : FirstSave(p, u, s)
    \/ /\ u.sess = NoSession
       /\ Len(u.mirror) <= 1 \/ \A s \in Session : ~Unminted(s)
       /\ Commits(p, Outcome(u, << >>))
       /\ UNCHANGED <<files, owner>>

\* autosave: skipped while a turn holds the agent's lock.
Autosave(p, u, free) ==
    IF free
    THEN Persist(p, [u EXCEPT !.mirror = agent[p]], TRUE)
    ELSE /\ Commits(p, Outcome(u, << >>))
         /\ UNCHANGED <<files, owner>>

-----------------------------------------------------------------------------
(* The agent task.                                                         *)

Fresh == nextMsg <= MaxMsg
TakesMessage == Fresh /\ nextMsg' = nextMsg + 1

Event(kind, h, ok) == [kind |-> kind, hist |-> h, ok |-> ok]

\* A turn holds the agent's lock.  An unseen one lost its handle and its running
\* flag to the previous turn's end.
AgentRuns(p) ==
    turn[p] \in {"running", "unseen"} /\ ui[p].phase \in {"running", "quitting", "flushing"}

\* A tool round is committed: its results join the history, and a snapshot of
\* it goes to the UI.
AgentRound(p) ==
    /\ AgentRuns(p)
    /\ TakesMessage
    /\ Len(chan[p]) < ChanCap
    /\ agent' = [agent EXCEPT ![p] = Append(@, nextMsg)]
    /\ chan' = [chan EXCEPT ![p] = Append(@, Event("history", agent'[p], TRUE))]
    /\ UNCHANGED <<files, owner, fails, starts, ui, turn, tasks, permit>>

\* A note to the model is added to the last message, after its round was posted.
AgentNote(p) ==
    /\ AgentRuns(p)
    /\ Len(agent[p]) > 1
    /\ TakesMessage
    /\ agent' = [agent EXCEPT ![p][Len(agent[p])] = nextMsg]
    /\ UNCHANGED <<files, owner, fails, starts, ui, turn, tasks, chan, permit>>

\* The agent compacts itself: the first n messages past the system prompt give
\* way to a summary.
AgentCompact(p) ==
    /\ AgentRuns(p)
    /\ Len(agent[p]) > 2
    /\ TakesMessage
    /\ \E n \in CompactHeads :
          /\ n + 1 <= Len(agent[p])
          /\ agent' = [agent EXCEPT ![p] = <<Sys, nextMsg>> \o From(@, n + 1)]
    /\ UNCHANGED <<files, owner, fails, starts, ui, turn, tasks, chan, permit>>

\* The turn ends with the model's answer, or with nothing more to say.
TurnEnds(p) ==
    /\ AgentRuns(p)
    /\ Len(chan[p]) < ChanCap
    /\ \/ TakesMessage /\ agent' = [agent EXCEPT ![p] = Append(@, nextMsg)]
       \/ UNCHANGED <<nextMsg, agent>>
    /\ turn' = [turn EXCEPT ![p] = "idle"]
    /\ chan' = [chan EXCEPT ![p] = Append(@, Event("done", << >>, TRUE))]
    /\ UNCHANGED <<files, owner, fails, starts, ui, tasks, permit>>

\* An aborted turn's task is dropped and lets go of the agent.
AbortLands(p) ==
    /\ turn[p] = "aborting"
    /\ turn' = [turn EXCEPT ![p] = "idle"]
    /\ UNCHANGED <<files, owner, budget, ui, agent, tasks, chan, permit>>

-----------------------------------------------------------------------------
(* The user, through the UI thread.                                        *)

Accepts(p) == ui[p].phase = "running"

\* The UI has taken every event of the agent's off the channel.
InStep(p) ==
    "typeAhead" \in Allowed \/ \A i \in DOMAIN chan[p] : chan[p][i].kind = "saved"

MaySubmit(p) ==
    /\ Accepts(p) /\ turn[p] = "idle"
    /\ InStep(p)

\* A message is submitted and a turn starts on it.  The first message of a
\* conversation reserves its id before the turn runs.
Submit(p) ==
    /\ MaySubmit(p)
    /\ TakesMessage
    /\ agent' = [agent EXCEPT ![p] = Append(@, nextMsg)]
    /\ turn' = [turn EXCEPT ![p] = "running"]
    /\ LET u == [ui[p] EXCEPT !.handle = TRUE]
           m == Append(u.mirror, nextMsg)
       IN  \/ /\ u.sess # NoSession
              /\ Commits(p, Outcome(u, << >>))
              /\ UNCHANGED owner
           \/ /\ u.sess = NoSession
              /\ \E s \in Session :
                    /\ Unminted(s)
                    /\ owner' = [owner EXCEPT ![s] = p]
                    /\ Commits(p, EnqueueSave([u EXCEPT !.sess = s, !.mirror = m], TRUE))
    /\ UNCHANGED <<files, fails, starts, chan, permit>>

\* A turn opened without a message of the user's own: nothing is reserved.
SubmitHidden(p) ==
    /\ MaySubmit(p)
    /\ TakesMessage
    /\ agent' = [agent EXCEPT ![p] = Append(@, nextMsg)]
    /\ turn' = [turn EXCEPT ![p] = "running"]
    /\ ui' = [ui EXCEPT ![p].handle = TRUE]
    /\ UNCHANGED <<files, owner, fails, starts, tasks, chan, permit>>

\* The turn is cancelled by a UI thread that leaves state u.  Its task may still
\* hold the agent's lock when the autosave tries it.
CancelTurn(p, u) ==
    /\ turn[p] = "running"
    /\ \E free \in {TRUE, "abortLag" \notin Allowed} :
          /\ turn' = [turn EXCEPT ![p] = IF free THEN "idle" ELSE "aborting"]
          /\ Autosave(p, [u EXCEPT !.handle = FALSE], free)

Cancel(p) ==
    /\ Accepts(p)
    /\ CancelTurn(p, ui[p])
    /\ UNCHANGED <<budget, agent, chan, permit>>

MayLeave(p) ==
    /\ Accepts(p) /\ InStep(p)
    /\ "switch" \in Allowed
    /\ ui[p].inFlight => "lateWrite" \in Allowed

\* /new and /clear: the id and the open-lock go, the agent starts over.
ClearAll(p) ==
    /\ MayLeave(p) /\ turn[p] \in {"idle", "aborting"}
    /\ ui[p].sess # NoSession
    /\ owner' = [owner EXCEPT ![ui[p].sess] = NoProc]
    /\ ui' = [ui EXCEPT ![p].sess = NoSession]
    /\ agent' = [agent EXCEPT ![p] = Blank]
    /\ UNCHANGED <<files, budget, turn, tasks, chan, permit>>

\* Mutant: the session is opened whoever holds its lock.
ResumeUnlocked(p, s) ==
    /\ MayLeave(p) \/ (Accepts(p) /\ agent[p] = Blank)
    /\ turn[p] # "running"
    /\ json[s] # << >>
    /\ owner' = [owner EXCEPT ![s] = p]
    /\ LET loaded == Recovered(json[s], rounds[s])
       IN  /\ ui' = [ui EXCEPT ![p].sess = s, ![p].mirror = loaded]
           /\ agent' = [agent EXCEPT ![p] = IF AgentFree(p) THEN loaded ELSE @]
    /\ UNCHANGED <<files, budget, turn, tasks, chan, permit>>

\* Session s is opened: its lock is taken, the previous one's let go, its files
\* are loaded and the state replaced.  The agent takes the history only if its
\* lock is free.
Resume(p, s) ==
    /\ MayLeave(p) \/ (Accepts(p) /\ agent[p] = Blank)
    /\ turn[p] # "running"
    /\ json[s] # << >>
    /\ owner[s] = NoProc
    /\ owner' = [t \in Session |-> IF t = s THEN p
                                   ELSE IF owner[t] = p THEN NoProc ELSE owner[t]]
    /\ LET loaded == Recovered(json[s], rounds[s])
       IN  /\ ui' = [ui EXCEPT ![p].sess = s, ![p].mirror = loaded]
           /\ agent' = [agent EXCEPT ![p] = IF AgentFree(p) THEN loaded ELSE @]
    /\ UNCHANGED <<files, budget, turn, tasks, chan, permit>>

\* The UI thread takes the next message off its channel.
HandleHistory(p, e) ==
    IF TurnLive(p)
    THEN Persist(p, [ui[p] EXCEPT !.mirror = Adopted(@, e.hist)], FALSE)
    ELSE /\ Commits(p, Outcome(ui[p], << >>))
         /\ UNCHANGED <<files, owner>>

\* A turn's end clears the handle and the running flag, whichever turn they are
\* now of.
HandleDone(p) ==
    IF TurnLive(p)
    THEN /\ Autosave(p, [ui[p] EXCEPT !.handle = FALSE], AgentFree(p))
         /\ turn' = [turn EXCEPT ![p] = IF @ = "running" THEN "unseen" ELSE @]
    ELSE /\ Commits(p, Outcome(ui[p], << >>))
         /\ UNCHANGED <<files, owner, turn>>

HandleSaved(p, e) ==
    /\ Commits(p, OnSaveDone(ui[p], e.ok))
    /\ UNCHANGED <<files, owner>>

HandleMessage(p) ==
    /\ ui[p].phase = "running"
    /\ chan[p] # << >>
    /\ chan' = [chan EXCEPT ![p] = Tail(@)]
    /\ LET e == Head(chan[p])
       IN  \/ e.kind = "history" /\ HandleHistory(p, e) /\ UNCHANGED turn
           \/ e.kind = "done" /\ HandleDone(p)
           \/ e.kind = "saved" /\ HandleSaved(p, e) /\ UNCHANGED turn
    /\ UNCHANGED <<budget, agent, permit>>

-----------------------------------------------------------------------------
(* Save tasks.  A task writes, posts its result, then notifies.            *)

\* Task i of process p moves on to this stage.
Reaches(p, i, stage) ==
    tasks' = [tasks EXCEPT ![p][i].stage = stage]

Fails(p, i) ==
    tasks' = [tasks EXCEPT ![p][i].stage = "send", ![p][i].ok = FALSE]

MayFail == fails < MaxFail /\ fails' = fails + 1

\* Session::save, first half: the .json is replaced atomically, or not at all.
WriteJson(p, i) ==
    LET t == tasks[p][i]
    IN  /\ t.kind = "full" /\ t.stage = "write"
        /\ \/ /\ json' = [json EXCEPT ![t.sess] = t.snap.hist]
              /\ Reaches(p, i, "clean")
              /\ UNCHANGED fails
           \/ MayFail /\ Fails(p, i) /\ UNCHANGED json
        /\ UNCHANGED <<rounds, owner, nextMsg, starts, ui, agent, turn, chan, permit>>

\* Session::save, second half: the journal it supersedes is removed, if it can be.
RemoveRounds(p, i) ==
    LET t == tasks[p][i]
    IN  /\ t.kind = "full" /\ t.stage = "clean"
        /\ Reaches(p, i, "send")
        /\ \/ rounds' = [rounds EXCEPT ![t.sess] = NoJournal] /\ UNCHANGED fails
           \/ MayFail /\ UNCHANGED rounds
        /\ UNCHANGED <<json, owner, nextMsg, starts, ui, agent, turn, chan, permit>>

\* Mutant: the head is left out.
AppendedJournalHeadless(t) ==
    IF t.fresh THEN [open |-> TRUE, tail |-> t.tail, torn |-> FALSE]
    ELSE AppendChunk(rounds[t.sess], t.tail)

\* The journal a complete append leaves, and what an interrupted one may leave.
AppendedJournal(t) ==
    IF t.fresh THEN Journal(t.base, t.baseAnchor, t.tail, FALSE)
    ELSE AppendChunk(rounds[t.sess], t.tail)

TornJournals(t) ==
    IF t.fresh
    THEN {HeadlessJournal, Journal(t.base, t.baseAnchor, << >>, TRUE)}
    ELSE {[rounds[t.sess] EXCEPT !.torn = TRUE]}

\* Session::append_journal.
AppendRound(p, i) ==
    LET t == tasks[p][i]
        opens == t.fresh \/ rounds[t.sess].open
    IN  /\ t.kind = "append" /\ t.stage = "write"
        /\ \/ /\ opens
              /\ rounds' = [rounds EXCEPT ![t.sess] = AppendedJournal(t)]
              /\ Reaches(p, i, "send")
              /\ UNCHANGED fails
           \/ /\ ~opens
              /\ Fails(p, i)
              /\ UNCHANGED <<rounds, fails>>
           \/ /\ opens
              /\ MayFail /\ Fails(p, i)
              /\ \E r \in TornJournals(t) \cup {rounds[t.sess]} :
                    rounds' = [rounds EXCEPT ![t.sess] = r]
        /\ UNCHANGED <<json, owner, nextMsg, starts, ui, agent, turn, chan, permit>>

\* The result goes to the UI; a full channel makes the task wait.
SendSaved(p, i) ==
    /\ tasks[p][i].stage = "send"
    /\ ui[p].phase # "exiting"
    /\ Len(chan[p]) < ChanCap
    /\ chan' = [chan EXCEPT ![p] = Append(@, Event("saved", << >>, tasks[p][i].ok))]
    /\ Reaches(p, i, "notify")
    /\ UNCHANGED <<files, owner, budget, ui, agent, turn, permit>>

\* save_done.notify_one: wakes the waiter, or leaves a permit when there is none.
NotifyDone(p, i) ==
    /\ tasks[p][i].stage = "notify"
    /\ ui[p].phase # "exiting"
    /\ tasks' = [tasks EXCEPT ![p] = RemoveAt(@, i)]
    /\ IF ui[p].wait = "waiting"
       THEN ui' = [ui EXCEPT ![p].wait = "woken"] /\ UNCHANGED permit
       ELSE permit' = [permit EXCEPT ![p] = TRUE] /\ UNCHANGED ui
    /\ UNCHANGED <<files, owner, budget, agent, turn, chan>>

SaveTask(p) ==
    \E i \in DOMAIN tasks[p] :
        \/ WriteJson(p, i) \/ RemoveRounds(p, i) \/ AppendRound(p, i)
        \/ SendSaved(p, i) \/ NotifyDone(p, i)

-----------------------------------------------------------------------------
(* Quitting, exiting, crashing.                                            *)

\* The user quits: a running turn is cancelled first.
Quit(p) ==
    /\ "quit" \in Allowed
    /\ Accepts(p)
    /\ LET u == [ui[p] EXCEPT !.phase = "quitting"]
       IN  \/ CancelTurn(p, u)
           \/ /\ turn[p] # "running"
              /\ Commits(p, Outcome(u, << >>))
              /\ UNCHANGED <<files, owner, turn>>
    /\ UNCHANGED <<budget, agent, chan, permit>>

\* The cancelled turn is reaped, so that the final autosave finds the agent's
\* lock free; a turn nobody sees is not.
FinalSave(p) ==
    /\ ui[p].phase = "quitting"
    /\ turn' = [turn EXCEPT ![p] = IF @ = "aborting" THEN "idle" ELSE @]
    /\ Autosave(p, [ui[p] EXCEPT !.phase = "flushing"], turn[p] # "unseen")
    /\ UNCHANGED <<budget, agent, chan, permit>>

Unsaved(u) == u.inFlight \/ u.pending # NoSnapshot

\* await_saves: one pass of its loop begins, on a stored permit or by waiting.
AwaitSaves(p) ==
    /\ ui[p].phase = "flushing" /\ ui[p].wait = "no"
    /\ Unsaved(ui[p])
    /\ permit' = [permit EXCEPT ![p] = FALSE]
    /\ ui' = [ui EXCEPT ![p].wait = IF permit[p] THEN "woken" ELSE "waiting"]
    /\ UNCHANGED <<files, owner, budget, agent, turn, tasks, chan>>

\* Mutant: the completion is left to the channel nobody reads.
AwaitWakesLeavesFlag(p) ==
    /\ ui[p].phase = "flushing" /\ ui[p].wait = "woken"
    /\ Commits(p, Outcome([ui[p] EXCEPT !.wait = "no"], << >>))
    /\ UNCHANGED <<files, owner, budget, agent, turn, chan, permit>>

\* The pass ends: the completion is taken as done and the next save promoted.
AwaitWakes(p) ==
    /\ ui[p].phase = "flushing" /\ ui[p].wait = "woken"
    /\ Commits(p, PromotePendingSave([ui[p] EXCEPT !.wait = "no", !.inFlight = FALSE]))
    /\ UNCHANGED <<files, owner, budget, agent, turn, chan, permit>>

Releases(p) == owner' = [s \in Session |-> IF owner[s] = p THEN NoProc ELSE owner[s]]

\* The UI thread returns and its state is dropped, the open-lock with it.  Tasks
\* the runtime has not polled yet are dropped; one already writing is let run to
\* its next await.
Exit(p) ==
    /\ ui[p].phase = "flushing" /\ ui[p].wait = "no"
    /\ ~Unsaved(ui[p])
    /\ Releases(p)
    /\ ui' = [ui EXCEPT ![p].phase = "exiting"]
    /\ \E unpolled \in SUBSET {i \in DOMAIN tasks[p] : tasks[p][i].stage = "write"} :
          tasks' = [tasks EXCEPT ![p] =
              [i \in DOMAIN tasks[p] |-> IF i \in unpolled
                                         THEN [tasks[p][i] EXCEPT !.stage = "dropped"]
                                         ELSE tasks[p][i]]]
    /\ UNCHANGED <<files, budget, agent, turn, chan, permit>>

Gone(p) ==
    /\ ui' = [ui EXCEPT ![p] = DownUi]
    /\ agent' = [agent EXCEPT ![p] = Blank]
    /\ turn' = [turn EXCEPT ![p] = "idle"]
    /\ tasks' = [tasks EXCEPT ![p] = << >>]
    /\ chan' = [chan EXCEPT ![p] = << >>]
    /\ permit' = [permit EXCEPT ![p] = FALSE]

ExitDone(p) ==
    /\ ui[p].phase = "exiting"
    /\ \A i \in DOMAIN tasks[p] : tasks[p][i].stage \notin {"write", "clean"}
    /\ Gone(p)
    /\ UNCHANGED <<files, owner, budget>>

\* A crash at any moment; an append under way may be left torn.  The dead
\* process's open-lock is reaped by whoever opens the session next.
Crash(p) ==
    /\ ui[p].phase # "down"
    /\ starts < MaxStart
    /\ Gone(p)
    /\ Releases(p)
    /\ \/ UNCHANGED rounds
       \/ \E i \in DOMAIN tasks[p] :
             LET t == tasks[p][i]
             IN  /\ t.kind = "append" /\ t.stage = "write"
                 /\ t.fresh \/ rounds[t.sess].open
                 /\ \E r \in TornJournals(t) : rounds' = [rounds EXCEPT ![t.sess] = r]
    /\ UNCHANGED <<json, budget>>

Start(p) ==
    /\ ui[p].phase = "down"
    /\ starts < MaxStart
    /\ starts' = starts + 1
    /\ ui' = [ui EXCEPT ![p] = FreshUi]
    /\ UNCHANGED <<files, owner, nextMsg, fails, agent, turn, tasks, chan, permit>>

-----------------------------------------------------------------------------
Init ==
    /\ json = [s \in Session |-> << >>]
    /\ rounds = [s \in Session |-> NoJournal]
    /\ owner = [s \in Session |-> NoProc]
    /\ nextMsg = Sys + 1 /\ fails = 0 /\ starts = 0
    /\ ui = [p \in Proc |-> FreshUi]
    /\ agent = [p \in Proc |-> Blank]
    /\ turn = [p \in Proc |-> "idle"]
    /\ tasks = [p \in Proc |-> << >>]
    /\ chan = [p \in Proc |-> << >>]
    /\ permit = [p \in Proc |-> FALSE]

AgentTask(p) ==
    AgentRound(p) \/ AgentNote(p) \/ AgentCompact(p) \/ TurnEnds(p) \/ AbortLands(p)

User(p) ==
    \/ Submit(p) \/ SubmitHidden(p) \/ Cancel(p) \/ ClearAll(p) \/ Quit(p)
    \/ \E s \in Session : Resume(p, s)

Flush(p) == FinalSave(p) \/ AwaitSaves(p) \/ AwaitWakes(p) \/ Exit(p) \/ ExitDone(p)

Next ==
    \E p \in Proc :
        \/ AgentTask(p) \/ User(p) \/ HandleMessage(p)
        \/ SaveTask(p) \/ Flush(p) \/ Crash(p) \/ Start(p)

Spec == Init /\ [][Next]_vars

\* The runtime polls a ready task, and the UI loop selects on its channel; the
\* user and the model owe nothing.
Fairness ==
    \A p \in Proc : /\ WF_vars(SaveTask(p))
                    /\ WF_vars(HandleMessage(p))
                    /\ WF_vars(Flush(p))

FairSpec == Spec /\ Fairness
-----------------------------------------------------------------------------
(* What the pipeline promises.                                             *)

SnapshotType == [sess : Session \cup {NoSession}, hist : History]

CursorType == [sess : Session \cup {NoSession}, base : Nat, baseAnchor : Message \cup {NoAnchor},
               written : Nat, writtenAnchor : Message \cup {NoAnchor}]

JournalType == [open : BOOLEAN, base : Nat, anchor : Message \cup {NoAnchor},
                tail : History, torn : BOOLEAN]

UiType == [phase : {"running", "quitting", "flushing", "exiting", "down"},
           sess : Session \cup {NoSession}, mirror : History, cursor : CursorType,
           inFlight : BOOLEAN, pending : SnapshotType, pendingFull : BOOLEAN,
           handle : BOOLEAN, wait : {"no", "waiting", "woken"}]

TaskType == [kind : {"full", "append"}, snap : SnapshotType, sess : Session,
             stage : {"write", "clean", "send", "notify", "dropped"}, ok : BOOLEAN,
             base : Nat, baseAnchor : Message \cup {NoAnchor}, fresh : BOOLEAN,
             tail : History]

EventType == [kind : {"history", "done", "saved"}, hist : History, ok : BOOLEAN]

\* The types of the variables.
TypeOK ==
    /\ json \in [Session -> History]
    /\ rounds \in [Session -> JournalType]
    /\ owner \in [Session -> Proc \cup {NoProc}]
    /\ nextMsg \in 1..MaxMsg + 1 /\ fails \in 0..MaxFail /\ starts \in 0..MaxStart
    /\ ui \in [Proc -> UiType]
    /\ agent \in [Proc -> History]
    /\ turn \in [Proc -> {"idle", "running", "unseen", "aborting"}]
    /\ tasks \in [Proc -> Seq(TaskType)]
    /\ chan \in [Proc -> Seq(EventType)]
    /\ permit \in [Proc -> BOOLEAN]

\* The task still has to write, or to say what came of it.
Unreported(t) == t.stage \in {"write", "clean", "send"}

\* At most one save task runs, and only while a save is said to be in flight
\* (session.rs, enqueue_save: "at most one save task runs").
OneWriter ==
    \A p \in Proc : ui[p].phase = "running" =>
        /\ \A i, j \in DOMAIN tasks[p] :
              Unreported(tasks[p][i]) /\ Unreported(tasks[p][j]) => i = j
        /\ (\E i \in DOMAIN tasks[p] : Unreported(tasks[p][i])) => ui[p].inFlight

\* A snapshot waits only behind a save in flight, so it cannot be forgotten
\* (app.rs, pending_save: "`Some` implies `save_in_flight`").
PendingBehindASave ==
    \A p \in Proc : ui[p].pending # NoSnapshot => ui[p].inFlight

\* A snapshot is only ever written under the session it was taken in, whatever
\* session has become current since (promote_pending_save).
SnapshotKeepsItsSession ==
    \A p \in Proc : \A i \in DOMAIN tasks[p] :
        tasks[p][i].snap.sess = tasks[p][i].sess

\* No save of p is under way and the outcome of every one is known to the UI.
Settled(p) ==
    /\ ui[p].phase = "running"
    /\ \A i \in DOMAIN tasks[p] : tasks[p][i].stage = "notify"
    /\ \A i \in DOMAIN chan[p] : chan[p][i].kind # "saved"

\* Once its saves have settled, the cursor describes the two files exactly: how
\* much the .json holds, how far the journal takes it, and both anchors.
CursorMatchesFiles ==
    \A p \in Proc :
        LET c == ui[p].cursor IN
        Settled(p) /\ c.sess # NoSession =>
            LET h == Recovered(json[c.sess], rounds[c.sess])
            IN  /\ c.base = Len(json[c.sess]) /\ c.baseAnchor = Anchor(json[c.sess])
                /\ c.written = Len(h) /\ c.writtenAnchor = Anchor(h)

\* Once its saves have settled without an error, a crash loses nothing of what
\* the UI has adopted: loading the files gives back the mirror
\* (persist_mid_turn: "a crash mid-turn keeps every committed round's messages").
AdoptedRoundsSurvive ==
    \A p \in Proc :
        Settled(p) /\ ui[p].sess # NoSession /\ ui[p].cursor.sess = ui[p].sess =>
            Recovered(json[ui[p].sess], rounds[ui[p].sess]) = ui[p].mirror

\* When a process has nothing left to do, its files hold the agent's history.
QuietMeansDurable ==
    \A p \in Proc :
        /\ Settled(p) /\ chan[p] = << >>
        /\ turn[p] = "idle"
        /\ ui[p].sess # NoSession /\ ui[p].cursor.sess = ui[p].sess
        => Recovered(json[ui[p].sess], rounds[ui[p].sess]) = agent[p]

\* A journal is never replayed onto a history that holds its rounds already,
\* whatever a crash or a failed removal leaves behind.
NoMessageTwice ==
    \A s \in Session : IsInjective(Recovered(json[s], rounds[s]))

\* Two sessions never hold the same message: no conversation leaks into
\* another's file.
SessionsApart ==
    \A s, t \in Session : s # t =>
        ToSet(Recovered(json[s], rounds[s])) \cap ToSet(Recovered(json[t], rounds[t]))
            \subseteq {Sys}

\* The newest message of a history; everything that changes one draws a new one.
Newest(h) == IF h = << >> THEN 0 ELSE Max(ToSet(h))

\* What is on disk never goes back to an older state of the conversation.
DiskNeverOlder ==
    [][\A s \in Session :
          Newest(Recovered(json[s], rounds[s])) <= Newest(Recovered(json'[s], rounds'[s]))]_vars

\* A process that quits, when nothing failed, leaves files that hold the mirror
\* (await_saves: "the process must not exit before the last snapshot reaches
\* disk").
ExitAfterLastWrite ==
    [][\A p \in Proc :
          ExitDone(p) /\ fails = 0 /\ ui[p].sess # NoSession
          => Recovered(json[ui[p].sess], rounds[ui[p].sess]) = ui[p].mirror]_vars

\* Quitting ends: neither the reaping of the cancelled turn nor the final flush
\* waits for ever (await_saves).
QuitTerminates ==
    \A p \in Proc : (ui[p].phase = "quitting") ~> (ui[p].phase = "down")
=============================================================================
