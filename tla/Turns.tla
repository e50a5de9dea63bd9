------------------------------- MODULE Turns -------------------------------
(***************************************************************************)
(* The turns of the interactive main agent.                                *)
(*                                                                         *)
(* The UI is one task: it runs a loop (crates/hrdr-tui/src/tui.rs) that    *)
(* delivers what arrived, draws, and waits for an input, a message of its  *)
(* channel or a tick.  A turn or a compaction is a task of its own, which  *)
(* takes the agent's lock, works, and reports its end through the channel. *)
(* They share the agent's entry in the registry: its running flag, its     *)
(* turn generation and its queue of messages                               *)
(* (crates/hrdr-agent/src/registry.rs).  Another session's messages and    *)
(* the results of background work arrive beside them.                      *)
(*                                                                         *)
(* One action is what a task does between two points where another may     *)
(* run: a lock, an await, a wait.  A slot of Task stands for a spawned     *)
(* task and is used again once the task is gone and nobody names it.       *)
(***************************************************************************)
EXTENDS Naturals, Sequences, FiniteSets, SequencesExt

CONSTANTS
    Task,        \* slots for spawned tasks, numbers
    NoTask,      \* no task
    Human,       \* what the user may type, numbers
    Peer,        \* what another session may send
    Result,      \* results of background work
    InboxCap,    \* the inbox's limit (MAX_INBOX_MESSAGES)
    Plans        \* bounds: what the surroundings do in one behaviour, records of
                 \*   messages: what may be sent to the agent, a subset of Message
                 \*   results: the background work, a subset of Result
                 \*   cancels: times the user interrupts
                 \*   compact: panes the user may compact, each once
                 \*   clears: times the user clears the conversation
                 \*   quits: whether the user may quit

ASSUME SlotsAssumption == Task \subseteq Nat /\ NoTask \notin Task /\ Human \subseteq Nat

ASSUME KindsAssumption ==
    /\ Human \cap Peer = {} /\ Human \cap Result = {} /\ Peer \cap Result = {}

Message == Human \cup Peer

NoPane == "none"
Panes == {"main", "sub"}

ASSUME BoundsAssumption ==
    /\ InboxCap \in Nat
    /\ Plans \subseteq [messages : SUBSET Message, results : SUBSET Result, cancels : Nat,
                       compact : SUBSET Panes, clears : Nat, quits : BOOLEAN]

VARIABLES
    loop,        \* where the UI's loop stands
    saw,         \* the running flag as the frame read it
    lively,      \* something on the screen is animated: the ticker runs
    handle,      \* turn_handle: the task an interrupt would abort
    reap,        \* quit_reap: the aborted task that quitting awaits
    compactQ,    \* pending_compaction: the pane of a queued /compact, or NoPane
    quitting,    \* should_quit
    running,     \* the main entry's running flag
    owner,       \* the task whose begin_turn made the main entry's generation
    queue,       \* the main entry's queue: each element is a sequence of messages
    task,        \* [Task -> what runs there and where it stands]
    chan,        \* the UI's channel
    inbox,       \* messages of other sessions, accepted
    history,     \* what reached the agent's history
    composer,    \* messages given back to the input box
    discarded,   \* messages of peers discarded with a notice
    undelivered, \* messages of peers that the report at exit counts
    refused,     \* messages an opener's hook blocked, or was interrupted over
    dropped,     \* messages a /clear found on the queue of an idle agent
    past,        \* messages in the conversations that were cleared
    wipes,       \* clears that wait for the agent's lock
    before,      \* history variable: what had been on the queue by the last /clear
    result,      \* [Result -> how far the background work is]
    accepted,    \* history variable: the messages ever accepted from other sessions
    entered,     \* history variable: what was ever put on the queue
    raced,       \* history variable: a turn was begun, or a message queued, while
                 \* the end of another was still under way (see Late)
    plan         \* what the surroundings may still do

ui == <<loop, saw, lively, handle, reap, compactQ, quitting>>
entry == <<running, owner, queue>>
fates == <<composer, discarded, undelivered, refused, dropped, past>>
clearing == <<wipes, before>>
arrivals == <<inbox, accepted>>
vars == <<loop, saw, lively, handle, reap, compactQ, quitting, running, owner, queue, task,
          chan, inbox, history, composer, discarded, undelivered, refused, dropped, past, wipes,
          before, result, accepted, entered, raced, plan>>

-----------------------------------------------------------------------------
(* Tasks and the agent's lock.                                             *)

Gone == [kind |-> "turn", at |-> "gone", aborted |-> FALSE, carry |-> << >>]

Fresh(kind) == [Gone EXCEPT !.kind = kind, !.at = "spawned"]

At(t, place) == task[t].at = place

Goes(t, place) == task' = [task EXCEPT ![t].at = place]

Leaves(t) == task' = [task EXCEPT ![t] = Gone]

\* The task holds the main agent's lock; a compaction of another pane holds that
\* pane's agent instead.
Holds(t) == task[t].kind # "sub" /\ task[t].at \in {"hook", "round", "calling"}

Locked == \E t \in Task : Holds(t)

\* The main agent is summarizing its history.
Compacting == \E t \in Task : task[t].kind = "main" /\ At(t, "calling")

\* A slot for a new task: the first that nobody names.
Unnamed(t) == /\ At(t, "gone") /\ t \notin {handle, reap}
              /\ \A i \in DOMAIN chan : chan[i].of # t

FreeSlot(t) == Unnamed(t) /\ \A s \in Task : s < t => ~Unnamed(s)

-----------------------------------------------------------------------------
(* The queue.                                                              *)

IsPeer(element) == Head(element) \in Peer

PeersQueued == {i \in DOMAIN queue : IsPeer(queue[i])}

Queued == ToSet(FlattenSeq(queue))

\* Mutant: a message is merged into whatever is last.
MergedAny(q, m) ==
    IF q # << >> THEN [q EXCEPT ![Len(q)] = Append(@, m)] ELSE Append(q, <<m>>)

\* A message is put on the queue; adjacent messages of the user become one.
Merged(q, m) ==
    IF q # << >> /\ m \in Human /\ ~IsPeer(Last(q))
    THEN [q EXCEPT ![Len(q)] = Append(@, m)]
    ELSE Append(q, <<m>>)

Enqueues(m) == queue' = Merged(queue, m) /\ entered' = entered \cup {m}

-----------------------------------------------------------------------------
(* What makes the code's bookkeeping lose its turn.                        *)

\* The task has not reported its end, aborted or not.
Working(t) == task[t].at \in {"spawned", "hook", "round", "calling", "over"}

Report(m) == m.kind \in {"Done", "Compacted"}

Reported(ch) == \E i \in DOMAIN ch : Report(ch[i])

\* With the messages of ch unhandled, the end of some task is under way: it has
\* not reported it, its report waits, or its guard has compared the generation
\* and not yet written the entry; or a clear waits for the lock; or the app is on its
\* way out.
Late(ch) == quitting \/ wipes > 0 \/ Reported(ch) \/ \E t \in Task : Working(t) \/ At(t, "judged")

\* Nobody is left to take a message from the queue.
Unattended == ~Reported(chan) /\ \A t \in Task : Working(t) => task[t].aborted

-----------------------------------------------------------------------------
(* Starting and ending a turn.                                             *)

\* launch_turn, with the messages of ch still to be handled: the registry begins
\* the turn and the UI keeps the handle of its task.
Launches(ch) ==
    \E t \in Task :
        /\ FreeSlot(t)
        /\ task' = [task EXCEPT ![t] = Fresh("turn")]
        /\ handle' = t /\ owner' = t /\ running' = TRUE
        /\ raced' = (raced \/ Late(ch))

\* spawn_compaction_for: the main agent's entry is busy only if its own pane is
\* compacted, but the handle is kept in any case.
Compacts(pane, ch) ==
    \E t \in Task :
        /\ FreeSlot(t)
        /\ task' = [task EXCEPT ![t] = Fresh(pane)]
        /\ handle' = t
        /\ IF pane = "main" THEN owner' = t /\ running' = TRUE ELSE UNCHANGED owner
        /\ raced' = (raced \/ Late(ch))

\* Mutant: the task is kept but not aborted.
AbortsNothing ==
    /\ handle' = NoTask
    /\ IF handle = NoTask THEN UNCHANGED <<reap, task>> ELSE reap' = handle /\ UNCHANGED task

\* The task of the handle is aborted, and kept for quitting to await.
Aborts ==
    /\ handle' = NoTask
    /\ IF handle = NoTask THEN UNCHANGED <<reap, task>>
       ELSE /\ reap' = handle
            /\ task' = [task EXCEPT ![handle].aborted = ~At(handle, "gone")]

\* Mutant: what the user had queued is dropped with the turn.
CancelTurnDropping ==
    /\ Aborts
    /\ running' = FALSE
    /\ queue' = << >>
    /\ UNCHANGED composer

\* cancel_turn: the entry is idle, and the queue is emptied: the user's messages
\* go back into the input box.
CancelTurn ==
    /\ Aborts
    /\ running' = FALSE
    /\ queue' = << >>
    /\ composer' = composer \cup (Queued \cap Human)

-----------------------------------------------------------------------------
(* A turn's task.                                                          *)

\* The task is in the queue for the lock and gets it: the run pops its opener.
\* A message of the user goes through the user_prompt hook first.
Opens(t) ==
    /\ At(t, "spawned") /\ task[t].kind = "turn" /\ ~Locked
    /\ \/ queue = << >> /\ Goes(t, "round") /\ UNCHANGED <<queue, history>>
       \/ /\ queue # << >> /\ IsPeer(queue[1])
          /\ history' = history \o queue[1] /\ queue' = Tail(queue)
          /\ Goes(t, "round")
       \/ /\ queue # << >> /\ ~IsPeer(queue[1])
          /\ task' = [task EXCEPT ![t].at = "hook", ![t].carry = queue[1]]
          /\ queue' = Tail(queue)
          /\ UNCHANGED history
    /\ UNCHANGED <<ui, running, owner, chan, arrivals, fates, result, entered, raced, plan,
                   clearing>>

\* The hook lets the opener pass, or blocks it and the turn fails.
HookPasses(t) ==
    /\ At(t, "hook")
    /\ history' = history \o task[t].carry
    /\ task' = [task EXCEPT ![t].at = "round", ![t].carry = << >>]
    /\ UNCHANGED <<ui, entry, chan, arrivals, fates, result, entered, raced, plan, clearing>>

HookBlocks(t) ==
    /\ At(t, "hook")
    /\ refused' = refused \cup ToSet(task[t].carry)
    /\ task' = [task EXCEPT ![t].at = "over", ![t].carry = << >>]
    /\ UNCHANGED <<ui, entry, chan, arrivals, history, composer, discarded, undelivered, dropped,
                   past, result, entered, raced, plan, clearing>>

Landed == {r \in Result : result[r] = "landed"}

\* Mutant: results are folded in and stay owed.
RoundOwing(t) ==
    /\ At(t, "round")
    /\ history' = history \o FlattenSeq(queue)
    /\ queue' = << >>
    /\ Goes(t, "calling")
    /\ UNCHANGED <<ui, running, owner, chan, arrivals, fates, result, entered, raced, plan,
                   clearing>>

\* The top of a round: what is on the queue and every result that landed enter
\* the history, and a request is sent.
Round(t) ==
    /\ At(t, "round")
    /\ history' = history \o FlattenSeq(queue)
    /\ queue' = << >>
    /\ result' = [r \in Result |-> IF r \in Landed THEN "delivered" ELSE result[r]]
    /\ Goes(t, "calling")
    /\ UNCHANGED <<ui, running, owner, chan, arrivals, fates, entered, raced, plan, clearing>>

\* The reply asks for tools, and the next round follows.
CallsTools(t) ==
    /\ At(t, "calling") /\ task[t].kind = "turn"
    /\ Goes(t, "round")
    /\ UNCHANGED <<ui, entry, chan, arrivals, history, fates, result, entered, raced, plan,
                   clearing>>

\* The reply asks for none, or the request fails: the run is over, whatever is on
\* the queue, and the lock is released.
Answers(t) ==
    /\ At(t, "calling")
    /\ Goes(t, "over")
    /\ UNCHANGED <<ui, entry, chan, arrivals, history, fates, result, entered, raced, plan,
                   clearing>>

\* A compaction waits for the lock of its pane's agent.
Summarizes(t) ==
    /\ At(t, "spawned") /\ task[t].kind # "turn"
    /\ task[t].kind = "main" => ~Locked
    /\ Goes(t, "calling")
    /\ UNCHANGED <<ui, entry, chan, arrivals, history, fates, result, entered, raced, plan,
                   clearing>>

\* A turn reports its end, then drops its run guard; a compaction has none.
Reports(t) ==
    /\ At(t, "over")
    /\ IF task[t].kind = "turn"
       THEN chan' = Append(chan, [kind |-> "Done", of |-> t, pane |-> "main"]) /\ Goes(t, "leaving")
       ELSE chan' = Append(chan, [kind |-> "Compacted", of |-> t, pane |-> task[t].kind]) /\ Leaves(t)
    /\ UNCHANGED <<ui, entry, arrivals, history, fates, result, entered, raced, plan, clearing>>

\* The run guard compares the entry's generation with its own.
GuardJudges(t) ==
    /\ At(t, "leaving")
    /\ IF owner = t THEN Goes(t, "judged") ELSE Leaves(t)
    /\ UNCHANGED <<ui, entry, chan, arrivals, history, fates, result, entered, raced, plan,
                   clearing>>

\* It marks the entry idle.
GuardWrites(t) ==
    /\ At(t, "judged")
    /\ running' = FALSE
    /\ Leaves(t)
    /\ UNCHANGED <<ui, owner, queue, chan, arrivals, history, fates, result, entered, raced,
                   plan, clearing>>

\* An aborted task is dropped where it waits: with it what it carries.  A turn
\* that was polled at all drops its guard.
Drops(t) ==
    /\ task[t].aborted /\ task[t].at \in {"spawned", "hook", "calling", "over"}
    /\ refused' = refused \cup ToSet(task[t].carry)
    /\ \/ task[t].kind = "turn" /\ task' = [task EXCEPT ![t].at = "leaving", ![t].carry = << >>]
       \/ (task[t].kind # "turn" \/ At(t, "spawned")) /\ Leaves(t)
    /\ UNCHANGED <<ui, entry, chan, arrivals, history, composer, discarded, undelivered, dropped,
                   past, result, entered, raced, plan, clearing>>

TaskStep(t) ==
    /\ loop # "exited"
    /\ \/ Opens(t) \/ HookPasses(t) \/ HookBlocks(t) \/ Round(t) \/ CallsTools(t) \/ Answers(t)
       \/ Summarizes(t) \/ Reports(t) \/ GuardJudges(t) \/ GuardWrites(t) \/ Drops(t)

-----------------------------------------------------------------------------
(* What arrives from elsewhere.                                            *)

\* The inbox admits messages until the app shuts messaging down.
Admits == loop \notin {"reaping", "exited"}

\* Another session's message is accepted, and the UI's channel is told.
PeerSends(p) ==
    /\ Admits /\ Len(inbox) < InboxCap
    /\ p \in plan.messages \ accepted
    /\ accepted' = accepted \cup {p}
    /\ inbox' = Append(inbox, p)
    /\ chan' = Append(chan, [kind |-> "PeerReady", of |-> NoTask, pane |-> NoPane])
    /\ UNCHANGED <<ui, entry, task, history, fates, result, entered, raced, plan, clearing>>

\* A sub-agent's run ends: its own entry goes idle, and only then is its row done.
WorkEnds(r) ==
    /\ result[r] = "working" /\ loop # "exited"
    /\ result' = [result EXCEPT ![r] = "ended"]
    /\ UNCHANGED <<ui, entry, task, chan, arrivals, history, fates, entered, raced, plan,
                   clearing>>

ResultLands(r) ==
    /\ result[r] = "ended" /\ loop # "exited"
    /\ result' = [result EXCEPT ![r] = "landed"]
    /\ UNCHANGED <<ui, entry, task, chan, arrivals, history, fates, entered, raced, plan,
                   clearing>>

-----------------------------------------------------------------------------
(* The UI's loop: deliver, draw, wait.                                     *)

UI(from, to) == loop = from /\ loop' = to

\* maybe_deliver_background: a result that landed wakes an idle agent.
DeliversBackground ==
    /\ UI("top", "peer")
    /\ IF ~running /\ ~Compacting /\ Landed # {}
       THEN Launches(chan)
       ELSE UNCHANGED <<handle, owner, running, task, raced>>
    /\ UNCHANGED <<saw, lively, reap, compactQ, quitting, queue, chan, arrivals, history, fates,
                   result, entered, plan, clearing>>

\* The main agent has a turn, or one whose report is still to be handled.
Busy == running \/ handle # NoTask

\* A peer's message may be taken from the inbox: one at most waits behind a turn.
MayDeliverPeer ==
    /\ ~quitting /\ ~Compacting /\ inbox # << >>
    /\ ~(Busy /\ PeersQueued # {})

\* maybe_deliver_peer: the message is queued, and a turn launched if there is none.
\* Then sync_panes, as the frame is drawn, reads the running flag.
DeliversPeer ==
    /\ UI("peer", "drawn")
    /\ IF ~MayDeliverPeer
       THEN UNCHANGED <<handle, owner, running, queue, task, inbox, entered, raced>>
       ELSE /\ Enqueues(Head(inbox)) /\ inbox' = Tail(inbox)
            /\ IF Busy THEN UNCHANGED <<handle, owner, running, task, raced>> ELSE Launches(chan)
    /\ saw' = running'
    /\ UNCHANGED <<lively, reap, compactQ, quitting, chan, accepted, history, fates, result,
                   plan, clearing>>

\* sync_panes writes back the running flag it has read.
Draws ==
    /\ loop = "drawn"
    /\ loop' = IF quitting THEN "closing" ELSE "select"
    /\ running' = saw
    /\ lively' = (saw \/ \E r \in Result : result[r] = "working")
    /\ saw' = FALSE
    /\ UNCHANGED <<handle, reap, compactQ, quitting, owner, queue, task, chan, arrivals,
                   history, fates, result, entered, raced, plan, clearing>>

\* The ticker runs only while something is animated.
Ticks ==
    /\ UI("select", "top") /\ lively
    /\ UNCHANGED <<saw, lively, handle, reap, compactQ, quitting, entry, task, chan, arrivals,
                   history, fates, result, entered, raced, plan, clearing>>

-----------------------------------------------------------------------------
(* Inputs.                                                                 *)

\* The user submits the next message: it waits on the queue of a busy agent, or
\* opens a turn.
Submits(h) ==
    /\ UI("select", "top")
    /\ h \in plan.messages
    /\ h \notin entered
    /\ \A g \in Human \cap plan.messages : g < h => g \in entered
    /\ Enqueues(h)
    /\ IF running \/ Compacting
       THEN raced' = (raced \/ Unattended) /\ UNCHANGED <<handle, owner, running, task>>
       ELSE Launches(chan)
    /\ UNCHANGED <<saw, lively, reap, compactQ, quitting, chan, arrivals, history, fates, result,
                   plan, clearing>>

\* Esc twice, while something runs: a peer's message on the queue is discarded,
\* with a notice.
Interrupts ==
    /\ UI("select", "top")
    /\ running /\ plan.cancels > 0
    /\ plan' = [plan EXCEPT !.cancels = @ - 1]
    /\ CancelTurn
    /\ discarded' = discarded \cup (Queued \cap Peer)
    /\ UNCHANGED <<saw, lively, compactQ, quitting, owner, chan, arrivals, history, undelivered,
                   refused, dropped, past, result, entered, raced, clearing>>

\* /compact on the pane in view: queued while the main agent is busy.
AsksToCompact(pane) ==
    /\ UI("select", "top")
    /\ pane \in plan.compact /\ plan' = [plan EXCEPT !.compact = @ \ {pane}]
    /\ IF running \/ Compacting
       THEN compactQ' = pane /\ UNCHANGED <<handle, owner, running, task, raced>>
       ELSE /\ Compacts(pane, chan)
            /\ UNCHANGED compactQ /\ (pane = "sub" => UNCHANGED running)
    /\ UNCHANGED <<saw, lively, reap, quitting, queue, chan, arrivals, history, fates, result,
                   entered, clearing>>

\* Agent::clear: the history goes, and the background work with its results.
Forgets ==
    /\ past' = past \cup ToSet(history) /\ history' = << >>
    /\ result' = [r \in Result |-> IF result[r] = "delivered" THEN "delivered" ELSE "cleared"]

\* /new, and /clear: a turn that runs is cancelled, the queue of an idle agent is
\* emptied; the agent is cleared at once, or by a task that waits for its lock.
Clears ==
    /\ UI("select", "top") /\ plan.clears > 0
    /\ plan' = [plan EXCEPT !.clears = @ - 1]
    /\ IF running
       THEN /\ CancelTurn
            /\ discarded' = discarded \cup (Queued \cap Peer)
            /\ UNCHANGED dropped
       ELSE /\ dropped' = dropped \cup Queued /\ queue' = << >>
            /\ UNCHANGED <<handle, reap, running, task, composer, discarded>>
    /\ IF Locked
       THEN wipes' = wipes + 1 /\ UNCHANGED <<history, past, result>>
       ELSE Forgets /\ UNCHANGED wipes
    /\ before' = entered
    /\ UNCHANGED <<saw, lively, compactQ, quitting, owner, chan, arrivals, undelivered, refused,
                   entered, raced>>

\* The task of a /clear gets the lock.
Wipes ==
    /\ wipes > 0 /\ ~Locked /\ loop # "exited"
    /\ Forgets
    /\ wipes' = wipes - 1
    /\ UNCHANGED <<ui, entry, task, chan, arrivals, composer, discarded, undelivered, refused,
                   dropped, before, entered, raced, plan>>

\* Mutant: the report at exit forgets a message that waits behind the turn.
QuitsForgetting ==
    /\ UI("select", "top") /\ plan.quits
    /\ quitting' = TRUE
    /\ IF running
       THEN CancelTurn
       ELSE UNCHANGED <<handle, reap, running, queue, task, composer>>
    /\ UNCHANGED <<saw, lively, compactQ, owner, chan, arrivals, history, discarded, undelivered,
                   refused, dropped, past, result, entered, raced, plan, clearing>>

\* request_quit: a running turn is cancelled first; a peer's message behind it is
\* counted for the report at exit as it is discarded.
Quits ==
    /\ UI("select", "top") /\ plan.quits
    /\ quitting' = TRUE
    /\ IF running
       THEN /\ CancelTurn
            /\ undelivered' = undelivered \cup (Queued \cap Peer)
       ELSE UNCHANGED <<handle, reap, running, queue, task, composer, undelivered>>
    /\ UNCHANGED <<saw, lively, compactQ, owner, chan, arrivals, history, discarded, refused,
                   dropped, past, result, entered, raced, plan, clearing>>

-----------------------------------------------------------------------------
(* Messages of the channel, of which rest is what remains.                 *)

\* Mutant: the end of a turn starts nothing.
ResumesNothing(rest, run) ==
    /\ handle' = NoTask /\ running' = run
    /\ UNCHANGED <<owner, task, raced, compactQ>>

\* What follows the end of a turn or a compaction, once the handle is empty and
\* the entry as run says: what is queued gets a turn of its own, or else a queued
\* /compact is run.
Resumes(rest, run) ==
    \/ /\ queue # << >>
       /\ Launches(rest)
       /\ UNCHANGED compactQ
    \/ /\ queue = << >> /\ compactQ # NoPane /\ ~run /\ ~Compacting
       /\ Compacts(compactQ, rest) /\ (compactQ = "sub" => running' = run)
       /\ compactQ' = NoPane
    \/ /\ queue = << >> /\ ~(compactQ # NoPane /\ ~run /\ ~Compacting)
       /\ handle' = NoTask /\ running' = run
       /\ UNCHANGED <<owner, task, raced, compactQ>>

\* Done: stale if a cancel took the handle and marked the agent idle.
HandlesDone(rest) ==
    IF handle = NoTask /\ ~running
    THEN UNCHANGED <<handle, owner, running, task, raced, compactQ>>
    ELSE Resumes(rest, FALSE)

\* Compacted: the handle is emptied whichever task it names.
HandlesCompacted(pane, rest) == Resumes(rest, running /\ pane # "main")

HandlesMessage ==
    /\ loop \in {"select", "drain"} /\ chan # << >>
    /\ loop' = IF Tail(chan) = << >> THEN "top" ELSE "drain"
    /\ chan' = Tail(chan)
    /\ CASE chan[1].kind = "Done" -> HandlesDone(Tail(chan))
         [] chan[1].kind = "Compacted" -> HandlesCompacted(chan[1].pane, Tail(chan))
         [] OTHER -> UNCHANGED <<handle, owner, running, task, raced, compactQ>>
    /\ UNCHANGED <<saw, lively, reap, quitting, queue, arrivals, history, fates, result, entered,
                   plan, clearing>>

-----------------------------------------------------------------------------
(* The way out.                                                            *)

\* shutdown_messaging: the inbox closes; what is in it and on the queue is counted.
ShutsMessaging ==
    /\ UI("closing", "reaping")
    /\ undelivered' = undelivered \cup ToSet(inbox) \cup (Queued \cap Peer)
    /\ inbox' = << >>
    /\ UNCHANGED <<saw, lively, handle, reap, compactQ, quitting, entry, task, chan, accepted,
                   history, composer, discarded, refused, dropped, past, result, entered, raced,
                   plan, clearing>>

\* Mutant: the aborted turn is not awaited.
ExitsUnreaped ==
    /\ UI("reaping", "exited")
    /\ UNCHANGED <<saw, lively, handle, reap, compactQ, quitting, entry, task, chan, arrivals,
                   history, fates, result, entered, raced, plan, clearing>>

\* Mutant: every task that was started is awaited.
ExitsWhenHandled ==
    /\ UI("reaping", "exited")
    /\ handle = NoTask /\ (reap # NoTask => At(reap, "gone"))
    /\ UNCHANGED <<saw, lively, handle, reap, compactQ, quitting, entry, task, chan, arrivals,
                   history, fates, result, entered, raced, plan, clearing>>

\* The aborted turn is awaited, then comes the final save and the exit.
Exits ==
    /\ UI("reaping", "exited")
    /\ reap # NoTask => At(reap, "gone")
    /\ UNCHANGED <<saw, lively, handle, reap, compactQ, quitting, entry, task, chan, arrivals,
                   history, fates, result, entered, raced, plan, clearing>>

-----------------------------------------------------------------------------
Init ==
    /\ loop = "top" /\ saw = FALSE /\ lively = FALSE
    /\ handle = NoTask /\ reap = NoTask /\ compactQ = NoPane /\ quitting = FALSE
    /\ running = FALSE /\ owner = NoTask /\ queue = << >>
    /\ task = [t \in Task |-> Gone]
    /\ chan = << >> /\ inbox = << >> /\ history = << >>
    /\ composer = {} /\ discarded = {} /\ undelivered = {} /\ refused = {}
    /\ plan \in Plans
    /\ result = [r \in Result |-> IF r \in plan.results THEN "working" ELSE "delivered"]
    /\ dropped = {} /\ past = {} /\ wipes = 0 /\ before = {}
    /\ accepted = {} /\ entered = {} /\ raced = FALSE

LoopStep ==
    \/ DeliversBackground \/ DeliversPeer \/ Draws \/ Ticks
    \/ HandlesMessage \/ ShutsMessaging \/ Exits

Input ==
    \/ \E h \in Human : Submits(h)
    \/ Interrupts
    \/ Clears
    \/ \E pane \in Panes : AsksToCompact(pane)
    \/ Quits

Arrival ==
    \/ \E p \in Peer : PeerSends(p)
    \/ \E r \in Result : WorkEnds(r) \/ ResultLands(r)

Next == LoopStep \/ Input \/ (\E t \in Task : TaskStep(t)) \/ Wipes \/ Arrival

Spec == Init /\ [][Next]_vars

\* The runtime runs every task that can go on, and the loop; the loop's select
\* picks at random among what is ready, so a message is not passed over for ever;
\* tool rounds are bounded (max_steps), so a turn that keeps calling answers.
Fairness ==
    /\ WF_vars(LoopStep) /\ SF_vars(HandlesMessage)
    /\ \A t \in Task : WF_vars(TaskStep(t)) /\ SF_vars(loop # "exited" /\ Answers(t))
    /\ \A r \in Result : WF_vars(ResultLands(r))

FairSpec == Spec /\ Fairness

-----------------------------------------------------------------------------
(* Invariants.                                                             *)

TypeOK ==
    /\ loop \in {"top", "peer", "drawn", "select", "drain", "closing", "reaping", "exited"}
    /\ {saw, lively, quitting, running, raced} \subseteq BOOLEAN
    /\ {handle, reap, owner} \subseteq Task \cup {NoTask}
    /\ compactQ \in Panes \cup {NoPane}
    /\ task \in [Task -> [kind : Panes \cup {"turn"},
                          at : {"gone", "spawned", "hook", "round", "calling", "over",
                                "leaving", "judged"},
                          aborted : BOOLEAN, carry : Seq(Human)]]
    /\ queue \in Seq(Seq(Message)) /\ inbox \in Seq(Peer) /\ entered \subseteq Message
    /\ chan \in Seq([kind : {"Done", "Compacted", "PeerReady"}, of : Task \cup {NoTask},
                     pane : Panes \cup {NoPane}])
    /\ history \in Seq(Message)
    /\ {composer, refused} \subseteq SUBSET Human
    /\ {discarded, undelivered, accepted} \subseteq SUBSET Peer
    /\ {dropped, past, before} \subseteq SUBSET Message /\ wipes \in Nat
    /\ result \in [Result -> {"working", "ended", "landed", "delivered", "cleared"}]
    /\ plan \in [messages : SUBSET Message, results : SUBSET Result, cancels : Nat,
                 compact : SUBSET Panes, clears : Nat, quits : BOOLEAN]

InHand == UNION {ToSet(task[t].carry) : t \in Task}

\* What only the report at exit names: what it counts on the queue is still there.
OnlyReported == undelivered \ (Queued \cup ToSet(history) \cup past)

\* Where a message that entered the queue may be.
Places ==
    <<Queued, ToSet(history), InHand, composer, refused, discarded, OnlyReported, past, dropped>>

\* Every message that entered the queue is in exactly one place: waiting, in a
\* turn's hand, in the history, given back to the input box, refused by the hook,
\* discarded with a notice, in the report at exit, in a conversation that was
\* cleared, or dropped by a /clear of an idle agent; and the history holds nothing
\* twice.  Once a /clear is done (clear_all), nothing queued before it is waiting or
\* reaches the history again, whatever the turn it cancelled was doing.
MessagesKept ==
    /\ \A m \in entered : Cardinality({i \in DOMAIN Places : m \in Places[i]}) = 1
    /\ IsInjective(history)
    /\ wipes = 0 => before \cap (Queued \cup InHand \cup ToSet(history)) = {}

\* Once the app has exited, every message accepted from another session was
\* delivered, or discarded with a notice, or is in the report at exit; but for what
\* a /clear of an idle agent found on the queue.
PeersAccounted ==
    loop = "exited" =>
        accepted \subseteq ToSet(history) \cup past \cup discarded \cup undelivered \cup dropped

\* The turns and compactions that will go on, on the main agent.
LiveMain == {t \in Task : Working(t) /\ ~task[t].aborted /\ task[t].kind # "sub"}

\* Unless a turn was begun while another's end was under way, the main agent has
\* one live turn at most, an interrupt would abort it, and the entry shows it.
TurnIsOwned ==
    raced \/ \A t \in LiveMain : handle = t /\ running

-----------------------------------------------------------------------------
(* Action and temporal properties.                                         *)

\* The final save finds the agent's lock free, but for what "raced" records: a turn
\* begun beside the late end of another, whose task then keeps the lock unawaited.
FinalSaveIsLockFree ==
    [][loop = "reaping" /\ loop' = "exited" => raced \/ ~Locked]_vars

\* Quitting ends.
QuitEnds == quitting ~> loop = "exited"

\* The loop waits for an input, and nothing else will wake it.
Asleep == loop = "select" /\ ~lively /\ chan = << >>

\* A queued message is delivered, given back or discarded, or the user quits.
QueueIsServed == (queue # << >>) ~> (queue = << >> \/ raced \/ quitting)

\* A result that landed is delivered or cleared, or the user quits, or the loop sleeps.
ResultIsDelivered ==
    \A r \in Result :
        result[r] = "landed"
            ~> (result[r] \in {"delivered", "cleared"} \/ quitting \/ raced \/ Asleep)

=============================================================================
