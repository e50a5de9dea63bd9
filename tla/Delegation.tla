----------------------------- MODULE Delegation -----------------------------
(***************************************************************************)
(* Background sub-agents: the main agent delegates a job, steers or        *)
(* cancels it, and is handed its result.                                   *)
(*                                                                         *)
(* A job is known in five places that are locked one at a time: the slot   *)
(* its capability takes, its entry in the agent registry with the queue of *)
(* messages for it, its row in the list of background tasks, the handle    *)
(* of its worker, and the worker itself                                    *)
(* (crates/hrdr-agent/src/delegation.rs).  The main agent's tool calls,    *)
(* the workers, the user's panes and a cleared conversation meet there.    *)
(* All agents spend from one budget (crates/hrdr-agent/src/budget.rs).     *)
(*                                                                         *)
(* One action is what a task does between two points where another may     *)
(* run.  An aborted task goes on to its next await and is dropped there.   *)
(***************************************************************************)
EXTENDS Naturals, Sequences, FiniteSets, SequencesExt

CONSTANTS
    Job,         \* the jobs that may be delegated, each once
    NoJob,
    Writers,     \* those that may write
    Cap,         \* [Kinds -> how many may run at once] (subagent_max_*)
    Steer,       \* what may be said to a running sub-agent
    Brief,       \* a job's own prompt
    MaxCost,     \* the budget, in calls of the model (max_cost)
    Plans        \* bounds: what happens in one behaviour, records of
                 \*   jobs: the jobs the main agent may delegate
                 \*   steers: what may be said, a subset of Steer
                 \*   cancels: times task_cancel may be called
                 \*   interrupts: times the user interrupts the main agent
                 \*   clears: times the conversation is cleared

Kinds == {"read", "write"}

ASSUME JobsAssumption ==
    IsFiniteSet(Job) /\ Writers \subseteq Job /\ NoJob \notin Job /\ Brief \notin Steer

ASSUME LimitsAssumption == Cap \in [Kinds -> Nat] /\ MaxCost \in Nat

ASSUME PlansAssumption ==
    Plans \subseteq [jobs : SUBSET Job, steers : SUBSET Steer, cancels : Nat, interrupts : Nat,
                     clears : Nat]

VARIABLES
    parent,      \* where the main agent stands in its turn
    call,        \* [Job -> where the task call that delegates it stands]
    stray,       \* the calls of an interrupted turn
    cancelling,  \* the job whose end task_cancel awaits
    used,        \* [Kinds -> the slots taken]
    entry,       \* [Job -> what the registry shows of it]
    queue,       \* [Job -> the messages that wait for it]
    row,         \* [Job -> its row in the list of background tasks]
    handles,     \* the jobs whose worker's handle is kept
    worker,      \* [Job -> where its worker stands]
    aborted,     \* the jobs whose worker was aborted
    spent,       \* cost_total
    told,        \* [Job -> times its result is in the main agent's history]
    clearing,    \* Agent::clear has aborted the workers, and not yet cleared
    heard,       \* [Job -> the messages that reached it]
    said,        \* history variable: <<message, job>> reported as steered
    broken,      \* history variable: jobs whose run failed or was aborted
    silenced,    \* history variable: jobs task_cancel reported cancelled
    cut,         \* history variable: jobs whose task_cancel was interrupted
    old,         \* history variable: jobs of a conversation that was cleared
    late,        \* history variable: those still being registered as it was
    plan         \* what may still happen

budget == <<used, spent>>
seen == <<entry, queue, row>>
ghosts == <<heard, said, broken, silenced, cut, old, late>>
vars == <<parent, call, stray, cancelling, used, entry, queue, row, handles, worker, aborted,
          spent, told, clearing, heard, said, broken, silenced, cut, old, late, plan>>

-----------------------------------------------------------------------------
(* Slots and budget.                                                       *)

Kind(j) == IF j \in Writers THEN "write" ELSE "read"

\* Mutant: the count is read, and written later.
TakesSlotUnchecked(j) == used' = [used EXCEPT ![Kind(j)] = @ + 1]

\* Mutant: the count is checked, and never raised.
TakesSlotUncounted(j) == used[Kind(j)] < Cap[Kind(j)] /\ UNCHANGED used

\* SubagentSlots::acquire, one compare-and-set.
TakesSlot(j) ==
    /\ used[Kind(j)] < Cap[Kind(j)]
    /\ used' = [used EXCEPT ![Kind(j)] = @ + 1]

\* Dropping the slot.
ReturnsSlot(j) == used' = [used EXCEPT ![Kind(j)] = @ - 1]

\* budget_preflight.
WithinBudget == spent < MaxCost

-----------------------------------------------------------------------------
(* The registry's entry.                                                   *)

Absent == [shown |-> "absent", delivered |-> FALSE]

\* The entry of j is running, or idle, if it is still there.
Shows(j, how) ==
    entry' = [entry EXCEPT ![j].shown = IF @ = "absent" THEN @ ELSE how]

-----------------------------------------------------------------------------
(* The task call: a slot, the map of the workspace and the agent, the      *)
(* entry, then the row, the worker and its handle.                         *)

Underway(j) == call[j] \in {"slot", "built", "registered"}

\* A call of this turn is under way.
Batch == \E j \in Job : Underway(j) /\ j \notin stray

\* The call is refused for want of a slot.
Refused(j) == used[Kind(j)] >= Cap[Kind(j)] /\ call' = [call EXCEPT ![j] = "refused"] /\ UNCHANGED used

Delegates(j) ==
    /\ parent = "tools" /\ cancelling = NoJob
    /\ j \in plan.jobs /\ call[j] = "none"
    /\ \/ TakesSlot(j) /\ call' = [call EXCEPT ![j] = "slot"]
       \/ Refused(j)
    /\ UNCHANGED <<parent, stray, cancelling, seen, handles, worker, aborted, spent, told,
                   clearing, ghosts, plan>>

\* The agent is built: from here on the call does not wait.
Builds(j) ==
    /\ call[j] = "slot" /\ j \notin stray
    /\ call' = [call EXCEPT ![j] = "built"]
    /\ UNCHANGED <<parent, stray, cancelling, budget, seen, handles, worker, aborted, told,
                   clearing, ghosts, plan>>

\* Building fails, or the aborted call is dropped where it waits: the slot with it.
DropsCall(j) ==
    /\ call[j] = "slot"
    /\ call' = [call EXCEPT ![j] = "failed"]
    /\ ReturnsSlot(j)
    /\ UNCHANGED <<parent, stray, cancelling, seen, handles, worker, aborted, spent, told,
                   clearing, ghosts, plan>>

Registers(j) ==
    /\ call[j] = "built"
    /\ call' = [call EXCEPT ![j] = "registered"]
    /\ entry' = [entry EXCEPT ![j].shown = "running"]
    /\ UNCHANGED <<parent, stray, cancelling, budget, queue, row, handles, worker, aborted, told,
                   clearing, ghosts, plan>>

Unfinished == {j \in handles : worker[j] # "gone"}

\* Under the lock of the handles: the row, the worker, the handle.  Handles of
\* finished workers are reaped.
Publishes(j) ==
    /\ call[j] = "registered"
    /\ call' = [call EXCEPT ![j] = "returned"]
    /\ row' = [row EXCEPT ![j] = "running"]
    /\ worker' = [worker EXCEPT ![j] = "spawned"]
    /\ handles' = Unfinished \cup {j}
    /\ UNCHANGED <<parent, stray, cancelling, budget, entry, queue, aborted, told, clearing,
                   ghosts, plan>>

-----------------------------------------------------------------------------
(* A worker.                                                               *)

Steps(j, from, to) == worker[j] = from /\ worker' = [worker EXCEPT ![j] = to]

\* The run holds its guard, and has not decided to finish.
Guarded == {"begun", "top", "calling", "replied", "answered"}

\* Where an aborted worker is dropped.
Waiting(j) == worker[j] \in {"spawned", "begun", "top", "calling", "saving"}

MayGoOn(j) == ~(j \in aborted /\ Waiting(j))

\* The worker begins its run: the entry is running, and the brief is queued behind
\* whatever a pane has sent already.
Begins(j) ==
    /\ MayGoOn(j) /\ Steps(j, "spawned", "begun")
    /\ Shows(j, "running")
    /\ queue' = IF entry[j].shown = "absent" THEN queue ELSE [queue EXCEPT ![j] = Append(@, Brief)]
    /\ UNCHANGED <<parent, call, stray, cancelling, budget, row, handles, aborted, told, clearing,
                   ghosts, plan>>

\* The run ends by an error or a panic: its guard marks the entry idle.
Breaks(j) ==
    /\ broken' = broken \cup {j}
    /\ worker' = [worker EXCEPT ![j] = "saving"]
    /\ Shows(j, "idle")

\* A run takes its opener from the queue, unless the user_prompt hook blocks it.
Opens(j) ==
    /\ MayGoOn(j) /\ worker[j] = "begun"
    /\ LET opener == {queue[j][i] : i \in {1} \cap DOMAIN queue[j]}
       IN  /\ queue' = IF opener = {} THEN queue ELSE [queue EXCEPT ![j] = Tail(@)]
           /\ \/ /\ heard' = [heard EXCEPT ![j] = @ \cup opener]
                 /\ worker' = [worker EXCEPT ![j] = "top"]
                 /\ UNCHANGED <<entry, broken>>
              \/ opener # {} /\ Breaks(j) /\ UNCHANGED heard
    /\ UNCHANGED <<parent, call, stray, cancelling, budget, row, handles, aborted, told, clearing,
                   said, silenced, cut, old, late, plan>>

\* Mutant: a worker's calls are not checked against the budget.
RoundUnchecked(j) ==
    /\ MayGoOn(j) /\ worker[j] = "top"
    /\ heard' = [heard EXCEPT ![j] = @ \cup ToSet(queue[j])]
    /\ queue' = [queue EXCEPT ![j] = << >>]
    /\ worker' = [worker EXCEPT ![j] = "calling"] /\ UNCHANGED <<entry, broken>>
    /\ UNCHANGED <<parent, call, stray, cancelling, budget, row, handles, aborted, told, clearing,
                   said, silenced, cut, old, late, plan>>

\* The top of a round: the queue is read, then the budget.
Round(j) ==
    /\ MayGoOn(j) /\ worker[j] = "top"
    /\ heard' = [heard EXCEPT ![j] = @ \cup ToSet(queue[j])]
    /\ queue' = [queue EXCEPT ![j] = << >>]
    /\ IF WithinBudget
       THEN worker' = [worker EXCEPT ![j] = "calling"] /\ UNCHANGED <<entry, broken>>
       ELSE Breaks(j)
    /\ UNCHANGED <<parent, call, stray, cancelling, budget, row, handles, aborted, told, clearing,
                   said, silenced, cut, old, late, plan>>

\* The request fails for good.
Fails(j) ==
    /\ MayGoOn(j) /\ worker[j] = "calling"
    /\ Breaks(j)
    /\ UNCHANGED <<parent, call, stray, cancelling, budget, queue, row, handles, aborted, told,
                   clearing, heard, said, silenced, cut, old, late, plan>>

\* The reply is there.
Replies(j) ==
    /\ MayGoOn(j) /\ Steps(j, "calling", "replied")
    /\ UNCHANGED <<parent, call, stray, cancelling, budget, seen, handles, aborted, told, clearing,
                   ghosts, plan>>

\* account_usage; the reply asks for tools, and another round follows, or not.
Accounts(j) ==
    /\ \/ Steps(j, "replied", "top")
       \/ Steps(j, "replied", "answered")
    /\ spent' = spent + 1
    /\ UNCHANGED <<parent, call, stray, cancelling, used, seen, handles, aborted, told, clearing,
                   ghosts, plan>>

\* Mutant: the run finishes without a look at the queue.
FinishesOrContinuesBlindly(j) ==
    /\ Steps(j, "answered", "saving") /\ Shows(j, "idle")
    /\ UNCHANGED <<parent, call, stray, cancelling, budget, queue, row, handles, aborted, told,
                   clearing, ghosts, plan>>

\* continue_or_finish, under the entry's lock: another run if something is
\* queued, or else the entry is idle.
FinishesOrContinues(j) ==
    /\ IF queue[j] # << >> /\ entry[j].shown # "absent"
       THEN Steps(j, "answered", "begun") /\ Shows(j, "running")
       ELSE Steps(j, "answered", "saving") /\ Shows(j, "idle")
    /\ UNCHANGED <<parent, call, stray, cancelling, budget, queue, row, handles, aborted, told,
                   clearing, ghosts, plan>>

\* Mutant: a run that broke leaves no result.
RecordsSuccess(j) ==
    /\ MayGoOn(j) /\ Steps(j, "saving", "recorded")
    /\ row' = [row EXCEPT ![j] = IF @ = "running" /\ j \notin broken THEN "done" ELSE @]
    /\ UNCHANGED <<parent, call, stray, cancelling, budget, entry, queue, handles, aborted, told,
                   clearing, ghosts, plan>>

\* The snapshot is saved, and the result, or the error, goes to the row.
Records(j) ==
    /\ MayGoOn(j) /\ Steps(j, "saving", "recorded")
    /\ row' = [row EXCEPT ![j] = IF @ = "running" THEN "done" ELSE @]
    /\ UNCHANGED <<parent, call, stray, cancelling, budget, entry, queue, handles, aborted, told,
                   clearing, ghosts, plan>>

\* The task is gone, and its slot free.
Leaves(j) ==
    /\ Steps(j, "recorded", "gone")
    /\ Shows(j, "idle")
    /\ ReturnsSlot(j)
    /\ UNCHANGED <<parent, call, stray, cancelling, queue, row, handles, aborted, spent, told,
                   clearing, ghosts, plan>>

\* The aborted worker is dropped: with it the guard, if its run had begun, and the slot.
Dies(j) ==
    /\ j \in aborted /\ Waiting(j)
    /\ worker' = [worker EXCEPT ![j] = "gone"]
    /\ IF worker[j] \in Guarded THEN Shows(j, "idle") ELSE UNCHANGED entry
    /\ ReturnsSlot(j)
    /\ broken' = broken \cup {j}
    /\ UNCHANGED <<parent, call, stray, cancelling, queue, row, handles, aborted, spent, told,
                   clearing, heard, said, silenced, cut, old, late, plan>>

WorkerStep(j) ==
    \/ Begins(j) \/ Opens(j) \/ Round(j) \/ Fails(j) \/ Replies(j) \/ Accounts(j)
    \/ FinishesOrContinues(j) \/ Records(j) \/ Leaves(j) \/ Dies(j)

-----------------------------------------------------------------------------
(* The main agent.                                                         *)

ParentGoes(from, to) == parent = from /\ parent' = to

\* A turn begins: the user wrote, or a result woke the agent.
ParentBegins ==
    /\ ParentGoes("idle", "top") /\ ~clearing
    /\ UNCHANGED <<call, stray, cancelling, budget, seen, handles, worker, aborted, told, clearing,
                   ghosts, plan>>

Landed == {j \in Job : row[j] = "done"}

\* drain_background: every result that landed enters the history, its row goes,
\* and its entry is no longer owed.
Folds ==
    /\ told' = [j \in Job |-> IF j \in Landed THEN told[j] + 1 ELSE told[j]]
    /\ row' = [j \in Job |-> IF row[j] \in {"done", "cancelled"} THEN "gone" ELSE row[j]]
    /\ entry' = [j \in Job |-> [entry[j] EXCEPT !.delivered =
                           @ \/ (j \in Landed /\ entry[j].shown # "absent")]]

\* The top of a round: results, then the budget, then a request.
ParentRound ==
    /\ parent = "top"
    /\ Folds
    /\ parent' = IF WithinBudget THEN "calling" ELSE "idle"
    /\ UNCHANGED <<call, stray, cancelling, budget, queue, handles, worker, aborted, clearing,
                   ghosts, plan>>

\* The reply asks for tools.
ParentCallsTools ==
    /\ ParentGoes("calling", "tools")
    /\ spent' = spent + 1
    /\ UNCHANGED <<call, stray, cancelling, used, seen, handles, worker, aborted, told, clearing,
                   ghosts, plan>>

\* It asks for none, and the turn ends: finished handles are reaped, and entries
\* that are idle and delivered are released.
ParentAnswers ==
    /\ ParentGoes("calling", "idle")
    /\ spent' = spent + 1
    /\ handles' = Unfinished
    /\ entry' = [j \in Job |-> IF entry[j].shown = "idle" /\ entry[j].delivered
                               THEN Absent ELSE entry[j]]
    /\ UNCHANGED <<call, stray, cancelling, used, queue, row, worker, aborted, told, clearing,
                   ghosts, plan>>

ParentFinishesTools ==
    /\ ParentGoes("tools", "top")
    /\ ~Batch /\ cancelling = NoJob
    /\ UNCHANGED <<call, stray, cancelling, budget, seen, handles, worker, aborted, told, clearing,
                   ghosts, plan>>

\* A barrier: a call that mutates runs alone.
Alone == parent = "tools" /\ ~Batch /\ cancelling = NoJob

\* The id of j is in the main agent's history.
Known(j) == call[j] = "returned" /\ j \notin stray \cup old

\* send_prompt, under the entry's lock: the message is queued for a running
\* agent; an idle one declines.
Sends(j, s) ==
    /\ s \in plan.steers /\ plan' = [plan EXCEPT !.steers = @ \ {s}]
    /\ IF entry[j].shown = "running"
       THEN queue' = [queue EXCEPT ![j] = Append(@, s)] /\ said' = said \cup {<<s, j>>}
       ELSE UNCHANGED <<queue, said>>
    /\ UNCHANGED <<parent, call, stray, cancelling, budget, entry, row, handles, worker, aborted,
                   told, clearing, heard, broken, silenced, cut, old, late>>

\* task_steer, or the user in the job's pane.
Steers(j, s) ==
    /\ (Alone /\ Known(j)) \/ entry[j].shown # "absent"
    /\ Sends(j, s)

\* Mutant: the entry is left as it is.
MarksRow(j) ==
    /\ row' = [row EXCEPT ![j] = IF @ \in {"running", "done"} THEN "cancelled" ELSE @]
    /\ UNCHANGED entry
    /\ silenced' = silenced \cup ({j} \ {i \in Job : row[i] = "gone"})

\* What task_cancel does once the worker is gone, or after ten seconds.
Marks(j) ==
    /\ row' = [row EXCEPT ![j] = IF @ \in {"running", "done"} THEN "cancelled" ELSE @]
    /\ entry' = [entry EXCEPT ![j] = IF @.shown = "absent" THEN @ ELSE [shown |-> "idle", delivered |-> TRUE]]
    /\ silenced' = silenced \cup ({j} \ {i \in Job : row[i] = "gone"})

\* task_cancel takes the handle out and aborts the worker, which it awaits;
\* without a handle it marks the row at once, or there is none.
Cancels(j) ==
    /\ Alone /\ Known(j)
    /\ plan.cancels > 0 /\ plan' = [plan EXCEPT !.cancels = @ - 1]
    /\ IF j \in handles
       THEN /\ handles' = handles \ {j} /\ aborted' = aborted \cup {j} /\ cancelling' = j
            /\ UNCHANGED <<row, entry, silenced>>
       ELSE /\ row[j] # "gone"
            /\ Marks(j)
            /\ UNCHANGED <<handles, aborted, cancelling>>
    /\ UNCHANGED <<parent, call, stray, budget, queue, worker, told, clearing, heard, said, broken,
                   cut, old, late>>

Cancelled ==
    /\ cancelling # NoJob /\ cancelling' = NoJob
    /\ Marks(cancelling)
    /\ UNCHANGED <<parent, call, stray, budget, queue, handles, worker, aborted, told, clearing,
                   heard, said, broken, cut, old, late, plan>>

\* The user interrupts the turn: its calls are aborted where they wait.
Interrupts ==
    /\ parent \in {"calling", "tools"} /\ parent' = "idle"
    /\ plan.interrupts > 0 /\ plan' = [plan EXCEPT !.interrupts = @ - 1]
    /\ stray' = stray \cup {j \in Job : Underway(j)}
    /\ cancelling' = NoJob
    /\ cut' = cut \cup ({cancelling} \ {NoJob})
    /\ UNCHANGED <<call, budget, seen, handles, worker, aborted, told, clearing, heard, said,
                   broken, silenced, old, late>>

-----------------------------------------------------------------------------
(* Agent::clear: the conversation is thrown away.                          *)

\* The workers whose handles are kept are aborted, and not awaited.
ClearAborts ==
    /\ parent = "idle" /\ ~clearing /\ clearing' = TRUE
    /\ plan.clears > 0 /\ plan' = [plan EXCEPT !.clears = @ - 1]
    /\ aborted' = aborted \cup handles
    /\ handles' = {}
    /\ late' = late \cup {j \in Job : call[j] \in {"built", "registered"}}
    /\ old' = old \cup {j \in Job : call[j] # "none"}
    /\ UNCHANGED <<parent, call, stray, cancelling, budget, seen, worker, told, heard, said,
                   broken, silenced, cut>>

\* Mutant: the rows stay.
ClearForgetsEntries ==
    /\ clearing /\ clearing' = FALSE
    /\ entry' = [j \in Job |-> Absent]
    /\ told' = [j \in Job |-> 0]
    /\ spent' = 0
    /\ UNCHANGED <<parent, call, stray, cancelling, used, queue, row, handles, worker, aborted, ghosts,
                   plan>>

\* The rows, the entries, the history and the cost are cleared.
ClearForgets ==
    /\ clearing /\ clearing' = FALSE
    /\ row' = [j \in Job |-> IF row[j] = "none" THEN "none" ELSE "gone"]
    /\ entry' = [j \in Job |-> Absent]
    /\ told' = [j \in Job |-> 0]
    /\ spent' = 0
    /\ UNCHANGED <<parent, call, stray, cancelling, used, queue, handles, worker, aborted, ghosts,
                   plan>>

-----------------------------------------------------------------------------
Init ==
    /\ parent = "idle"
    /\ call = [j \in Job |-> "none"] /\ stray = {} /\ cancelling = NoJob
    /\ used = [k \in Kinds |-> 0]
    /\ entry = [j \in Job |-> Absent]
    /\ queue = [j \in Job |-> << >>]
    /\ row = [j \in Job |-> "none"]
    /\ handles = {} /\ aborted = {}
    /\ worker = [j \in Job |-> "none"]
    /\ spent = 0 /\ told = [j \in Job |-> 0] /\ clearing = FALSE
    /\ heard = [j \in Job |-> {}]
    /\ said = {} /\ broken = {} /\ silenced = {} /\ cut = {} /\ old = {} /\ late = {}
    /\ plan \in Plans

CallStep(j) == Builds(j) \/ DropsCall(j) \/ Registers(j) \/ Publishes(j)

ParentStep ==
    \/ ParentBegins \/ ParentRound \/ ParentCallsTools \/ ParentAnswers \/ ParentFinishesTools
    \/ Cancelled \/ Interrupts \/ ClearAborts \/ ClearForgets
    \/ \E j \in Job : Delegates(j) \/ Cancels(j) \/ \E s \in Steer : Steers(j, s)

Next == ParentStep \/ \E j \in Job : CallStep(j) \/ WorkerStep(j)

Spec == Init /\ [][Next]_vars

\* The runtime runs every task that can go on; a run's tool rounds are bounded
\* (max_steps), so one that keeps calling answers; a clear or a task_cancel that began goes on.
Fairness ==
    /\ WF_vars(ClearForgets) /\ WF_vars(Cancelled)
    /\ \A j \in Job :
          /\ WF_vars(CallStep(j)) /\ WF_vars(WorkerStep(j))
          /\ SF_vars(Accounts(j) /\ worker'[j] = "answered")

FairSpec == Spec /\ Fairness

-----------------------------------------------------------------------------
(* Invariants.                                                             *)

TypeOK ==
    /\ parent \in {"idle", "top", "calling", "tools"}
    /\ call \in [Job -> {"none", "slot", "built", "registered", "returned", "refused", "failed"}]
    /\ cancelling \in Job \cup {NoJob}
    /\ stray \subseteq Job /\ handles \subseteq Job /\ aborted \subseteq Job
    /\ broken \subseteq Job /\ silenced \subseteq Job /\ cut \subseteq Job
    /\ old \subseteq Job /\ late \subseteq Job
    /\ used \in [Kinds -> Nat] /\ spent \in Nat /\ told \in [Job -> Nat]
    /\ entry \in [Job -> [shown : {"absent", "running", "idle"}, delivered : BOOLEAN]]
    /\ queue \in [Job -> Seq(Steer \cup {Brief})]
    /\ heard \in [Job -> SUBSET (Steer \cup {Brief})]
    /\ said \in SUBSET (Steer \X Job)
    /\ row \in [Job -> {"none", "running", "done", "cancelled", "gone"}]
    /\ worker \in [Job -> {"none", "spawned", "begun", "top", "calling", "replied", "answered",
                           "saving", "recorded", "gone"}]
    /\ clearing \in BOOLEAN
    /\ plan \in [jobs : SUBSET Job, steers : SUBSET Steer, cancels : Nat, interrupts : Nat,
                 clears : Nat]

Alive(j) == worker[j] \notin {"none", "gone"}

Holders(k) == {j \in Job : Kind(j) = k /\ (Underway(j) \/ Alive(j))}

\* A slot is taken exactly as long as its call or its worker lives, whatever ends
\* them, and no more run at once than the limit (SubagentSlots: "a panicking or
\* aborted sub-agent can't leak one").
SlotsBound ==
    \A k \in Kinds : used[k] = Cardinality(Holders(k)) /\ used[k] <= Cap[k]

InFlight == {j \in Job : worker[j] \in {"calling", "replied"}}

\* However the agents interleave, the budget is exceeded by at most one call for
\* each that may run beside the last one within it.
OvershootBounded ==
    spent + Cardinality(InFlight) + (IF parent = "calling" THEN 1 ELSE 0)
        <= MaxCost + Cap["read"] + Cap["write"]

\* The run has not decided to finish, so it will look at its queue again.
RunLive(j) == call[j] = "registered" \/ worker[j] = "spawned" \/ worker[j] \in Guarded

\* A message reported as steered reaches the agent, or waits where its run will
\* find it, unless the run failed or was aborted, or a clear has removed its entry
\* (continue_or_finish: "can neither be lost nor spin the loop").
SteersHeard ==
    \A s \in Steer, j \in Job : <<s, j>> \in said =>
        \/ s \in heard[j]
        \/ s \in ToSet(queue[j]) /\ RunLive(j)
        \/ j \in broken \cup aborted \cup late

\* A worker that is gone, of this conversation, has left its result: in the history
\* once, or in its row, unless it was cancelled.  A job that task_cancel reported
\* cancelled is not heard of again, nor one of a conversation that was cleared, but
\* for a call that was still registering it.
ResultsAccounted ==
    \A j \in Job :
        /\ told[j] <= 1
        /\ worker[j] = "gone" /\ j \notin old =>
              \/ told[j] = 1 \/ row[j] = "done" \/ clearing
              \/ j \in silenced \cup cut \cup {cancelling}
        /\ told[j] > 0 => j \notin silenced /\ (j \notin old \ late \/ clearing)

\* What is shown as running has a worker, or is about to (RunGuard), unless its
\* cancel was interrupted.
RunningIsReal ==
    \A j \in Job : entry[j].shown = "running" =>
        \/ Underway(j) \/ Alive(j) \/ clearing
        \/ j \in cut \cup {cancelling}

-----------------------------------------------------------------------------
(* Liveness.                                                               *)

\* A row is not left running: a job ends, or is cancelled or cleared, unless its
\* cancel was interrupted.
RowsSettle ==
    \A j \in Job : (row[j] = "running") ~> (row[j] # "running" \/ j \in cut)

=============================================================================
