---------------------------- MODULE Turns_proofs ----------------------------
(***************************************************************************)
(* Proofs about Turns, for any number of tasks, messages and results, any  *)
(* inbox limit and any plan of the surroundings.                           *)
(*                                                                         *)
(* Three inductive invariants rest on the types: the agent's lock has one  *)
(* holder (OneHolds); while no turn was begun during another's end, one    *)
(* task works, and the handle, the flag and the generation name it         *)
(* (Ordered); and every message is in one place (Conserved).               *)
(***************************************************************************)
EXTENDS Turns, SequenceLemmas

-----------------------------------------------------------------------------
(* Tasks and the queue.                                                    *)

\* The kinds of task, and where one may stand.
Kinds == Panes \cup {"turn"}

Ats == {"gone", "spawned", "hook", "round", "calling", "over", "leaving", "judged"}

\* What a slot holds.
TaskType == [kind : Kinds, at : Ats, aborted : BOOLEAN, carry : Seq(Human)]

\* The messages of the UI's channel.
Notes == [kind : {"Done", "Compacted", "PeerReady"}, of : Task \cup {NoTask},
          pane : Panes \cup {NoPane}]

\* What a queue is: elements that are never empty, a peer's message or the user's.
Shaped(q) ==
    /\ q \in Seq(Seq(Message))
    /\ \A i \in DOMAIN q : q[i] # << >> /\ (Head(q[i]) \in Peer \/ q[i] \in Seq(Human))

\* A task carries something only at the hook, and only a turn comes there or to a round.
HandsAtHook ==
    \A t \in Task :
        /\ task[t].carry # << >> => At(t, "hook")
        /\ task[t].at \in {"hook", "round"} => task[t].kind = "turn"

\* The tasks other than t stay as they are.
Alone(t) == \A u \in Task \ {t} : task'[u] = task[u]

\* The user's messages and the peers' are messages, and no message is both.
LEMMA KindsApart == Human \cap Peer = {} /\ Human \subseteq Message /\ Peer \subseteq Message
BY KindsAssumption DEF Message

\* The fields of a task's record.
LEMMA TaskField ==
  ASSUME NEW r \in TaskType
  PROVE  /\ r.kind \in Kinds /\ r.at \in Ats /\ r.aborted \in BOOLEAN /\ r.carry \in Seq(Human)
         /\ r = [kind |-> r.kind, at |-> r.at, aborted |-> r.aborted, carry |-> r.carry]
BY DEF TaskType

\* What a slot is when its task is gone, and when a task has just been spawned in it.
LEMMA GoneTyped ==
  /\ Gone \in TaskType /\ Gone.kind = "turn" /\ Gone.at = "gone"
  /\ ~Gone.aborted /\ Gone.carry = << >>
  /\ \A kind \in Kinds :
        /\ Fresh(kind) \in TaskType /\ Fresh(kind).kind = kind /\ Fresh(kind).at = "spawned"
        /\ ~Fresh(kind).aborted /\ Fresh(kind).carry = << >>
BY EmptySeq DEF Gone, Fresh, TaskType, Kinds, Ats

\* A task goes to another place and keeps the rest.
LEMMA Moves ==
  ASSUME task \in [Task -> TaskType], NEW t \in Task, NEW place \in Ats, Goes(t, place)
  PROVE  /\ task' \in [Task -> TaskType] /\ Alone(t)
         /\ task'[t].kind = task[t].kind /\ task'[t].at = place
         /\ task'[t].aborted = task[t].aborted /\ task'[t].carry = task[t].carry
<1>1. task[t] \in TaskType
  OBVIOUS
<1>2. task' = [task EXCEPT ![t] = [task[t] EXCEPT !.at = place]]
  BY DEF Goes
<1>3. [task[t] EXCEPT !.at = place] \in TaskType
  BY <1>1 DEF TaskType
<1>. QED BY <1>1, <1>2, <1>3 DEF Alone, TaskType

\* A task goes to another place with c in hand.
LEMMA Takes ==
  ASSUME task \in [Task -> TaskType], NEW t \in Task, NEW place \in Ats, NEW c \in Seq(Human),
         task' = [task EXCEPT ![t].at = place, ![t].carry = c]
  PROVE  /\ task' \in [Task -> TaskType] /\ Alone(t)
         /\ task'[t].kind = task[t].kind /\ task'[t].at = place
         /\ task'[t].aborted = task[t].aborted /\ task'[t].carry = c
<1>1. task[t] \in TaskType
  OBVIOUS
<1>2. task' = [task EXCEPT ![t] = [task[t] EXCEPT !.at = place, !.carry = c]]
  OBVIOUS
<1>3. [task[t] EXCEPT !.at = place, !.carry = c] \in TaskType
  BY <1>1 DEF TaskType
<1>. QED BY <1>1, <1>2, <1>3 DEF Alone, TaskType

\* A task is gone, and the others are untouched.
LEMMA Ends ==
  ASSUME task \in [Task -> TaskType], NEW t \in Task, Leaves(t)
  PROVE  /\ task' \in [Task -> TaskType] /\ Alone(t) /\ task'[t] = Gone
BY GoneTyped DEF Leaves, Alone

\* A task is launched in a slot that was free.
Begins(t, kind) == task' = [task EXCEPT ![t] = Fresh(kind)]

\* A task is spawned in a slot, and the others are untouched.
LEMMA Begun ==
  ASSUME task \in [Task -> TaskType], NEW t \in Task, NEW kind \in Kinds, Begins(t, kind)
  PROVE  /\ task' \in [Task -> TaskType] /\ Alone(t) /\ task'[t] = Fresh(kind)
BY GoneTyped DEF Begins, Alone

\* What an abort leaves of the tasks: where they stand and what they carry.
SamePlaces ==
    \A u \in Task : /\ task'[u].kind = task[u].kind /\ task'[u].at = task[u].at
                    /\ task'[u].carry = task[u].carry

\* An abort moves no task: it empties the handle, and marks the task that the handle named,
\* which quitting will await.
LEMMA Aborted ==
  ASSUME task \in [Task -> TaskType], handle \in Task \cup {NoTask}, Aborts
  PROVE  /\ task' \in [Task -> TaskType] /\ SamePlaces /\ handle' = NoTask
         /\ \A u \in Task : u # handle => task'[u] = task[u]
         /\ handle # NoTask => /\ handle \in Task /\ reap' = handle
                               /\ task'[handle].aborted = ~At(handle, "gone")
         /\ handle = NoTask => reap' = reap /\ task' = task
<1>1. CASE handle = NoTask
  BY <1>1, SlotsAssumption DEF Aborts, SamePlaces
<1>2. CASE handle # NoTask
  <2>1. handle \in Task /\ task[handle] \in TaskType
    BY <1>2
  <2>. DEFINE b == ~At(handle, "gone")
  <2>2. b \in BOOLEAN
    OBVIOUS
  <2>3. task' = [task EXCEPT ![handle] = [task[handle] EXCEPT !.aborted = b]]
    BY <1>2, <2>1 DEF Aborts
  <2>4. handle' = NoTask /\ reap' = handle
    BY <1>2 DEF Aborts
  <2>. HIDE DEF b
  <2>5. /\ [task[handle] EXCEPT !.aborted = b] \in TaskType
        /\ [task[handle] EXCEPT !.aborted = b].aborted = b
        /\ [task[handle] EXCEPT !.aborted = b].kind = task[handle].kind
        /\ [task[handle] EXCEPT !.aborted = b].at = task[handle].at
        /\ [task[handle] EXCEPT !.aborted = b].carry = task[handle].carry
    BY <2>1, <2>2 DEF TaskType
  <2>6. /\ task' \in [Task -> TaskType] /\ \A u \in Task : u # handle => task'[u] = task[u]
        /\ task'[handle] = [task[handle] EXCEPT !.aborted = b]
    BY <2>1, <2>3, <2>5
  <2>7. SamePlaces
    BY <2>5, <2>6 DEF SamePlaces
  <2>. QED BY <1>2, <2>1, <2>4, <2>5, <2>6, <2>7 DEF b
<1>. QED BY <1>1, <1>2

-----------------------------------------------------------------------------

\* However the queue merges a message into its last element, read from end to end it is the old
\* queue with the message last; and it keeps its shape.
LEMMA MergedQueue ==
  ASSUME NEW q, Shaped(q), NEW m \in Message
  PROVE  Shaped(Merged(q, m)) /\ FlattenSeq(Merged(q, m)) = Append(FlattenSeq(q), m)
<1>1. CASE q # << >> /\ m \in Human /\ ~IsPeer(Last(q))
  <2>. DEFINE n == Len(q)
              f == SubSeq(q, 1, n-1)
              e == q[n]
  <2>1. q \in Seq(Seq(Message)) /\ n \in Nat \ {0} /\ DOMAIN q = 1..n /\ n \in 1..n
    BY <1>1, EmptySeq DEF Shaped
  <2>2. e \in Seq(Message) /\ e # << >> /\ e \in Seq(Human) /\ Head(e) \notin Peer
    BY <1>1, <2>1 DEF Shaped, IsPeer, Last
  <2>3. f \in Seq(Seq(Message)) /\ q = Append(f, e)
    BY <2>1
  <2>4. /\ Append(e, m) \in Seq(Human) /\ Append(e, m) \in Seq(Message)
        /\ Append(e, m) # << >>
    BY <2>2, <1>1, KindsApart, AppendProperties, SeqMonotonic
  <2>5. Merged(q, m) = [q EXCEPT ![n] = Append(e, m)]
    BY <1>1, <2>1 DEF Merged
  <2>6. Merged(q, m) = Append(f, Append(e, m))
    BY <2>1, <2>3, <2>4, <2>5
  <2>. HIDE DEF n, f, e
  <2>7. FlattenSeq(q) = FlattenSeq(f) \o e
    BY <2>2, <2>3, FlattenAppend
  <2>8. FlattenSeq(Merged(q, m)) = FlattenSeq(f) \o Append(e, m)
    BY <2>3, <2>4, <2>6, FlattenAppend
  <2>9. FlattenSeq(f) \in Seq(Message)
    BY <2>3, FlattenType
  <2>10. FlattenSeq(f) \o Append(e, m) = Append(FlattenSeq(f) \o e, m)
    BY <2>2, <2>9
  <2>11. Shaped(Merged(q, m))
    <3>1. [q EXCEPT ![n] = Append(e, m)] \in Seq(Seq(Message))
      BY <2>1, <2>4, ExceptSeq
    <3>2. \A i \in 1..n : [q EXCEPT ![n] = Append(e, m)][i] = IF i = n THEN Append(e, m) ELSE q[i]
      BY <2>1
    <3>. QED BY <2>1, <2>4, <2>5, <3>1, <3>2 DEF Shaped
  <2>. QED BY <2>7, <2>8, <2>10, <2>11
<1>2. CASE ~(q # << >> /\ m \in Human /\ ~IsPeer(Last(q)))
  <2>1. Merged(q, m) = Append(q, <<m>>) /\ q \in Seq(Seq(Message)) /\ <<m>> \in Seq(Message)
    BY <1>2 DEF Merged, Shaped
  <2>2. FlattenSeq(Merged(q, m)) = FlattenSeq(q) \o <<m>>
    BY <2>1, FlattenAppend
  <2>3. FlattenSeq(q) \in Seq(Message)
    BY <2>1, FlattenType
  <2>4. FlattenSeq(q) \o <<m>> = Append(FlattenSeq(q), m)
    BY <2>3, AppendIsConcat
  <2>5. <<m>> # << >> /\ (Head(<<m>>) \in Peer \/ <<m>> \in Seq(Human))
    BY DEF Message
  <2>6. /\ Append(q, <<m>>) \in Seq(Seq(Message)) /\ Len(q) \in Nat
        /\ DOMAIN q = 1..Len(q) /\ DOMAIN Append(q, <<m>>) = 1..(Len(q) + 1)
        /\ \A i \in 1..Len(q) : Append(q, <<m>>)[i] = q[i]
        /\ Append(q, <<m>>)[Len(q) + 1] = <<m>>
    BY <2>1
  <2>7. Shaped(Append(q, <<m>>))
    <3>1. \A i \in 1..(Len(q) + 1) : i \in 1..Len(q) \/ i = Len(q) + 1
      BY <2>6
    <3>2. \A i \in 1..Len(q) : q[i] # << >> /\ (Head(q[i]) \in Peer \/ q[i] \in Seq(Human))
      BY <2>6 DEF Shaped
    <3>. QED BY <2>5, <2>6, <3>1, <3>2 DEF Shaped
  <2>. QED BY <2>1, <2>2, <2>4, <2>7
<1>. QED BY <1>1, <1>2

\* What the head of the queue is, and what is left behind it.
LEMMA QueueHead ==
  ASSUME NEW q, Shaped(q), q # << >>
  PROVE  /\ q[1] \in Seq(Message) /\ Shaped(Tail(q))
         /\ ~IsPeer(q[1]) => q[1] \in Seq(Human)
         /\ FlattenSeq(q) = q[1] \o FlattenSeq(Tail(q))
<1>1. /\ q \in Seq(Seq(Message)) /\ Len(q) \in Nat \ {0} /\ DOMAIN q = 1..Len(q) /\ 1 \in DOMAIN q
      /\ Head(q) = q[1]
  BY EmptySeq DEF Shaped
<1>2. q[1] \in Seq(Message) /\ (~IsPeer(q[1]) => q[1] \in Seq(Human))
  BY <1>1 DEF Shaped, IsPeer
<1>3. FlattenSeq(q) = q[1] \o FlattenSeq(Tail(q))
  BY <1>1, FlattenHead
<1>4. /\ Tail(q) \in Seq(Seq(Message)) /\ DOMAIN Tail(q) = 1..(Len(q)-1)
      /\ \A i \in 1..(Len(q)-1) : Tail(q)[i] = q[i+1] /\ i+1 \in 1..Len(q)
  BY <1>1
<1>5. Shaped(Tail(q))
  BY <1>1, <1>4 DEF Shaped
<1>. QED BY <1>2, <1>3, <1>5

\* The empty queue has the shape of a queue, and nothing is on it.
LEMMA EmptyQueue == Shaped(<< >>) /\ FlattenSeq(<< >>) = << >>
BY FlattenEmpty, EmptySeq DEF Shaped

\* The queue read from end to end is a sequence of messages.
LEMMA FlatType ==
  ASSUME NEW q, Shaped(q)
  PROVE  FlattenSeq(q) \in Seq(Message) /\ ToSet(FlattenSeq(q)) \subseteq Message
BY FlattenType, ListedType DEF Shaped

-----------------------------------------------------------------------------
(* The types.                                                              *)

\* The parts of the type invariant: the loop, the entry, the tasks, the queue and the history,
\* the mail, the fates of messages, and the world around.
LoopTyped ==
    /\ loop \in {"top", "peer", "drawn", "select", "drain", "closing", "reaping", "exited"}
    /\ saw \in BOOLEAN /\ lively \in BOOLEAN /\ quitting \in BOOLEAN
    /\ reap \in Task \cup {NoTask} /\ compactQ \in Panes \cup {NoPane}

EntryTyped ==
    /\ running \in BOOLEAN /\ raced \in BOOLEAN
    /\ handle \in Task \cup {NoTask} /\ owner \in Task \cup {NoTask}

TasksTyped == task \in [Task -> TaskType] /\ HandsAtHook

QueueTyped == Shaped(queue) /\ entered \subseteq Message /\ history \in Seq(Message)

MailTyped == inbox \in Seq(Peer) /\ accepted \subseteq Peer /\ chan \in Seq(Notes)

FatesTyped ==
    /\ composer \subseteq Human /\ refused \subseteq Human
    /\ discarded \subseteq Peer /\ undelivered \subseteq Peer
    /\ dropped \subseteq Message /\ past \subseteq Message /\ before \subseteq Message
    /\ wipes \in Nat

PlanType == [messages : SUBSET Message, results : SUBSET Result, cancels : Nat,
             compact : SUBSET Panes, clears : Nat, quits : BOOLEAN]

WorldTyped ==
    /\ result \in [Result -> {"working", "ended", "landed", "delivered", "cleared"}]
    /\ plan \in PlanType

Typed ==
    /\ LoopTyped /\ EntryTyped /\ TasksTyped /\ QueueTyped /\ MailTyped /\ FatesTyped /\ WorldTyped

\* The parts of the type invariant make up TypeOK.
LEMMA TypedIsTypeOK == ASSUME Typed PROVE TypeOK
<1>1. /\ loop \in {"top", "peer", "drawn", "select", "drain", "closing", "reaping", "exited"}
      /\ {saw, lively, quitting, running, raced} \subseteq BOOLEAN
      /\ {handle, reap, owner} \subseteq Task \cup {NoTask}
      /\ compactQ \in Panes \cup {NoPane}
  BY DEF Typed, LoopTyped, EntryTyped
<1>2. task \in [Task -> [kind : Panes \cup {"turn"},
                        at : {"gone", "spawned", "hook", "round", "calling", "over",
                              "leaving", "judged"},
                        aborted : BOOLEAN, carry : Seq(Human)]]
  BY DEF Typed, TasksTyped, TaskType, Kinds, Ats
<1>3. /\ queue \in Seq(Seq(Message)) /\ inbox \in Seq(Peer) /\ entered \subseteq Message
      /\ chan \in Seq([kind : {"Done", "Compacted", "PeerReady"}, of : Task \cup {NoTask},
                       pane : Panes \cup {NoPane}])
      /\ history \in Seq(Message)
  BY DEF Typed, QueueTyped, MailTyped, Notes, Shaped
<1>4. /\ {composer, refused} \subseteq SUBSET Human
      /\ {discarded, undelivered, accepted} \subseteq SUBSET Peer
      /\ {dropped, past, before} \subseteq SUBSET Message /\ wipes \in Nat
  BY DEF Typed, FatesTyped, MailTyped
<1>5. /\ result \in [Result -> {"working", "ended", "landed", "delivered", "cleared"}]
      /\ plan \in [messages : SUBSET Message, results : SUBSET Result, cancels : Nat,
                   compact : SUBSET Panes, clears : Nat, quits : BOOLEAN]
  BY DEF Typed, WorldTyped, PlanType
<1>. QED
  BY <1>1, <1>2, <1>3, <1>4, <1>5 DEF TypeOK

\* A step of task t leaves the others as they are, and t at the place, with c in hand.
Moved(t, place, c) ==
    /\ task' \in [Task -> TaskType] /\ Alone(t)
    /\ task'[t].kind = task[t].kind /\ task'[t].at = place
    /\ task'[t].aborted = task[t].aborted /\ task'[t].carry = c

\* A step of task t leaves the others as they are, and t is gone.
Left(t) == task' \in [Task -> TaskType] /\ Alone(t) /\ task'[t] = Gone

\* Only a task at the hook carries anything.
LEMMA EmptyHands ==
  ASSUME Typed, NEW t \in Task, ~At(t, "hook")
  PROVE  task[t].carry = << >>
BY DEF Typed, TasksTyped, HandsAtHook

\* A task that moves keeps the types, if it carries something only to the hook.
LEMMA MovedTyped ==
  ASSUME Typed, NEW t \in Task, NEW place \in Ats, NEW c, Moved(t, place, c),
         c # << >> => place = "hook", place \in {"hook", "round"} => task[t].kind = "turn"
  PROVE  TasksTyped'
BY DEF Moved, Alone, Typed, TasksTyped, HandsAtHook, At

\* A task that leaves keeps the types.
LEMMA LeftTyped == ASSUME Typed, NEW t \in Task, Left(t) PROVE TasksTyped'
BY GoneTyped DEF Left, Alone, Typed, TasksTyped, HandsAtHook, At

\* A call of tools takes the task to its next round.
LEMMA CallsToolsMoves ==
  ASSUME Typed, NEW t \in Task, CallsTools(t)
  PROVE  Moved(t, "round", << >>)
<1>1. Goes(t, "round") /\ ~At(t, "hook")
  BY DEF CallsTools, At
<1>. QED BY <1>1, Moves, EmptyHands DEF Moved, Ats, Typed, TasksTyped

\* An answer takes the task to its end.
LEMMA AnswersMoves ==
  ASSUME Typed, NEW t \in Task, Answers(t)
  PROVE  Moved(t, "over", << >>)
<1>1. Goes(t, "over") /\ ~At(t, "hook")
  BY DEF Answers, At
<1>. QED BY <1>1, Moves, EmptyHands DEF Moved, Ats, Typed, TasksTyped

\* The start of a summary takes the task to its call.
LEMMA SummarizesMoves ==
  ASSUME Typed, NEW t \in Task, Summarizes(t)
  PROVE  Moved(t, "calling", << >>)
<1>1. Goes(t, "calling") /\ ~At(t, "hook")
  BY DEF Summarizes, At
<1>. QED BY <1>1, Moves, EmptyHands DEF Moved, Ats, Typed, TasksTyped

\* A round takes the task to its call.
LEMMA RoundMoves ==
  ASSUME Typed, NEW t \in Task, Round(t)
  PROVE  Moved(t, "calling", << >>)
<1>1. Goes(t, "calling") /\ ~At(t, "hook")
  BY DEF Round, At
<1>. QED BY <1>1, Moves, EmptyHands DEF Moved, Ats, Typed, TasksTyped

\* The guard's write lets the task leave.
LEMMA GuardWritesMoves ==
  ASSUME Typed, NEW t \in Task, GuardWrites(t)
  PROVE  Left(t)
BY Ends DEF GuardWrites, Left, Typed, TasksTyped

\* The guard's judgement keeps the task if the entry is still its own.
LEMMA GuardJudgesMoves ==
  ASSUME Typed, NEW t \in Task, GuardJudges(t)
  PROVE  IF owner = t THEN Moved(t, "judged", << >>) ELSE Left(t)
<1>1. ~At(t, "hook")
  BY DEF GuardJudges, At
<1>. QED BY <1>1, Ends, Moves, EmptyHands DEF GuardJudges, Moved, Left, Ats, Typed, TasksTyped

\* A report takes a turn to its guard, and lets a compaction leave.
LEMMA ReportsMoves ==
  ASSUME Typed, NEW t \in Task, Reports(t)
  PROVE  /\ task[t].kind = "turn" => Moved(t, "leaving", << >>)
         /\ task[t].kind # "turn" => Left(t)
<1>1. ~At(t, "hook")
  BY DEF Reports, At
<1>. QED BY <1>1, Ends, Moves, EmptyHands DEF Reports, Moved, Left, Ats, Typed, TasksTyped

\* A blocked opener takes the task to its end, empty-handed.
LEMMA HookBlocksMoves ==
  ASSUME Typed, NEW t \in Task, HookBlocks(t)
  PROVE  Moved(t, "over", << >>)
BY Takes, EmptySeq DEF HookBlocks, Moved, Ats, Typed, TasksTyped

\* An opener that passes takes the task to its round, empty-handed.
LEMMA HookPassesMoves ==
  ASSUME Typed, NEW t \in Task, HookPasses(t)
  PROVE  Moved(t, "round", << >>)
BY Takes, EmptySeq DEF HookPasses, Moved, Ats, Typed, TasksTyped

\* The drop of an aborted task takes a turn to its guard, or lets the task leave.
LEMMA DropsMoves ==
  ASSUME Typed, NEW t \in Task, Drops(t)
  PROVE  Left(t) \/ (task[t].kind = "turn" /\ Moved(t, "leaving", << >>))
<1>. DEFINE leaves == task' = [task EXCEPT ![t].at = "leaving", ![t].carry = << >>]
<1>1. Leaves(t) => Left(t)
  BY Ends DEF Left, Typed, TasksTyped
<1>2. leaves => Moved(t, "leaving", << >>)
  BY Takes, EmptySeq DEF Moved, Ats, Typed, TasksTyped
<1>3. Leaves(t) \/ (task[t].kind = "turn" /\ leaves)
  BY DEF Drops
<1>. HIDE DEF leaves
<1>. QED BY <1>1, <1>2, <1>3

\* The start of a run takes the first of the queue, and carries what the user wrote to the hook.
LEMMA OpensMoves ==
  ASSUME Typed, NEW t \in Task, Opens(t)
  PROVE  \/ queue = << >> /\ Moved(t, "round", << >>) /\ UNCHANGED <<queue, history>>
         \/ /\ queue # << >> /\ Moved(t, "round", << >>)
            /\ history' = history \o queue[1] /\ queue' = Tail(queue)
         \/ /\ queue # << >> /\ queue[1] \in Seq(Human) /\ Moved(t, "hook", queue[1])
            /\ history' = history /\ queue' = Tail(queue)
<1>1. ~At(t, "hook")
  BY DEF Opens, At
<1>2. CASE Goes(t, "round")
  <2>1. Moved(t, "round", << >>)
    BY <1>1, <1>2, Moves, EmptyHands DEF Moved, Ats, Typed, TasksTyped
  <2>2. CASE queue = << >> /\ UNCHANGED <<queue, history>>
    BY <2>1, <2>2
  <2>3. CASE queue # << >> /\ history' = history \o queue[1] /\ queue' = Tail(queue)
    BY <2>1, <2>3
  <2>4. CASE /\ queue # << >> /\ ~IsPeer(queue[1]) /\ UNCHANGED history /\ queue' = Tail(queue)
             /\ task' = [task EXCEPT ![t].at = "hook", ![t].carry = queue[1]]
    <3>1. queue[1] \in Seq(Human)
      BY <2>4, QueueHead DEF Typed, QueueTyped
    <3>2. Moved(t, "hook", queue[1])
      BY <3>1, <2>4, Takes DEF Moved, Ats, Typed, TasksTyped
    <3>. QED BY <2>4, <3>1, <3>2
  <2>. QED BY <2>2, <2>3, <2>4 DEF Opens
<1>3. CASE ~Goes(t, "round")
  <2>1. /\ queue # << >> /\ ~IsPeer(queue[1]) /\ UNCHANGED history /\ queue' = Tail(queue)
        /\ task' = [task EXCEPT ![t].at = "hook", ![t].carry = queue[1]]
    BY <1>3 DEF Opens
  <2>2. queue[1] \in Seq(Human)
    BY <2>1, QueueHead DEF Typed, QueueTyped
  <2>3. Moved(t, "hook", queue[1])
    BY <2>1, <2>2, Takes DEF Moved, Ats, Typed, TasksTyped
  <2>. QED BY <2>1, <2>2, <2>3
<1>. QED BY <1>2, <1>3

\* A call of tools keeps the types.
LEMMA CallsToolsTyped ==
  ASSUME Typed, NEW t \in Task, CallsTools(t)
  PROVE  Typed'
<1>1. LoopTyped'
  BY DEF Typed, LoopTyped, CallsTools, ui, entry, fates, clearing, arrivals
<1>2. EntryTyped'
  BY DEF Typed, EntryTyped, CallsTools, ui, entry, fates, clearing, arrivals
<1>3. TasksTyped'
  BY CallsToolsMoves, MovedTyped, LeftTyped DEF CallsTools, Ats, At
<1>4. QueueTyped'
  BY DEF Typed, QueueTyped, CallsTools, ui, entry, fates, clearing, arrivals
<1>5. MailTyped'
  BY DEF Typed, MailTyped, CallsTools, ui, entry, fates, clearing, arrivals
<1>6. FatesTyped'
  BY DEF Typed, FatesTyped, CallsTools, ui, entry, fates, clearing, arrivals
<1>7. WorldTyped'
  BY DEF Typed, WorldTyped, CallsTools, ui, entry, fates, clearing, arrivals
<1>. QED BY <1>1, <1>2, <1>3, <1>4, <1>5, <1>6, <1>7 DEF Typed

\* An answer keeps the types.
LEMMA AnswersTyped ==
  ASSUME Typed, NEW t \in Task, Answers(t)
  PROVE  Typed'
<1>1. LoopTyped'
  BY DEF Typed, LoopTyped, Answers, ui, entry, fates, clearing, arrivals
<1>2. EntryTyped'
  BY DEF Typed, EntryTyped, Answers, ui, entry, fates, clearing, arrivals
<1>3. TasksTyped'
  BY AnswersMoves, MovedTyped, LeftTyped DEF Answers, Ats, At
<1>4. QueueTyped'
  BY DEF Typed, QueueTyped, Answers, ui, entry, fates, clearing, arrivals
<1>5. MailTyped'
  BY DEF Typed, MailTyped, Answers, ui, entry, fates, clearing, arrivals
<1>6. FatesTyped'
  BY DEF Typed, FatesTyped, Answers, ui, entry, fates, clearing, arrivals
<1>7. WorldTyped'
  BY DEF Typed, WorldTyped, Answers, ui, entry, fates, clearing, arrivals
<1>. QED BY <1>1, <1>2, <1>3, <1>4, <1>5, <1>6, <1>7 DEF Typed

\* The start of a summary keeps the types.
LEMMA SummarizesTyped ==
  ASSUME Typed, NEW t \in Task, Summarizes(t)
  PROVE  Typed'
<1>1. LoopTyped'
  BY DEF Typed, LoopTyped, Summarizes, ui, entry, fates, clearing, arrivals
<1>2. EntryTyped'
  BY DEF Typed, EntryTyped, Summarizes, ui, entry, fates, clearing, arrivals
<1>3. TasksTyped'
  BY SummarizesMoves, MovedTyped, LeftTyped DEF Summarizes, Ats, At
<1>4. QueueTyped'
  BY DEF Typed, QueueTyped, Summarizes, ui, entry, fates, clearing, arrivals
<1>5. MailTyped'
  BY DEF Typed, MailTyped, Summarizes, ui, entry, fates, clearing, arrivals
<1>6. FatesTyped'
  BY DEF Typed, FatesTyped, Summarizes, ui, entry, fates, clearing, arrivals
<1>7. WorldTyped'
  BY DEF Typed, WorldTyped, Summarizes, ui, entry, fates, clearing, arrivals
<1>. QED BY <1>1, <1>2, <1>3, <1>4, <1>5, <1>6, <1>7 DEF Typed

\* The guard's write keeps the types.
LEMMA GuardWritesTyped ==
  ASSUME Typed, NEW t \in Task, GuardWrites(t)
  PROVE  Typed'
<1>1. LoopTyped'
  BY DEF Typed, LoopTyped, GuardWrites, ui, entry, fates, clearing, arrivals
<1>2. EntryTyped'
  BY DEF Typed, EntryTyped, GuardWrites, ui, entry, fates, clearing, arrivals
<1>3. TasksTyped'
  BY GuardWritesMoves, MovedTyped, LeftTyped DEF GuardWrites, Ats, At
<1>4. QueueTyped'
  BY DEF Typed, QueueTyped, GuardWrites, ui, entry, fates, clearing, arrivals
<1>5. MailTyped'
  BY DEF Typed, MailTyped, GuardWrites, ui, entry, fates, clearing, arrivals
<1>6. FatesTyped'
  BY DEF Typed, FatesTyped, GuardWrites, ui, entry, fates, clearing, arrivals
<1>7. WorldTyped'
  BY DEF Typed, WorldTyped, GuardWrites, ui, entry, fates, clearing, arrivals
<1>. QED BY <1>1, <1>2, <1>3, <1>4, <1>5, <1>6, <1>7 DEF Typed

\* The guard's judgement keeps the types.
LEMMA GuardJudgesTyped ==
  ASSUME Typed, NEW t \in Task, GuardJudges(t)
  PROVE  Typed'
<1>1. LoopTyped'
  BY DEF Typed, LoopTyped, GuardJudges, ui, entry, fates, clearing, arrivals
<1>2. EntryTyped'
  BY DEF Typed, EntryTyped, GuardJudges, ui, entry, fates, clearing, arrivals
<1>3. TasksTyped'
  BY GuardJudgesMoves, MovedTyped, LeftTyped DEF GuardJudges, Ats, At
<1>4. QueueTyped'
  BY DEF Typed, QueueTyped, GuardJudges, ui, entry, fates, clearing, arrivals
<1>5. MailTyped'
  BY DEF Typed, MailTyped, GuardJudges, ui, entry, fates, clearing, arrivals
<1>6. FatesTyped'
  BY DEF Typed, FatesTyped, GuardJudges, ui, entry, fates, clearing, arrivals
<1>7. WorldTyped'
  BY DEF Typed, WorldTyped, GuardJudges, ui, entry, fates, clearing, arrivals
<1>. QED BY <1>1, <1>2, <1>3, <1>4, <1>5, <1>6, <1>7 DEF Typed

\* A report keeps the types.
LEMMA ReportsTyped ==
  ASSUME Typed, NEW t \in Task, Reports(t)
  PROVE  Typed'
<1>1. LoopTyped'
  BY DEF Typed, LoopTyped, Reports, ui, entry, fates, clearing, arrivals
<1>2. EntryTyped'
  BY DEF Typed, EntryTyped, Reports, ui, entry, fates, clearing, arrivals
<1>3. TasksTyped'
  BY ReportsMoves, MovedTyped, LeftTyped DEF Reports, Ats, At
<1>4. QueueTyped'
  BY DEF Typed, QueueTyped, Reports, ui, entry, fates, clearing, arrivals
<1>5. MailTyped'
  <2>1. task[t].kind # "turn" => task[t].kind \in Panes
    BY TaskField DEF Kinds, Typed, TasksTyped
  <2>2. PICK n \in Notes : chan' = Append(chan, n)
    BY <2>1 DEF Reports, Notes, Panes
  <2>. QED BY <2>2 DEF Typed, MailTyped, Reports, arrivals
<1>6. FatesTyped'
  BY DEF Typed, FatesTyped, Reports, ui, entry, fates, clearing, arrivals
<1>7. WorldTyped'
  BY DEF Typed, WorldTyped, Reports, ui, entry, fates, clearing, arrivals
<1>. QED BY <1>1, <1>2, <1>3, <1>4, <1>5, <1>6, <1>7 DEF Typed

\* A blocked opener keeps the types.
LEMMA HookBlocksTyped ==
  ASSUME Typed, NEW t \in Task, HookBlocks(t)
  PROVE  Typed'
<1>1. LoopTyped'
  BY DEF Typed, LoopTyped, HookBlocks, ui, entry, fates, clearing, arrivals
<1>2. EntryTyped'
  BY DEF Typed, EntryTyped, HookBlocks, ui, entry, fates, clearing, arrivals
<1>3. TasksTyped'
  BY HookBlocksMoves, MovedTyped, LeftTyped DEF HookBlocks, Ats, At
<1>4. QueueTyped'
  BY DEF Typed, QueueTyped, HookBlocks, ui, entry, fates, clearing, arrivals
<1>5. MailTyped'
  BY DEF Typed, MailTyped, HookBlocks, ui, entry, fates, clearing, arrivals
<1>6. FatesTyped'
  <2>1. ToSet(task[t].carry) \subseteq Human
    BY TaskField, ListedType DEF Typed, TasksTyped
  <2>. QED BY <2>1 DEF Typed, FatesTyped, HookBlocks, clearing
<1>7. WorldTyped'
  BY DEF Typed, WorldTyped, HookBlocks, ui, entry, fates, clearing, arrivals
<1>. QED BY <1>1, <1>2, <1>3, <1>4, <1>5, <1>6, <1>7 DEF Typed

\* The drop of an aborted task keeps the types.
LEMMA DropsTyped ==
  ASSUME Typed, NEW t \in Task, Drops(t)
  PROVE  Typed'
<1>1. LoopTyped'
  BY DEF Typed, LoopTyped, Drops, ui, entry, fates, clearing, arrivals
<1>2. EntryTyped'
  BY DEF Typed, EntryTyped, Drops, ui, entry, fates, clearing, arrivals
<1>3. TasksTyped'
  BY DropsMoves, MovedTyped, LeftTyped DEF Ats
<1>4. QueueTyped'
  BY DEF Typed, QueueTyped, Drops, ui, entry, fates, clearing, arrivals
<1>5. MailTyped'
  BY DEF Typed, MailTyped, Drops, ui, entry, fates, clearing, arrivals
<1>6. FatesTyped'
  <2>1. ToSet(task[t].carry) \subseteq Human
    BY TaskField, ListedType DEF Typed, TasksTyped
  <2>. QED BY <2>1 DEF Typed, FatesTyped, Drops, clearing
<1>7. WorldTyped'
  BY DEF Typed, WorldTyped, Drops, ui, entry, fates, clearing, arrivals
<1>. QED BY <1>1, <1>2, <1>3, <1>4, <1>5, <1>6, <1>7 DEF Typed

\* An opener that passes keeps the types.
LEMMA HookPassesTyped ==
  ASSUME Typed, NEW t \in Task, HookPasses(t)
  PROVE  Typed'
<1>1. LoopTyped'
  BY DEF Typed, LoopTyped, HookPasses, ui, entry, fates, clearing, arrivals
<1>2. EntryTyped'
  BY DEF Typed, EntryTyped, HookPasses, ui, entry, fates, clearing, arrivals
<1>3. TasksTyped'
  BY HookPassesMoves, MovedTyped, LeftTyped DEF HookPasses, Ats, At, Typed, TasksTyped, HandsAtHook
<1>4. QueueTyped'
  <2>1. task[t].carry \in Seq(Message)
    BY TaskField, KindsApart, SeqMonotonic DEF Typed, TasksTyped
  <2>2. history' \in Seq(Message)
    BY <2>1, ConcatProperties DEF HookPasses, Typed, QueueTyped
  <2>. QED BY <2>2 DEF Typed, QueueTyped, HookPasses, entry
<1>5. MailTyped'
  BY DEF Typed, MailTyped, HookPasses, ui, entry, fates, clearing, arrivals
<1>6. FatesTyped'
  BY DEF Typed, FatesTyped, HookPasses, ui, entry, fates, clearing, arrivals
<1>7. WorldTyped'
  BY DEF Typed, WorldTyped, HookPasses, ui, entry, fates, clearing, arrivals
<1>. QED BY <1>1, <1>2, <1>3, <1>4, <1>5, <1>6, <1>7 DEF Typed

\* A round keeps the types.
LEMMA RoundTyped ==
  ASSUME Typed, NEW t \in Task, Round(t)
  PROVE  Typed'
<1>1. LoopTyped'
  BY DEF Typed, LoopTyped, Round, ui, entry, fates, clearing, arrivals
<1>2. EntryTyped'
  BY DEF Typed, EntryTyped, Round, ui, entry, fates, clearing, arrivals
<1>3. TasksTyped'
  BY RoundMoves, MovedTyped, LeftTyped DEF Round, Ats, At
<1>4. QueueTyped'
  <2>1. FlattenSeq(queue) \in Seq(Message)
    BY FlatType DEF Typed, QueueTyped
  <2>2. history' \in Seq(Message)
    BY <2>1, ConcatProperties DEF Round, Typed, QueueTyped
  <2>. QED BY <2>2, EmptyQueue DEF Typed, QueueTyped, Round
<1>5. MailTyped'
  BY DEF Typed, MailTyped, Round, ui, entry, fates, clearing, arrivals
<1>6. FatesTyped'
  BY DEF Typed, FatesTyped, Round, ui, entry, fates, clearing, arrivals
<1>7. WorldTyped'
  BY DEF Typed, WorldTyped, Round, ui, entry, fates, clearing, arrivals
<1>. QED BY <1>1, <1>2, <1>3, <1>4, <1>5, <1>6, <1>7 DEF Typed

\* The start of a run keeps the types.
LEMMA OpensTyped ==
  ASSUME Typed, NEW t \in Task, Opens(t)
  PROVE  Typed'
<1>1. LoopTyped'
  BY DEF Typed, LoopTyped, Opens, ui, entry, fates, clearing, arrivals
<1>2. EntryTyped'
  BY DEF Typed, EntryTyped, Opens, ui, entry, fates, clearing, arrivals
<1>3. TasksTyped'
  <2>1. task[t].kind = "turn"
    BY DEF Opens
  <2>. QED BY <2>1, OpensMoves, MovedTyped DEF Ats
<1>4. QueueTyped'
  <2>1. queue # << >> => queue[1] \in Seq(Message) /\ Shaped(Tail(queue))
    BY QueueHead DEF Typed, QueueTyped
  <2>2. queue # << >> => history \o queue[1] \in Seq(Message)
    BY <2>1, ConcatProperties DEF Typed, QueueTyped
  <2>. QED BY <2>1, <2>2 DEF Typed, QueueTyped, Opens
<1>5. MailTyped'
  BY DEF Typed, MailTyped, Opens, ui, entry, fates, clearing, arrivals
<1>6. FatesTyped'
  BY DEF Typed, FatesTyped, Opens, ui, entry, fates, clearing, arrivals
<1>7. WorldTyped'
  BY DEF Typed, WorldTyped, Opens, ui, entry, fates, clearing, arrivals
<1>. QED BY <1>1, <1>2, <1>3, <1>4, <1>5, <1>6, <1>7 DEF Typed

\* A task begins in slot t: the slot was nobody's.
LEMMA SlotFree ==
  ASSUME NEW t \in Task, FreeSlot(t)
  PROVE  /\ At(t, "gone") /\ t \notin {handle, reap}
         /\ \A i \in DOMAIN chan : chan[i].of # t
BY DEF FreeSlot, Unnamed

\* A task that is spawned keeps the types.
LEMMA BegunTyped ==
  ASSUME TasksTyped, NEW t \in Task, NEW kind \in Kinds, Begins(t, kind)
  PROVE  TasksTyped'
<1>1. /\ task' \in [Task -> TaskType] /\ Alone(t) /\ task'[t] = Fresh(kind)
  BY Begun DEF TasksTyped
<1>. QED BY <1>1, GoneTyped DEF Alone, TasksTyped, HandsAtHook, At

\* What a launch is: a new task named by the handle and by the entry.
LEMMA LaunchFacts ==
  ASSUME NEW ch, Launches(ch)
  PROVE  \E t \in Task : /\ FreeSlot(t) /\ Begins(t, "turn") /\ handle' = t /\ owner' = t
                         /\ running' = TRUE /\ raced' = (raced \/ Late(ch))
BY DEF Launches, Begins

\* What a compaction begins: a task named by the handle; the entry is told of the main pane's
\* alone.
LEMMA CompactFacts ==
  ASSUME NEW pane, NEW ch, Compacts(pane, ch)
  PROVE  \E t \in Task : /\ FreeSlot(t) /\ Begins(t, pane) /\ handle' = t
                         /\ pane = "main" => owner' = t /\ running' = TRUE
                         /\ pane # "main" => owner' = owner
                         /\ raced' = (raced \/ Late(ch))
BY DEF Compacts, Begins

\* A launch keeps the types.
LEMMA LaunchTyped ==
  ASSUME Typed, NEW ch, Launches(ch)
  PROVE  EntryTyped' /\ TasksTyped'
<1>1. PICK t \in Task : /\ Begins(t, "turn") /\ handle' = t /\ owner' = t
                        /\ running' = TRUE /\ raced' = (raced \/ Late(ch))
  BY LaunchFacts
<1>2. TasksTyped'
  BY <1>1, BegunTyped DEF Typed, Kinds
<1>. QED BY <1>1, <1>2 DEF EntryTyped

\* The start of a compaction keeps the types.
LEMMA CompactTyped ==
  ASSUME Typed, NEW pane \in Panes, NEW ch, Compacts(pane, ch),
         pane # "main" => running' \in BOOLEAN
  PROVE  EntryTyped' /\ TasksTyped'
<1>1. PICK t \in Task : /\ Begins(t, pane) /\ handle' = t
                        /\ pane = "main" => owner' = t /\ running' = TRUE
                        /\ pane # "main" => owner' = owner
                        /\ raced' = (raced \/ Late(ch))
  BY CompactFacts
<1>2. TasksTyped'
  BY <1>1, BegunTyped DEF Typed, Kinds
<1>. QED BY <1>1, <1>2 DEF EntryTyped, Typed

\* An abort keeps the types.
LEMMA AbortTyped ==
  ASSUME Typed, Aborts
  PROVE  TasksTyped' /\ reap' \in Task \cup {NoTask} /\ handle' = NoTask
<1>1. /\ task' \in [Task -> TaskType] /\ SamePlaces /\ handle' = NoTask
      /\ handle # NoTask => handle \in Task /\ reap' = handle
      /\ handle = NoTask => reap' = reap
  BY Aborted DEF Typed, TasksTyped, EntryTyped
<1>2. TasksTyped'
  BY <1>1 DEF Typed, TasksTyped, HandsAtHook, SamePlaces, At
<1>. QED BY <1>1, <1>2 DEF Typed, LoopTyped

\* What is on the queue are messages.
LEMMA QueuedType == ASSUME Typed PROVE Queued \subseteq Message
BY FlatType DEF Typed, QueueTyped, Queued

\* A cancelled turn keeps the types.
LEMMA CancelTyped ==
  ASSUME Typed, CancelTurn
  PROVE  /\ TasksTyped' /\ reap' \in Task \cup {NoTask} /\ handle' = NoTask
         /\ running' = FALSE /\ Shaped(queue') /\ composer' \subseteq Human
BY AbortTyped, EmptyQueue DEF CancelTurn, Typed, FatesTyped

\* A queue that takes a message keeps its shape.
LEMMA EnqueueTyped ==
  ASSUME Typed, NEW m \in Message, Enqueues(m)
  PROVE  Shaped(queue') /\ entered' \subseteq Message
BY MergedQueue DEF Enqueues, Typed, QueueTyped

\* An accepted message keeps the types.
LEMMA PeerSendsTyped ==
  ASSUME Typed, NEW p \in Peer, PeerSends(p)
  PROVE  Typed'
<1>1. LoopTyped'
  BY DEF Typed, LoopTyped, PeerSends, ui, entry, fates, clearing, arrivals
<1>2. EntryTyped'
  BY DEF Typed, EntryTyped, PeerSends, ui, entry, fates, clearing, arrivals
<1>3. TasksTyped'
  BY DEF Typed, TasksTyped, HandsAtHook, At, PeerSends, ui, entry, fates, clearing, arrivals
<1>4. QueueTyped'
  BY DEF Typed, QueueTyped, PeerSends, ui, entry, fates, clearing, arrivals
<1>5. MailTyped'
  <2>1. [kind |-> "PeerReady", of |-> NoTask, pane |-> NoPane] \in Notes
    BY DEF Notes
  <2>. QED BY <2>1 DEF Typed, MailTyped, PeerSends
<1>6. FatesTyped'
  BY DEF Typed, FatesTyped, PeerSends, ui, entry, fates, clearing, arrivals
<1>7. WorldTyped'
  BY DEF Typed, WorldTyped, PeerSends, ui, entry, fates, clearing, arrivals
<1>. QED BY <1>1, <1>2, <1>3, <1>4, <1>5, <1>6, <1>7 DEF Typed

\* The end of background work keeps the types.
LEMMA WorkEndsTyped ==
  ASSUME Typed, NEW r \in Result, WorkEnds(r)
  PROVE  Typed'
<1>1. LoopTyped'
  BY DEF Typed, LoopTyped, WorkEnds, ui, entry, fates, clearing, arrivals
<1>2. EntryTyped'
  BY DEF Typed, EntryTyped, WorkEnds, ui, entry, fates, clearing, arrivals
<1>3. TasksTyped'
  BY DEF Typed, TasksTyped, HandsAtHook, At, WorkEnds, ui, entry, fates, clearing, arrivals
<1>4. QueueTyped'
  BY DEF Typed, QueueTyped, WorkEnds, ui, entry, fates, clearing, arrivals
<1>5. MailTyped'
  BY DEF Typed, MailTyped, WorkEnds, ui, entry, fates, clearing, arrivals
<1>6. FatesTyped'
  BY DEF Typed, FatesTyped, WorkEnds, ui, entry, fates, clearing, arrivals
<1>7. WorldTyped'
  BY DEF Typed, WorldTyped, WorkEnds, ui, entry, fates, clearing, arrivals
<1>. QED BY <1>1, <1>2, <1>3, <1>4, <1>5, <1>6, <1>7 DEF Typed

\* A result that lands keeps the types.
LEMMA ResultLandsTyped ==
  ASSUME Typed, NEW r \in Result, ResultLands(r)
  PROVE  Typed'
<1>1. LoopTyped'
  BY DEF Typed, LoopTyped, ResultLands, ui, entry, fates, clearing, arrivals
<1>2. EntryTyped'
  BY DEF Typed, EntryTyped, ResultLands, ui, entry, fates, clearing, arrivals
<1>3. TasksTyped'
  BY DEF Typed, TasksTyped, HandsAtHook, At, ResultLands, ui, entry, fates, clearing, arrivals
<1>4. QueueTyped'
  BY DEF Typed, QueueTyped, ResultLands, ui, entry, fates, clearing, arrivals
<1>5. MailTyped'
  BY DEF Typed, MailTyped, ResultLands, ui, entry, fates, clearing, arrivals
<1>6. FatesTyped'
  BY DEF Typed, FatesTyped, ResultLands, ui, entry, fates, clearing, arrivals
<1>7. WorldTyped'
  BY DEF Typed, WorldTyped, ResultLands, ui, entry, fates, clearing, arrivals
<1>. QED BY <1>1, <1>2, <1>3, <1>4, <1>5, <1>6, <1>7 DEF Typed

\* The delivery of results keeps the types.
LEMMA DeliversBackgroundTyped ==
  ASSUME Typed, DeliversBackground
  PROVE  Typed'
<1>1. LoopTyped'
  BY DEF Typed, LoopTyped, DeliversBackground, UI, ui, entry, fates, clearing, arrivals
<1>2. EntryTyped'
  BY LaunchTyped DEF Typed, DeliversBackground, EntryTyped
<1>3. TasksTyped'
  BY LaunchTyped DEF Typed, DeliversBackground, TasksTyped, HandsAtHook, At
<1>4. QueueTyped'
  BY DEF Typed, QueueTyped, DeliversBackground, UI, ui, entry, fates, clearing, arrivals
<1>5. MailTyped'
  BY DEF Typed, MailTyped, DeliversBackground, UI, ui, entry, fates, clearing, arrivals
<1>6. FatesTyped'
  BY DEF Typed, FatesTyped, DeliversBackground, UI, ui, entry, fates, clearing, arrivals
<1>7. WorldTyped'
  BY DEF Typed, WorldTyped, DeliversBackground, UI, ui, entry, fates, clearing, arrivals
<1>. QED BY <1>1, <1>2, <1>3, <1>4, <1>5, <1>6, <1>7 DEF Typed

\* The delivery of a peer's message keeps the types.
LEMMA DeliversPeerTyped ==
  ASSUME Typed, DeliversPeer
  PROVE  Typed'
<1>1. LoopTyped'
  <2>1. running' \in BOOLEAN
    BY LaunchTyped DEF Typed, DeliversPeer, EntryTyped
  <2>. QED BY <2>1 DEF Typed, DeliversPeer, LoopTyped, UI
<1>2. EntryTyped'
  BY LaunchTyped DEF Typed, DeliversPeer, EntryTyped
<1>3. TasksTyped'
  BY LaunchTyped DEF Typed, DeliversPeer, TasksTyped, HandsAtHook, At
<1>4. QueueTyped'
  <2>1. CASE MayDeliverPeer
    <3>1. Head(inbox) \in Message
      BY <2>1, HeadTailProperties, KindsApart DEF MayDeliverPeer, Typed, MailTyped
    <3>2. Shaped(queue') /\ entered' \subseteq Message
      BY <2>1, <3>1, EnqueueTyped DEF DeliversPeer
    <3>. QED BY <3>2 DEF DeliversPeer, Typed, QueueTyped
  <2>2. CASE ~MayDeliverPeer
    BY <2>2 DEF DeliversPeer, Typed, QueueTyped
  <2>. QED BY <2>1, <2>2
<1>5. MailTyped'
  <2>1. inbox # << >> => Tail(inbox) \in Seq(Peer)
    BY HeadTailProperties DEF Typed, MailTyped
  <2>. QED BY <2>1 DEF DeliversPeer, MayDeliverPeer, Typed, MailTyped
<1>6. FatesTyped'
  BY DEF Typed, FatesTyped, DeliversPeer, UI, ui, entry, fates, clearing, arrivals
<1>7. WorldTyped'
  BY DEF Typed, WorldTyped, DeliversPeer, UI, ui, entry, fates, clearing, arrivals
<1>. QED BY <1>1, <1>2, <1>3, <1>4, <1>5, <1>6, <1>7 DEF Typed

\* A frame keeps the types.
LEMMA DrawsTyped ==
  ASSUME Typed, Draws
  PROVE  Typed'
<1>1. LoopTyped'
  <2>. DEFINE busy == \E r \in Result : result[r] = "working"
  <2>1. lively' = (saw \/ busy)
    BY DEF Draws
  <2>. HIDE DEF busy
  <2>2. lively' \in BOOLEAN
    BY <2>1
  <2>. QED BY <2>2 DEF Typed, LoopTyped, Draws
<1>2. EntryTyped'
  BY DEF Typed, EntryTyped, LoopTyped, Draws
<1>3. TasksTyped'
  BY DEF Typed, TasksTyped, HandsAtHook, At, Draws, ui, entry, fates, clearing, arrivals
<1>4. QueueTyped'
  BY DEF Typed, QueueTyped, Draws, ui, entry, fates, clearing, arrivals
<1>5. MailTyped'
  BY DEF Typed, MailTyped, Draws, ui, entry, fates, clearing, arrivals
<1>6. FatesTyped'
  BY DEF Typed, FatesTyped, Draws, ui, entry, fates, clearing, arrivals
<1>7. WorldTyped'
  BY DEF Typed, WorldTyped, Draws, ui, entry, fates, clearing, arrivals
<1>. QED BY <1>1, <1>2, <1>3, <1>4, <1>5, <1>6, <1>7 DEF Typed

\* A tick keeps the types.
LEMMA TicksTyped ==
  ASSUME Typed, Ticks
  PROVE  Typed'
<1>1. LoopTyped'
  BY DEF Typed, LoopTyped, Ticks, UI, ui, entry, fates, clearing, arrivals
<1>2. EntryTyped'
  BY DEF Typed, EntryTyped, Ticks, UI, ui, entry, fates, clearing, arrivals
<1>3. TasksTyped'
  BY DEF Typed, TasksTyped, HandsAtHook, At, Ticks, UI, ui, entry, fates, clearing, arrivals
<1>4. QueueTyped'
  BY DEF Typed, QueueTyped, Ticks, UI, ui, entry, fates, clearing, arrivals
<1>5. MailTyped'
  BY DEF Typed, MailTyped, Ticks, UI, ui, entry, fates, clearing, arrivals
<1>6. FatesTyped'
  BY DEF Typed, FatesTyped, Ticks, UI, ui, entry, fates, clearing, arrivals
<1>7. WorldTyped'
  BY DEF Typed, WorldTyped, Ticks, UI, ui, entry, fates, clearing, arrivals
<1>. QED BY <1>1, <1>2, <1>3, <1>4, <1>5, <1>6, <1>7 DEF Typed

\* The shutdown of messaging keeps the types.
LEMMA ShutsMessagingTyped ==
  ASSUME Typed, ShutsMessaging
  PROVE  Typed'
<1>1. LoopTyped'
  BY DEF Typed, LoopTyped, ShutsMessaging, UI, ui, entry, fates, clearing, arrivals
<1>2. EntryTyped'
  BY DEF Typed, EntryTyped, ShutsMessaging, UI, ui, entry, fates, clearing, arrivals
<1>3. TasksTyped'
  BY DEF Typed, TasksTyped, HandsAtHook, At, ShutsMessaging, UI, ui, entry, fates, clearing,
     arrivals
<1>4. QueueTyped'
  BY DEF Typed, QueueTyped, ShutsMessaging, UI, ui, entry, fates, clearing, arrivals
<1>5. MailTyped'
  BY EmptySeq DEF Typed, MailTyped, ShutsMessaging
<1>6. FatesTyped'
  <2>1. ToSet(inbox) \subseteq Peer
    BY ListedType DEF Typed, MailTyped
  <2>. QED BY <2>1 DEF Typed, FatesTyped, ShutsMessaging, clearing
<1>7. WorldTyped'
  BY DEF Typed, WorldTyped, ShutsMessaging, UI, ui, entry, fates, clearing, arrivals
<1>. QED BY <1>1, <1>2, <1>3, <1>4, <1>5, <1>6, <1>7 DEF Typed

\* The exit keeps the types.
LEMMA ExitsTyped ==
  ASSUME Typed, Exits
  PROVE  Typed'
<1>1. LoopTyped'
  BY DEF Typed, LoopTyped, Exits, UI, ui, entry, fates, clearing, arrivals
<1>2. EntryTyped'
  BY DEF Typed, EntryTyped, Exits, UI, ui, entry, fates, clearing, arrivals
<1>3. TasksTyped'
  BY DEF Typed, TasksTyped, HandsAtHook, At, Exits, UI, ui, entry, fates, clearing, arrivals
<1>4. QueueTyped'
  BY DEF Typed, QueueTyped, Exits, UI, ui, entry, fates, clearing, arrivals
<1>5. MailTyped'
  BY DEF Typed, MailTyped, Exits, UI, ui, entry, fates, clearing, arrivals
<1>6. FatesTyped'
  BY DEF Typed, FatesTyped, Exits, UI, ui, entry, fates, clearing, arrivals
<1>7. WorldTyped'
  BY DEF Typed, WorldTyped, Exits, UI, ui, entry, fates, clearing, arrivals
<1>. QED BY <1>1, <1>2, <1>3, <1>4, <1>5, <1>6, <1>7 DEF Typed

\* A submission keeps the types.
LEMMA SubmitsTyped ==
  ASSUME Typed, NEW h \in Human, Submits(h)
  PROVE  Typed'
<1>1. LoopTyped'
  BY DEF Typed, LoopTyped, Submits, UI, ui, entry, fates, clearing, arrivals
<1>2. EntryTyped'
  BY LaunchTyped DEF Typed, Submits, EntryTyped
<1>3. TasksTyped'
  BY LaunchTyped DEF Typed, Submits, TasksTyped, HandsAtHook, At
<1>4. QueueTyped'
  <2>1. Shaped(queue') /\ entered' \subseteq Message
    BY EnqueueTyped, KindsApart DEF Submits
  <2>. QED BY <2>1 DEF Submits, Typed, QueueTyped
<1>5. MailTyped'
  BY DEF Typed, MailTyped, Submits, UI, ui, entry, fates, clearing, arrivals
<1>6. FatesTyped'
  BY DEF Typed, FatesTyped, Submits, UI, ui, entry, fates, clearing, arrivals
<1>7. WorldTyped'
  BY DEF Typed, WorldTyped, Submits, UI, ui, entry, fates, clearing, arrivals
<1>. QED BY <1>1, <1>2, <1>3, <1>4, <1>5, <1>6, <1>7 DEF Typed

\* An interrupt keeps the types.
LEMMA InterruptsTyped ==
  ASSUME Typed, Interrupts
  PROVE  Typed'
<1>1. LoopTyped'
  BY CancelTyped DEF Typed, LoopTyped, Interrupts, UI
<1>2. EntryTyped'
  BY CancelTyped DEF Typed, EntryTyped, Interrupts
<1>3. TasksTyped'
  BY CancelTyped DEF Typed, TasksTyped, HandsAtHook, At, Interrupts
<1>4. QueueTyped'
  BY CancelTyped, EmptyQueue DEF Typed, QueueTyped, Interrupts, entry
<1>5. MailTyped'
  BY DEF Typed, MailTyped, Interrupts, UI, ui, entry, fates, clearing, arrivals
<1>6. FatesTyped'
  BY CancelTyped DEF Typed, FatesTyped, Interrupts, clearing
<1>7. WorldTyped'
  <2>1. plan' = [plan EXCEPT !.cancels = @ - 1] /\ plan.cancels > 0 /\ result' = result
    BY DEF Interrupts
  <2>. QED BY <2>1 DEF Typed, WorldTyped, PlanType
<1>. QED BY <1>1, <1>2, <1>3, <1>4, <1>5, <1>6, <1>7 DEF Typed

\* Quitting keeps the types.
LEMMA QuitsTyped ==
  ASSUME Typed, Quits
  PROVE  Typed'
<1>1. LoopTyped'
  BY CancelTyped DEF Typed, LoopTyped, Quits, UI
<1>2. EntryTyped'
  BY CancelTyped DEF Typed, EntryTyped, Quits
<1>3. TasksTyped'
  BY CancelTyped DEF Typed, TasksTyped, HandsAtHook, At, Quits
<1>4. QueueTyped'
  BY CancelTyped, EmptyQueue DEF Typed, QueueTyped, Quits, entry
<1>5. MailTyped'
  BY DEF Typed, MailTyped, Quits, UI, ui, entry, fates, clearing, arrivals
<1>6. FatesTyped'
  BY CancelTyped DEF Typed, FatesTyped, Quits, clearing
<1>7. WorldTyped'
  BY DEF Typed, WorldTyped, Quits, UI, ui, entry, fates, clearing, arrivals
<1>. QED BY <1>1, <1>2, <1>3, <1>4, <1>5, <1>6, <1>7 DEF Typed

\* A cleared conversation keeps the types.
LEMMA ForgetTyped ==
  ASSUME Typed, Forgets
  PROVE  /\ past' \subseteq Message /\ history' \in Seq(Message)
         /\ result' \in [Result -> {"working", "ended", "landed", "delivered", "cleared"}]
<1>1. ToSet(history) \subseteq Message
  BY ListedType DEF Typed, QueueTyped
<1>. QED BY <1>1, EmptySeq DEF Forgets, Typed, FatesTyped, WorldTyped

\* A clear keeps the types.
LEMMA ClearsTyped ==
  ASSUME Typed, Clears
  PROVE  Typed'
<1>1. LoopTyped'
  BY CancelTyped DEF Typed, LoopTyped, Clears, UI
<1>2. EntryTyped'
  BY CancelTyped DEF Typed, EntryTyped, Clears
<1>3. TasksTyped'
  BY CancelTyped DEF Typed, TasksTyped, HandsAtHook, At, Clears
<1>4. QueueTyped'
  <2>1. Shaped(queue') /\ entered' = entered
    BY CancelTyped, EmptyQueue DEF Clears
  <2>2. history' \in Seq(Message)
    BY ForgetTyped DEF Clears, Typed, QueueTyped
  <2>. QED BY <2>1, <2>2 DEF Typed, QueueTyped
<1>5. MailTyped'
  BY DEF Typed, MailTyped, Clears, UI, ui, entry, fates, clearing, arrivals
<1>6. FatesTyped'
  <2>1. Queued \subseteq Message /\ past' \subseteq Message
    BY QueuedType, ForgetTyped DEF Clears, Typed, FatesTyped
  <2>2. wipes' \in Nat /\ before' \subseteq Message
    BY DEF Clears, Typed, FatesTyped, QueueTyped
  <2>. QED BY <2>1, <2>2, CancelTyped DEF Typed, FatesTyped, Clears
<1>7. WorldTyped'
  <2>1. plan' = [plan EXCEPT !.clears = @ - 1] /\ plan.clears > 0
    BY DEF Clears
  <2>2. plan' \in PlanType
    BY <2>1 DEF Typed, WorldTyped, PlanType
  <2>3. result' \in [Result -> {"working", "ended", "landed", "delivered", "cleared"}]
    BY ForgetTyped DEF Clears, Typed, WorldTyped
  <2>. QED BY <2>2, <2>3 DEF WorldTyped
<1>. QED BY <1>1, <1>2, <1>3, <1>4, <1>5, <1>6, <1>7 DEF Typed

\* A clear that waited keeps the types.
LEMMA WipesTyped ==
  ASSUME Typed, Wipes
  PROVE  Typed'
<1>1. LoopTyped'
  BY DEF Typed, LoopTyped, Wipes, ui, entry, fates, clearing, arrivals
<1>2. EntryTyped'
  BY DEF Typed, EntryTyped, Wipes, ui, entry, fates, clearing, arrivals
<1>3. TasksTyped'
  BY DEF Typed, TasksTyped, HandsAtHook, At, Wipes, ui, entry, fates, clearing, arrivals
<1>4. QueueTyped'
  BY ForgetTyped DEF Typed, QueueTyped, Wipes, entry
<1>5. MailTyped'
  BY DEF Typed, MailTyped, Wipes, ui, entry, fates, clearing, arrivals
<1>6. FatesTyped'
  BY ForgetTyped DEF Typed, FatesTyped, Wipes
<1>7. WorldTyped'
  BY ForgetTyped DEF Typed, WorldTyped, Wipes
<1>. QED BY <1>1, <1>2, <1>3, <1>4, <1>5, <1>6, <1>7 DEF Typed

\* A request to compact keeps the types.
LEMMA AsksToCompactTyped ==
  ASSUME Typed, NEW pane \in Panes, AsksToCompact(pane)
  PROVE  Typed'
<1>1. LoopTyped'
  BY DEF Typed, LoopTyped, AsksToCompact, UI, ui, entry, fates, clearing, arrivals
<1>2. EntryTyped'
  BY CompactTyped DEF Typed, AsksToCompact, EntryTyped, Panes
<1>3. TasksTyped'
  BY CompactTyped DEF Typed, AsksToCompact, EntryTyped, Panes, TasksTyped, HandsAtHook, At
<1>4. QueueTyped'
  BY DEF Typed, QueueTyped, AsksToCompact, UI, ui, entry, fates, clearing, arrivals
<1>5. MailTyped'
  BY DEF Typed, MailTyped, AsksToCompact, UI, ui, entry, fates, clearing, arrivals
<1>6. FatesTyped'
  BY DEF Typed, FatesTyped, AsksToCompact, UI, ui, entry, fates, clearing, arrivals
<1>7. WorldTyped'
  <2>1. plan' = [plan EXCEPT !.compact = @ \ {pane}] /\ result' = result
    BY DEF AsksToCompact
  <2>. QED BY <2>1 DEF Typed, WorldTyped, PlanType
<1>. QED BY <1>1, <1>2, <1>3, <1>4, <1>5, <1>6, <1>7 DEF Typed

\* What follows the end of a turn or of a compaction.
LEMMA ResumeTyped ==
  ASSUME Typed, NEW rest, NEW run \in BOOLEAN, Resumes(rest, run)
  PROVE  EntryTyped' /\ TasksTyped' /\ compactQ' \in Panes \cup {NoPane}
<1>1. CASE Launches(rest) /\ compactQ' = compactQ
  BY <1>1, LaunchTyped DEF Typed, LoopTyped
<1>2. CASE /\ compactQ # NoPane /\ Compacts(compactQ, rest)
           /\ compactQ = "sub" => running' = run
           /\ compactQ' = NoPane
  <2>1. compactQ \in Panes /\ (compactQ # "main" => running' \in BOOLEAN)
    BY <1>2 DEF Typed, LoopTyped, Panes
  <2>. QED BY <2>1, <1>2, CompactTyped
<1>3. CASE handle' = NoTask /\ running' = run /\ UNCHANGED <<owner, task, raced, compactQ>>
  BY <1>3 DEF Typed, LoopTyped, EntryTyped, TasksTyped, HandsAtHook, At
<1>. QED BY <1>1, <1>2, <1>3 DEF Resumes

\* What the handling of a message of the channel comes to.
LEMMA HandleFacts ==
  ASSUME Typed, HandlesMessage
  PROVE  \/ UNCHANGED <<handle, owner, running, task, raced, compactQ>>
         \/ \E run \in BOOLEAN : Report(chan[1]) /\ Resumes(Tail(chan), run)
<1>1. chan # << >>
  BY DEF HandlesMessage
<1>2. CASE chan[1].kind = "Done"
  BY <1>2 DEF HandlesMessage, HandlesDone, Report
<1>3. CASE chan[1].kind = "Compacted"
  <2>1. Resumes(Tail(chan), running /\ chan[1].pane # "main")
    BY <1>3 DEF HandlesMessage, HandlesCompacted
  <2>2. (running /\ chan[1].pane # "main") \in BOOLEAN
    OBVIOUS
  <2>. QED BY <2>1, <2>2, <1>3 DEF Report
<1>4. CASE chan[1].kind # "Done" /\ chan[1].kind # "Compacted"
  BY <1>4 DEF HandlesMessage
<1>. QED BY <1>2, <1>3, <1>4

\* The handling of a message keeps the types.
LEMMA HandlesMessageTyped ==
  ASSUME Typed, HandlesMessage
  PROVE  Typed'
<1>1. LoopTyped'
  <2>1. compactQ' \in Panes \cup {NoPane}
    BY HandleFacts, ResumeTyped DEF Typed, LoopTyped
  <2>2. loop' \in {"top", "drain"} /\ UNCHANGED <<saw, lively, reap, quitting>>
    BY DEF HandlesMessage
  <2>. QED BY <2>1, <2>2 DEF Typed, LoopTyped
<1>2. EntryTyped'
  BY HandleFacts, ResumeTyped DEF Typed, EntryTyped
<1>3. TasksTyped'
  BY HandleFacts, ResumeTyped DEF Typed, TasksTyped, HandsAtHook, At
<1>4. QueueTyped'
  <2>1. UNCHANGED <<queue, history, entered>>
    BY DEF HandlesMessage
  <2>. QED BY <2>1 DEF Typed, QueueTyped
<1>5. MailTyped'
  <2>1. chan # << >> /\ chan' = Tail(chan) /\ UNCHANGED arrivals
    BY DEF HandlesMessage
  <2>2. Tail(chan) \in Seq(Notes)
    BY <2>1, HeadTailProperties DEF Typed, MailTyped
  <2>. QED BY <2>1, <2>2 DEF Typed, MailTyped, arrivals
<1>6. FatesTyped'
  <2>1. UNCHANGED <<fates, clearing>>
    BY DEF HandlesMessage
  <2>. QED BY <2>1 DEF Typed, FatesTyped, fates, clearing
<1>7. WorldTyped'
  <2>1. UNCHANGED <<result, plan>>
    BY DEF HandlesMessage
  <2>. QED BY <2>1 DEF Typed, WorldTyped
<1>. QED BY <1>1, <1>2, <1>3, <1>4, <1>5, <1>6, <1>7 DEF Typed

\* The types hold at the start.
LEMMA TypedInit == ASSUME Init PROVE Typed
<1>1. Gone \in TaskType /\ Gone.carry = << >> /\ Gone.at = "gone"
  BY GoneTyped
<1>2. TasksTyped
  BY <1>1 DEF Init, TasksTyped, HandsAtHook, At
<1>3. QueueTyped /\ MailTyped
  BY EmptyQueue, EmptySeq DEF Init, QueueTyped, MailTyped
<1>4. WorldTyped
  BY BoundsAssumption DEF Init, WorldTyped, PlanType
<1>5. LoopTyped /\ EntryTyped /\ FatesTyped
  BY DEF Init, LoopTyped, EntryTyped, FatesTyped
<1>. QED BY <1>2, <1>3, <1>4, <1>5 DEF Typed

\* Every step keeps the types.
LEMMA TypedStep == ASSUME Typed, [Next]_vars PROVE Typed'
<1>1. CASE UNCHANGED vars
  BY <1>1 DEF vars, Typed, LoopTyped, EntryTyped, TasksTyped, HandsAtHook, At, QueueTyped,
     MailTyped, FatesTyped, WorldTyped
<1>2. CASE LoopStep
  BY <1>2, DeliversBackgroundTyped, DeliversPeerTyped, DrawsTyped, TicksTyped,
     HandlesMessageTyped, ShutsMessagingTyped, ExitsTyped DEF LoopStep
<1>3. CASE Input
  BY <1>3, SubmitsTyped, InterruptsTyped, ClearsTyped, AsksToCompactTyped, QuitsTyped DEF Input
<1>4. ASSUME NEW t \in Task, TaskStep(t) PROVE Typed'
  BY <1>4, OpensTyped, HookPassesTyped, HookBlocksTyped, RoundTyped, CallsToolsTyped,
     AnswersTyped, SummarizesTyped, ReportsTyped, GuardJudgesTyped, GuardWritesTyped,
     DropsTyped DEF TaskStep
<1>5. CASE Wipes
  BY <1>5, WipesTyped
<1>6. CASE Arrival
  BY <1>6, PeerSendsTyped, WorkEndsTyped, ResultLandsTyped DEF Arrival
<1>. QED BY <1>1, <1>2, <1>3, <1>4, <1>5, <1>6 DEF Next

\* Turns stays within its types (TypeOK): in particular the history is a sequence of messages
\* whatever the queue merged, and what waits at the hook is the user's.
THEOREM Types == Spec => []TypeOK
<1>1. Init => Typed
  BY TypedInit
<1>2. Typed /\ [Next]_vars => Typed'
  BY TypedStep
<1>3. Typed => TypeOK
  BY TypedIsTypeOK
<1>. QED BY <1>1, <1>2, <1>3, PTL DEF Spec

-----------------------------------------------------------------------------
(* What a step elsewhere leaves of the tasks, and the lock.                *)

\* A step of another actor: each task stays in its place, or a new one is spawned.
Beside ==
    /\ task' \in [Task -> TaskType]
    /\ \A u \in Task :
        \/ /\ task'[u].kind = task[u].kind /\ task'[u].at = task[u].at
           /\ task'[u].carry = task[u].carry
        \/ task[u].at = "gone" /\ task'[u].at = "spawned" /\ task'[u].carry = << >>

\* A step that is no task's own.
Elsewhere == LoopStep \/ Input \/ Wipes \/ Arrival

\* A launch leaves the other tasks in their places.
LEMMA LaunchBeside ==
  ASSUME Typed, NEW ch, Launches(ch) PROVE Beside
<1>1. PICK t \in Task : FreeSlot(t) /\ Begins(t, "turn")
  BY LaunchFacts
<1>2. At(t, "gone") /\ "turn" \in Kinds
  BY <1>1, SlotFree DEF Kinds
<1>3. task' \in [Task -> TaskType] /\ Alone(t) /\ task'[t] = Fresh("turn")
  BY <1>1, <1>2, Begun DEF Typed, TasksTyped
<1>. QED BY <1>2, <1>3, GoneTyped DEF Beside, Alone, At

\* So does the start of a compaction.
LEMMA CompactBeside ==
  ASSUME Typed, NEW pane \in Panes, NEW ch, Compacts(pane, ch) PROVE Beside
<1>1. PICK t \in Task : FreeSlot(t) /\ Begins(t, pane)
  BY CompactFacts
<1>2. At(t, "gone") /\ pane \in Kinds
  BY <1>1, SlotFree DEF Kinds
<1>3. task' \in [Task -> TaskType] /\ Alone(t) /\ task'[t] = Fresh(pane)
  BY <1>1, <1>2, Begun DEF Typed, TasksTyped
<1>. QED BY <1>2, <1>3, GoneTyped DEF Beside, Alone, At

\* So does a step that touches no task.
LEMMA StillBeside == ASSUME Typed, UNCHANGED task PROVE Beside
BY DEF Beside, Typed, TasksTyped

\* So does an abort.
LEMMA CancelBeside == ASSUME Typed, Aborts PROVE Beside
BY Aborted DEF SamePlaces, Beside, Typed, TasksTyped, EntryTyped

\* So does what follows the end of a turn.
LEMMA ResumeBeside ==
  ASSUME Typed, NEW rest, NEW run, Resumes(rest, run) PROVE Beside
<1>1. CASE Launches(rest)
  BY <1>1, LaunchBeside
<1>2. CASE compactQ # NoPane /\ Compacts(compactQ, rest)
  <2>1. compactQ \in Panes
    BY <1>2 DEF Typed, LoopTyped
  <2>. QED BY <2>1, <1>2, CompactBeside
<1>3. CASE UNCHANGED task
  BY <1>3, StillBeside
<1>. QED BY <1>1, <1>2, <1>3 DEF Resumes

\* Every step that is no task's own leaves the tasks in their places, but for a new one.
LEMMA ElsewhereBeside == ASSUME Typed, Elsewhere PROVE Beside
<1>1. CASE DeliversBackground
  BY <1>1, LaunchBeside, StillBeside DEF DeliversBackground
<1>2. CASE DeliversPeer
  BY <1>2, LaunchBeside, StillBeside DEF DeliversPeer
<1>3. CASE HandlesMessage
  BY <1>3, HandleFacts, ResumeBeside, StillBeside
<1>4. CASE Draws \/ Ticks \/ ShutsMessaging \/ Exits
  BY <1>4, StillBeside DEF Draws, Ticks, ShutsMessaging, Exits
<1>5. ASSUME NEW h \in Human, Submits(h) PROVE Beside
  BY <1>5, LaunchBeside, StillBeside DEF Submits
<1>6. CASE Interrupts \/ Clears \/ Quits
  BY <1>6, CancelBeside, StillBeside DEF Interrupts, Clears, Quits, CancelTurn
<1>7. ASSUME NEW pane \in Panes, AsksToCompact(pane) PROVE Beside
  BY <1>7, CompactBeside, StillBeside DEF AsksToCompact
<1>8. CASE Wipes
  BY <1>8, StillBeside DEF Wipes
<1>9. CASE Arrival
  BY <1>9, StillBeside DEF Arrival, PeerSends, WorkEnds, ResultLands
<1>. QED
  BY <1>1, <1>2, <1>3, <1>4, <1>5, <1>6, <1>7, <1>8, <1>9 DEF Elsewhere, LoopStep, Input

\* The agent's lock has one holder.
OneHolds == \A t, u \in Task : Holds(t) /\ Holds(u) => t = u

\* A step of task t that takes the lock finds it free.
LEMMA LockTaken ==
  ASSUME Typed, NEW t \in Task, TaskStep(t)
  PROVE  /\ \A u \in Task \ {t} : Holds(u)' = Holds(u)
         /\ Holds(t)' => Holds(t) \/ ~Locked
<1>1. CASE Opens(t)
  BY <1>1, OpensMoves DEF Opens, Moved, Alone, Holds, At, Typed, TasksTyped, HandsAtHook, Kinds,
     Panes, TaskType
<1>2. CASE HookPasses(t)
  BY <1>2, HookPassesMoves DEF HookPasses, Moved, Alone, Holds, At, Typed, TasksTyped,
     HandsAtHook, Kinds, Panes, TaskType
<1>3. CASE HookBlocks(t)
  BY <1>3, HookBlocksMoves DEF HookBlocks, Moved, Alone, Holds, At, Typed, TasksTyped,
     HandsAtHook, Kinds, Panes, TaskType
<1>4. CASE Round(t)
  BY <1>4, RoundMoves DEF Round, Moved, Alone, Holds, At, Typed, TasksTyped, HandsAtHook, Kinds,
     Panes, TaskType
<1>5. CASE CallsTools(t)
  BY <1>5, CallsToolsMoves DEF CallsTools, Moved, Alone, Holds, At, Typed, TasksTyped,
     HandsAtHook, Kinds, Panes, TaskType
<1>6. CASE Answers(t)
  BY <1>6, AnswersMoves DEF Answers, Moved, Alone, Holds, At, Typed, TasksTyped, HandsAtHook,
     Kinds, Panes, TaskType
<1>7. CASE Summarizes(t)
  BY <1>7, SummarizesMoves DEF Summarizes, Moved, Alone, Holds, At, Typed, TasksTyped,
     HandsAtHook, Kinds, Panes, TaskType
<1>8. CASE Reports(t)
  BY <1>8, ReportsMoves, GoneTyped DEF Left, Moved, Alone, Holds
<1>9. CASE GuardJudges(t)
  BY <1>9, GuardJudgesMoves, GoneTyped DEF Left, Moved, Alone, Holds
<1>10. CASE GuardWrites(t)
  BY <1>10, GuardWritesMoves, GoneTyped DEF Left, Moved, Alone, Holds
<1>11. CASE Drops(t)
  BY <1>11, DropsMoves, GoneTyped DEF Left, Moved, Alone, Holds
<1>. QED BY <1>1, <1>2, <1>3, <1>4, <1>5, <1>6, <1>7, <1>8, <1>9, <1>10, <1>11 DEF TaskStep

\* At the start nobody holds the lock.
LEMMA LockInit == ASSUME Init PROVE OneHolds
BY GoneTyped DEF Init, OneHolds, Holds

\* Every step keeps the lock with one holder.
LEMMA LockStep == ASSUME Typed, OneHolds, [Next]_vars PROVE OneHolds'
<1>1. CASE UNCHANGED vars
  BY <1>1 DEF vars, OneHolds, Holds
<1>2. CASE Elsewhere
  BY <1>2, ElsewhereBeside DEF Beside, OneHolds, Holds
<1>3. ASSUME NEW t \in Task, TaskStep(t) PROVE OneHolds'
  <2>1. /\ \A u \in Task \ {t} : Holds(u)' = Holds(u)
        /\ Holds(t)' => Holds(t) \/ ~Locked
    BY <1>3, LockTaken
  <2>. QED BY <2>1 DEF OneHolds, Locked
<1>. QED BY <1>1, <1>2, <1>3 DEF Next, Elsewhere

-----------------------------------------------------------------------------
(* Who owns the turn.                                                      *)

\* One task works at a time, and none while the report of another waits.
OneWorks ==
    /\ \A t, u \in Task : Working(t) /\ Working(u) => t = u
    /\ (\E t \in Task : Working(t)) => ~Reported(chan)

\* The handle, the running flag and the generation all name the live turn.
Owned ==
    \A t \in LiveMain :
        handle = t /\ running /\ owner = t /\ \A u \in Task : ~At(u, "judged")

\* A task that was aborted and still works is the one that quitting awaits.
Abandoned ==
    \A t \in Task : Working(t) /\ task[t].aborted => reap = t /\ handle = NoTask

\* Without a race: one task works, the live turn is owned, an aborted one is awaited, the frame
\* has seen the flag, and a user who has quit leaves no live turn.
Attended ==
    /\ OneWorks /\ Owned /\ Abandoned
    /\ loop = "drawn" /\ running => saw
    /\ quitting => LiveMain = {}

Ordered == raced \/ Attended

\* The loop closes because the user has quit.
QuitsFirst == loop \in {"closing", "reaping"} => quitting

\* Nothing works after a step: nothing is owed to a handle.
LEMMA IdleOrdered ==
  ASSUME \A t \in Task : ~Working(t)', loop' # "drawn"
  PROVE  Ordered'
BY DEF Ordered, Attended, OneWorks, Owned, Abandoned, LiveMain

\* Exactly the new task works after a launch that loses nothing.
LEMMA BegunOrdered ==
  ASSUME Typed, NEW t \in Task, FreeSlot(t), NEW kind \in Kinds, Begins(t, kind), NEW ch,
         handle' = t, raced' = (raced \/ Late(ch)), chan' = ch, quitting' = quitting,
         kind # "sub" => owner' = t /\ running' = TRUE,
         loop' = "drawn" /\ running' => saw'
  PROVE  Ordered'
<1>. SUFFICES ASSUME ~raced' PROVE Attended'
  BY DEF Ordered
<1>1. ~quitting' /\ ~Reported(chan)' /\ \A u \in Task : ~Working(u) /\ ~At(u, "judged")
  BY DEF Late, Reported
<1>2. task' \in [Task -> TaskType] /\ Alone(t) /\ task'[t] = Fresh(kind)
  BY Begun DEF Typed, TasksTyped
<1>3. /\ task'[t].kind = kind /\ task'[t].at = "spawned" /\ ~task'[t].aborted
      /\ \A u \in Task : u # t => ~Working(u)' /\ ~At(u, "judged")'
  BY <1>1, <1>2, GoneTyped DEF Alone, Working, At
<1>4. \A u \in Task : Working(u)' => u = t
  BY <1>3
<1>5. OneWorks'
  BY <1>1, <1>4 DEF OneWorks
<1>6. Owned'
  <2>. SUFFICES ASSUME NEW w \in LiveMain'
                PROVE  (handle = w /\ running /\ owner = w /\ \A u \in Task : ~At(u, "judged"))'
    BY DEF Owned
  <2>1. w = t /\ kind # "sub"
    BY <1>3, <1>4 DEF LiveMain
  <2>2. \A u \in Task : ~At(u, "judged")'
    BY <1>3 DEF At
  <2>. QED BY <2>1, <2>2
<1>7. Abandoned'
  BY <1>3, <1>4 DEF Abandoned
<1>. QED BY <1>1, <1>5, <1>6, <1>7 DEF Attended

\* A launch that loses nothing makes the new turn the one that works.
LEMMA LaunchOrdered ==
  ASSUME Typed, NEW ch, Launches(ch), chan' = ch, quitting' = quitting,
         loop' = "drawn" /\ running' => saw'
  PROVE  Ordered'
<1>1. PICK t \in Task : /\ FreeSlot(t) /\ Begins(t, "turn") /\ handle' = t /\ owner' = t
                        /\ running' = TRUE /\ raced' = (raced \/ Late(ch))
  BY LaunchFacts
<1>2. "turn" \in Kinds
  BY DEF Kinds
<1>. QED BY <1>1, <1>2, BegunOrdered

\* So does the start of a compaction, whichever pane it is of.
LEMMA CompactOrdered ==
  ASSUME Typed, NEW pane \in Panes, NEW ch, Compacts(pane, ch), chan' = ch, quitting' = quitting,
         loop' # "drawn"
  PROVE  Ordered'
<1>1. PICK t \in Task : /\ FreeSlot(t) /\ Begins(t, pane) /\ handle' = t
                        /\ pane = "main" => owner' = t /\ running' = TRUE
                        /\ raced' = (raced \/ Late(ch))
  BY CompactFacts
<1>2. pane \in Kinds /\ (pane # "sub" => pane = "main")
  BY DEF Kinds, Panes
<1>. QED BY <1>1, <1>2, BegunOrdered

\* The task of the handle is aborted, and with it whatever turn was live.
LEMMA AbortOrdered ==
  ASSUME Typed, Ordered, Aborts, raced' = raced, chan' = chan, loop' # "drawn"
  PROVE  Ordered'
<1>. SUFFICES ASSUME Attended, ~raced' PROVE Attended'
  BY DEF Ordered
<1>1. /\ SamePlaces /\ handle' = NoTask
      /\ \A u \in Task : u # handle => task'[u] = task[u]
      /\ handle # NoTask => /\ handle \in Task /\ reap' = handle
                            /\ task'[handle].aborted = ~At(handle, "gone")
      /\ handle = NoTask => reap' = reap /\ task' = task
  BY Aborted DEF Typed, TasksTyped, EntryTyped
<1>2. \A u \in Task : Working(u)' = Working(u)
  BY <1>1 DEF Working, SamePlaces
<1>3. OneWorks'
  BY <1>2 DEF Attended, OneWorks, Reported
<1>4. LiveMain' = {}
  <2>. SUFFICES ASSUME NEW w \in LiveMain' PROVE FALSE
    OBVIOUS
  <2>1. w \in Task /\ Working(w) /\ ~task'[w].aborted /\ task[w].kind # "sub"
    BY <1>1, <1>2 DEF LiveMain, SamePlaces
  <2>2. CASE handle = w
    <3>1. handle # NoTask /\ ~At(w, "gone")
      BY <2>1, <2>2, SlotsAssumption DEF Working, At
    <3>. QED BY <1>1, <2>1, <2>2, <3>1
  <2>3. CASE handle # w
    <3>1. w \in LiveMain
      BY <1>1, <2>1, <2>3 DEF LiveMain
    <3>. QED BY <3>1, <2>3 DEF Attended, Owned
  <2>. QED BY <2>2, <2>3
<1>5. Abandoned'
  <2>. SUFFICES ASSUME NEW u \in Task, Working(u), task'[u].aborted
                PROVE  reap' = u /\ handle' = NoTask
    BY <1>2 DEF Abandoned
  <2>1. CASE handle = u
    BY <1>1, <2>1, SlotsAssumption
  <2>2. CASE handle # u
    <3>1. task[u].aborted
      BY <1>1, <2>2
    <3>2. reap = u /\ handle = NoTask
      BY <3>1 DEF Attended, Abandoned
    <3>. QED BY <1>1, <3>2
  <2>. QED BY <2>1, <2>2
<1>. QED BY <1>3, <1>4, <1>5 DEF Attended, Owned

\* A step that leaves the tasks and what names them, and takes no live turn's flag.
LEMMA StillOrdered ==
  ASSUME Ordered, UNCHANGED <<task, handle, reap, owner>>, raced => raced',
         Reported(chan)' => Reported(chan),
         ~raced /\ LiveMain # {} => running',
         loop' = "drawn" /\ running' /\ ~raced => saw',
         quitting' /\ ~raced => quitting \/ LiveMain = {}
  PROVE  Ordered'
<1>. SUFFICES ASSUME Attended, ~raced, ~raced' PROVE Attended'
  BY DEF Ordered
<1>1. /\ LiveMain' = LiveMain
      /\ \A u \in Task : Working(u)' = Working(u) /\ At(u, "judged")' = At(u, "judged")
  BY DEF LiveMain, Working, At
<1>2. OneWorks' /\ Owned' /\ Abandoned'
  BY <1>1 DEF Attended, OneWorks, Owned, Abandoned
<1>. QED BY <1>1, <1>2 DEF Attended

\* A step of task t changes its own place alone; the report of its end is its last work,
\* and only a guard that has judged writes the flag.
LEMMA TaskOrdered ==
  ASSUME Ordered, NEW t \in Task, Alone(t), UNCHANGED <<ui, owner, raced>>,
         Working(t)' => /\ Working(t) /\ task'[t].kind = task[t].kind
                        /\ task'[t].aborted = task[t].aborted,
         At(t, "judged")' => ~Working(t) /\ owner = t,
         chan' = chan \/ (Working(t) /\ ~Working(t)'),
         running' = running \/ (~running' /\ At(t, "judged"))
  PROVE  Ordered'
<1>. SUFFICES ASSUME Attended PROVE Attended'
  BY DEF Ordered
<1>1. /\ handle' = handle /\ reap' = reap /\ loop' = loop /\ saw' = saw /\ quitting' = quitting
  BY DEF ui
<1>2. \A u \in Task : Working(u)' => Working(u) /\ task'[u].kind = task[u].kind
                                    /\ task'[u].aborted = task[u].aborted
  BY DEF Alone, Working
<1>3. LiveMain' \subseteq LiveMain
  BY <1>2 DEF LiveMain
<1>4. OneWorks'
  <2>1. CASE chan' = chan
    BY <1>2, <2>1 DEF Attended, OneWorks, Reported
  <2>2. CASE Working(t) /\ ~Working(t)'
    <3>1. \A u \in Task : ~Working(u)'
      BY <1>2, <2>2 DEF Attended, OneWorks
    <3>. QED BY <3>1 DEF OneWorks
  <2>. QED BY <2>1, <2>2
<1>5. Owned'
  <2>. SUFFICES ASSUME NEW w \in LiveMain'
                PROVE  (handle = w /\ running /\ owner = w /\ \A u \in Task : ~At(u, "judged"))'
    BY DEF Owned
  <2>1. /\ w \in Task /\ Working(w) /\ handle = w /\ running /\ owner = w
        /\ \A u \in Task : ~At(u, "judged")
    BY <1>3 DEF Attended, Owned, LiveMain
  <2>2. running'
    BY <2>1
  <2>3. ASSUME NEW u \in Task, At(u, "judged")' PROVE FALSE
    <3>1. CASE u = t
      BY <2>1, <2>3, <3>1
    <3>2. CASE u # t
      BY <2>1, <2>3, <3>2 DEF Alone, At
    <3>. QED BY <3>1, <3>2
  <2>4. handle' = w /\ owner' = w /\ \A u \in Task : ~At(u, "judged")'
    BY <1>1, <2>1, <2>3
  <2>. QED BY <2>2, <2>4
<1>6. Abandoned'
  BY <1>1, <1>2 DEF Attended, Abandoned
<1>7. loop' = "drawn" /\ running' => saw'
  BY <1>1 DEF Attended
<1>8. quitting' => LiveMain' = {}
  BY <1>1, <1>3 DEF Attended
<1>. QED BY <1>4, <1>5, <1>6, <1>7, <1>8 DEF Attended

\* A task's own steps keep the turn owned.
LEMMA TaskStepOrdered ==
  ASSUME Typed, Ordered, NEW t \in Task, TaskStep(t)
  PROVE  Ordered'
<1>1. CASE Opens(t)
  BY <1>1, OpensMoves, TaskOrdered DEF Opens, Moved, ui, entry, Working, At
<1>2. CASE HookPasses(t)
  BY <1>2, HookPassesMoves, TaskOrdered DEF HookPasses, Moved, ui, entry, Working, At
<1>3. CASE HookBlocks(t)
  BY <1>3, HookBlocksMoves, TaskOrdered DEF HookBlocks, Moved, ui, entry, Working, At
<1>4. CASE Round(t)
  BY <1>4, RoundMoves, TaskOrdered DEF Round, Moved, ui, entry, Working, At
<1>5. CASE CallsTools(t)
  BY <1>5, CallsToolsMoves, TaskOrdered DEF CallsTools, Moved, ui, entry, Working, At
<1>6. CASE Answers(t)
  BY <1>6, AnswersMoves, TaskOrdered DEF Answers, Moved, ui, entry, Working, At
<1>7. CASE Summarizes(t)
  BY <1>7, SummarizesMoves, TaskOrdered DEF Summarizes, Moved, ui, entry, Working, At
<1>8. CASE Reports(t)
  <2>1. /\ Alone(t) /\ UNCHANGED <<ui, owner, raced>>
        /\ Working(t)' => /\ Working(t) /\ task'[t].kind = task[t].kind
                          /\ task'[t].aborted = task[t].aborted
        /\ At(t, "judged")' => ~Working(t) /\ owner = t
    BY <1>8, ReportsMoves, GoneTyped DEF Reports, Moved, Left, entry, Working, At
  <2>2. chan' = chan \/ (Working(t) /\ ~Working(t)')
    BY <1>8, ReportsMoves, GoneTyped DEF Reports, Moved, Left, Working, At
  <2>3. running' = running \/ (~running' /\ At(t, "judged"))
    BY <1>8 DEF Reports, entry
  <2>. QED BY <2>1, <2>2, <2>3, TaskOrdered
<1>9. CASE GuardJudges(t)
  <2>1. /\ Alone(t) /\ UNCHANGED <<ui, owner, raced>>
        /\ Working(t)' => /\ Working(t) /\ task'[t].kind = task[t].kind
                          /\ task'[t].aborted = task[t].aborted
        /\ At(t, "judged")' => ~Working(t) /\ owner = t
    BY <1>9, GuardJudgesMoves, GoneTyped DEF GuardJudges, Moved, Left, entry, Working, At
  <2>2. chan' = chan \/ (Working(t) /\ ~Working(t)')
    BY <1>9, GuardJudgesMoves, GoneTyped DEF GuardJudges, Moved, Left, Working, At
  <2>3. running' = running \/ (~running' /\ At(t, "judged"))
    BY <1>9 DEF GuardJudges, entry
  <2>. QED BY <2>1, <2>2, <2>3, TaskOrdered
<1>10. CASE GuardWrites(t)
  <2>1. /\ Alone(t) /\ UNCHANGED <<ui, owner, raced>>
        /\ Working(t)' => /\ Working(t) /\ task'[t].kind = task[t].kind
                          /\ task'[t].aborted = task[t].aborted
        /\ At(t, "judged")' => ~Working(t) /\ owner = t
    BY <1>10, GuardWritesMoves, GoneTyped DEF GuardWrites, Moved, Left, entry, Working, At
  <2>2. chan' = chan \/ (Working(t) /\ ~Working(t)')
    BY <1>10, GuardWritesMoves, GoneTyped DEF GuardWrites, Moved, Left, Working, At
  <2>3. running' = running \/ (~running' /\ At(t, "judged"))
    BY <1>10 DEF GuardWrites, entry
  <2>. QED BY <2>1, <2>2, <2>3, TaskOrdered
<1>11. CASE Drops(t)
  <2>1. /\ Alone(t) /\ UNCHANGED <<ui, owner, raced>>
        /\ Working(t)' => /\ Working(t) /\ task'[t].kind = task[t].kind
                          /\ task'[t].aborted = task[t].aborted
        /\ At(t, "judged")' => ~Working(t) /\ owner = t
    BY <1>11, DropsMoves, GoneTyped DEF Drops, Moved, Left, entry, Working, At
  <2>2. chan' = chan \/ (Working(t) /\ ~Working(t)')
    BY <1>11, DropsMoves, GoneTyped DEF Drops, Moved, Left, Working, At
  <2>3. running' = running \/ (~running' /\ At(t, "judged"))
    BY <1>11 DEF Drops, entry
  <2>. QED BY <2>1, <2>2, <2>3, TaskOrdered
<1>. QED BY <1>1, <1>2, <1>3, <1>4, <1>5, <1>6, <1>7, <1>8, <1>9, <1>10, <1>11 DEF TaskStep

\* A message taken from the channel leaves fewer reports there.
LEMMA ReportedTail ==
  ASSUME Typed, chan # << >>, chan' = Tail(chan)
  PROVE  /\ Reported(chan)' => Reported(chan)
         /\ Report(chan[1]) => Reported(chan)
<1>1. /\ chan \in Seq(Notes) /\ Len(chan) \in Nat \ {0} /\ DOMAIN chan = 1..Len(chan)
      /\ DOMAIN Tail(chan) = 1..(Len(chan) - 1)
      /\ \A i \in 1..(Len(chan) - 1) : Tail(chan)[i] = chan[i+1] /\ i+1 \in 1..Len(chan)
  BY EmptySeq DEF Typed, MailTyped
<1>. QED BY <1>1 DEF Reported, Report

\* A peer's note on the channel is no report.
LEMMA ReportedAppend ==
  ASSUME Typed, NEW p \in Peer, PeerSends(p)
  PROVE  Reported(chan)' => Reported(chan)
<1>. DEFINE note == [kind |-> "PeerReady", of |-> NoTask, pane |-> NoPane]
<1>1. chan \in Seq(Notes) /\ note \in Notes /\ chan' = Append(chan, note) /\ ~Report(note)
  BY DEF Typed, MailTyped, Notes, PeerSends, Report
<1>. HIDE DEF note
<1>2. /\ Len(chan) \in Nat /\ DOMAIN chan = 1..Len(chan) /\ DOMAIN chan' = 1..(Len(chan) + 1)
      /\ \A i \in 1..Len(chan) : chan'[i] = chan[i]
      /\ chan'[Len(chan) + 1] = note
  BY <1>1
<1>3. \A i \in 1..(Len(chan) + 1) : i \in 1..Len(chan) \/ i = Len(chan) + 1
  BY <1>2
<1>. QED BY <1>1, <1>2, <1>3 DEF Reported

\* Without races, while a turn is live the running flag shows it.
LEMMA LiveRuns == ASSUME Ordered, ~raced, LiveMain # {} PROVE running
BY DEF Ordered, Attended, Owned

\* The handling of a message keeps the turn owned: a report waits only when no task works, so
\* what it starts loses nothing.
LEMMA HandleOrdered == ASSUME Typed, Ordered, HandlesMessage PROVE Ordered'
<1>1. /\ chan # << >> /\ chan' = Tail(chan) /\ loop' \in {"top", "drain"} /\ quitting' = quitting
      /\ reap' = reap
  BY DEF HandlesMessage
<1>2. /\ Reported(chan)' => Reported(chan)
      /\ Report(chan[1]) => Reported(chan)
  BY <1>1, ReportedTail
<1>3. CASE UNCHANGED <<handle, owner, running, task, raced, compactQ>>
  BY <1>1, <1>2, <1>3, LiveRuns, StillOrdered
<1>4. ASSUME NEW run \in BOOLEAN, Report(chan[1]), Resumes(Tail(chan), run) PROVE Ordered'
  <2>1. CASE Launches(Tail(chan))
    BY <1>1, <2>1, LaunchOrdered
  <2>2. CASE compactQ # NoPane /\ Compacts(compactQ, Tail(chan))
    <3>1. compactQ \in Panes
      BY <2>2 DEF Typed, LoopTyped
    <3>. QED BY <1>1, <2>2, <3>1, CompactOrdered
  <2>3. CASE UNCHANGED <<task, raced>>
    <3>1. CASE raced
      BY <2>3, <3>1 DEF Ordered
    <3>2. CASE ~raced
      <4>1. \A u \in Task : ~Working(u)
        BY <3>2, <1>2, <1>4 DEF Ordered, Attended, OneWorks
      <4>2. \A u \in Task : ~Working(u)'
        BY <4>1, <2>3 DEF Working
      <4>. QED BY <4>2, <1>1, IdleOrdered
    <3>. QED BY <3>1, <3>2
  <2>. QED BY <1>4, <2>1, <2>2, <2>3 DEF Resumes
<1>. QED BY <1>3, <1>4, HandleFacts

\* The steps of the loop, the user and the surroundings keep the turn owned.
LEMMA OrderedElsewhere ==
  ASSUME Typed, Ordered, QuitsFirst, Elsewhere PROVE Ordered'
<1>1. CASE DeliversBackground
  <2>1. chan' = chan /\ quitting' = quitting /\ loop' = "peer" /\ UNCHANGED reap
    BY <1>1 DEF DeliversBackground, UI
  <2>2. CASE Launches(chan)
    BY <2>1, <2>2, LaunchOrdered
  <2>3. CASE UNCHANGED <<handle, owner, running, task, raced>>
    BY <2>1, <2>3, LiveRuns, StillOrdered DEF Reported
  <2>. QED BY <1>1, <2>2, <2>3 DEF DeliversBackground
<1>2. CASE DeliversPeer
  <2>1. chan' = chan /\ quitting' = quitting /\ saw' = running' /\ UNCHANGED reap
    BY <1>2 DEF DeliversPeer
  <2>2. CASE Launches(chan)
    BY <2>1, <2>2, LaunchOrdered
  <2>3. CASE UNCHANGED <<handle, owner, running, task, raced>>
    BY <2>1, <2>3, LiveRuns, StillOrdered DEF Reported
  <2>. QED BY <1>2, <2>2, <2>3 DEF DeliversPeer
<1>3. CASE HandlesMessage
  BY <1>3, HandleOrdered
<1>4. CASE Draws
  <2>1. /\ UNCHANGED <<task, handle, reap, owner, raced, chan, quitting>>
        /\ running' = saw /\ loop = "drawn" /\ loop' # "drawn"
    BY <1>4 DEF Draws
  <2>2. ~raced /\ LiveMain # {} => running'
    BY <2>1, LiveRuns DEF Ordered, Attended
  <2>. QED BY <2>1, <2>2, StillOrdered DEF Reported
<1>5. CASE Ticks
  BY <1>5, LiveRuns, StillOrdered DEF Ticks, UI, entry, Reported
<1>6. CASE ShutsMessaging
  BY <1>6, LiveRuns, StillOrdered DEF ShutsMessaging, UI, entry, Reported
<1>7. CASE Exits
  BY <1>7, LiveRuns, StillOrdered DEF Exits, UI, entry, Reported
<1>8. ASSUME NEW h \in Human, Submits(h) PROVE Ordered'
  <2>1. chan' = chan /\ quitting' = quitting /\ loop' = "top" /\ UNCHANGED reap
    BY <1>8 DEF Submits, UI
  <2>2. CASE Launches(chan)
    BY <2>1, <2>2, LaunchOrdered
  <2>3. CASE raced' = (raced \/ Unattended) /\ UNCHANGED <<handle, owner, running, task>>
    BY <2>1, <2>3, LiveRuns, StillOrdered DEF Reported
  <2>. QED BY <1>8, <2>2, <2>3 DEF Submits
<1>9. CASE Interrupts
  BY <1>9, AbortOrdered DEF Interrupts, CancelTurn, UI
<1>10. CASE Clears
  <2>1. CASE running
    BY <1>10, <2>1, AbortOrdered DEF Clears, CancelTurn, UI
  <2>2. CASE ~running
    <3>1. UNCHANGED <<task, handle, reap, owner, raced, chan, quitting, running>> /\ loop' = "top"
      BY <1>10, <2>2 DEF Clears, UI
    <3>. QED BY <3>1, LiveRuns, StillOrdered DEF Reported
  <2>. QED BY <2>1, <2>2
<1>11. ASSUME NEW pane \in Panes, AsksToCompact(pane) PROVE Ordered'
  <2>1. chan' = chan /\ quitting' = quitting /\ loop' = "top" /\ UNCHANGED reap
    BY <1>11 DEF AsksToCompact, UI
  <2>2. CASE Compacts(pane, chan)
    BY <2>1, <2>2, CompactOrdered
  <2>3. CASE UNCHANGED <<handle, owner, running, task, raced>>
    BY <2>1, <2>3, LiveRuns, StillOrdered DEF Reported
  <2>. QED BY <1>11, <2>2, <2>3 DEF AsksToCompact
<1>12. CASE Quits
  <2>1. CASE running
    BY <1>12, <2>1, AbortOrdered DEF Quits, CancelTurn, UI
  <2>2. CASE ~running
    <3>1. UNCHANGED <<task, handle, reap, owner, raced, chan, running>> /\ loop' = "top"
      BY <1>12, <2>2 DEF Quits, UI
    <3>2. raced \/ LiveMain = {}
      BY <2>2, LiveRuns
    <3>. QED BY <3>1, <3>2, StillOrdered DEF Reported
  <2>. QED BY <2>1, <2>2
<1>13. CASE Wipes
  BY <1>13, LiveRuns, StillOrdered DEF Wipes, ui, entry, Reported, Ordered, Attended
<1>14. ASSUME NEW p \in Peer, PeerSends(p) PROVE Ordered'
  <2>1. Reported(chan)' => Reported(chan)
    BY <1>14, ReportedAppend
  <2>. QED BY <1>14, <2>1, LiveRuns, StillOrdered DEF PeerSends, ui, entry, Ordered, Attended
<1>15. ASSUME NEW r \in Result, WorkEnds(r) \/ ResultLands(r) PROVE Ordered'
  BY <1>15, LiveRuns, StillOrdered DEF WorkEnds, ResultLands, ui, entry, Reported, Ordered, Attended
<1>. QED
  BY <1>1, <1>2, <1>3, <1>4, <1>5, <1>6, <1>7, <1>8, <1>9, <1>10, <1>11, <1>12, <1>13, <1>14, <1>15
  DEF Elsewhere, LoopStep, Input, Arrival

\* At the start no turn is to be owned.
LEMMA OrderedInit == ASSUME Init PROVE Ordered /\ QuitsFirst
BY GoneTyped DEF Init, Ordered, Attended, OneWorks, Owned, Abandoned, LiveMain, Working, QuitsFirst

\* Every step keeps the turn owned.
LEMMA OrderedStep == ASSUME Typed, Ordered, QuitsFirst, [Next]_vars PROVE Ordered'
<1>1. CASE UNCHANGED vars
  BY <1>1 DEF vars, Ordered, Attended, OneWorks, Owned, Abandoned, LiveMain, Working, Reported, At
<1>2. CASE Elsewhere
  BY <1>2, OrderedElsewhere
<1>3. ASSUME NEW t \in Task, TaskStep(t) PROVE Ordered'
  BY <1>3, TaskStepOrdered
<1>. QED BY <1>1, <1>2, <1>3 DEF Next, Elsewhere

\* The loop comes to closing only when the user has quit, and nobody takes that back.
LEMMA QuitsFirstStep == ASSUME QuitsFirst, [Next]_vars PROVE QuitsFirst'
<1>1. CASE UNCHANGED <<ui>>
  BY <1>1 DEF ui, QuitsFirst
<1>2. CASE LoopStep
  BY <1>2 DEF LoopStep, DeliversBackground, DeliversPeer, Draws, Ticks, HandlesMessage,
     ShutsMessaging, Exits, UI, QuitsFirst
<1>3. CASE Input
  BY <1>3 DEF Input, Submits, Interrupts, Clears, AsksToCompact, Quits, UI, QuitsFirst
<1>4. ASSUME NEW t \in Task, TaskStep(t) PROVE UNCHANGED <<ui>>
  BY <1>4 DEF TaskStep, Opens, HookPasses, HookBlocks, Round, CallsTools, Answers, Summarizes,
     Reports, GuardJudges, GuardWrites, Drops
<1>5. CASE Wipes \/ Arrival
  BY <1>5, <1>1 DEF Wipes, Arrival, PeerSends, WorkEnds, ResultLands
<1>6. CASE UNCHANGED vars
  BY <1>6, <1>1 DEF vars, ui
<1>. QED BY <1>1, <1>2, <1>3, <1>4, <1>5, <1>6 DEF Next

\* The invariant says what TurnIsOwned asks.
LEMMA OwnedTurns == ASSUME Ordered PROVE TurnIsOwned
BY DEF Ordered, Attended, Owned, TurnIsOwned

\* The step to exited finds the lock free.
LEMMA SaveIsFree ==
  ASSUME Typed, Ordered, QuitsFirst, [Next]_vars, loop = "reaping", loop' = "exited"
  PROVE  raced \/ ~Locked
<1>. SUFFICES ASSUME ~raced, NEW t \in Task, Holds(t) PROVE FALSE
  BY DEF Locked
<1>1. reap # NoTask => At(reap, "gone")
  <2>1. CASE LoopStep
    BY <2>1 DEF LoopStep, DeliversBackground, DeliversPeer, Draws, Ticks, HandlesMessage,
       ShutsMessaging, Exits, UI
  <2>2. CASE ~LoopStep
    <3>1. loop' = loop \/ loop' = "top"
      BY <2>2 DEF Next, Input, Submits, Interrupts, Clears, AsksToCompact, Quits, UI, Wipes,
         Arrival, PeerSends, WorkEnds, ResultLands, TaskStep, Opens, HookPasses, HookBlocks,
         Round, CallsTools, Answers, Summarizes, Reports, GuardJudges, GuardWrites, Drops,
         ui, vars
    <3>. QED BY <3>1
  <2>. QED BY <2>1, <2>2
<1>2. Attended /\ quitting
  BY DEF Ordered, QuitsFirst
<1>3. Working(t) /\ task[t].kind # "sub"
  BY DEF Holds, Working
<1>4. task[t].aborted
  BY <1>2, <1>3 DEF Attended, LiveMain
<1>5. reap = t
  BY <1>2, <1>3, <1>4 DEF Attended, Abandoned
<1>. QED BY <1>1, <1>3, <1>5, SlotsAssumption DEF Working, At

\* Unless a turn was begun while another's end was under way, the main agent has one live turn
\* at most, an interrupt would abort it, and the entry shows it running (TurnIsOwned).
THEOREM TurnsAreOwned == Spec => []TurnIsOwned
<1>1. Init => Typed /\ Ordered /\ QuitsFirst
  BY TypedInit, OrderedInit
<1>2. Typed /\ Ordered /\ QuitsFirst /\ [Next]_vars => (Typed /\ Ordered /\ QuitsFirst)'
  BY TypedStep, OrderedStep, QuitsFirstStep
<1>3. Ordered => TurnIsOwned
  BY OwnedTurns
<1>. QED BY <1>1, <1>2, <1>3, PTL DEF Spec

\* Unless there was such a turn, the final save on the way out finds the agent's lock free: what
\* held it was aborted, and was awaited (FinalSaveIsLockFree).
THEOREM SavesLockFree == Spec => FinalSaveIsLockFree
<1>1. Init => Typed /\ Ordered /\ QuitsFirst
  BY TypedInit, OrderedInit
<1>2. Typed /\ Ordered /\ QuitsFirst /\ [Next]_vars => (Typed /\ Ordered /\ QuitsFirst)'
  BY TypedStep, OrderedStep, QuitsFirstStep
<1>3. Typed /\ Ordered /\ QuitsFirst /\ [Next]_vars
        => [loop = "reaping" /\ loop' = "exited" => raced \/ ~Locked]_vars
  BY SaveIsFree
<1>. QED BY <1>1, <1>2, <1>3, PTL DEF Spec, FinalSaveIsLockFree

-----------------------------------------------------------------------------
(* Where the messages are.                                                 *)

\* Nothing is in both.
Disjoint(A, B) == A \cap B = {}

\* Every message of E is in one place: on the queue, in the history, in a turn's hand,
\* in the composer, refused, discarded, reported at exit, in a cleared conversation, or
\* dropped; the report at exit alone also names what is still on its way.
Sorted(E, queued, told, held, back, ref, disc, rep, old, drop) ==
    /\ Disjoint(queued, told \cup held \cup back \cup ref \cup disc \cup old \cup drop)
    /\ Disjoint(told, held \cup back \cup ref \cup disc \cup old \cup drop)
    /\ Disjoint(held, back \cup ref \cup disc \cup old \cup drop)
    /\ Disjoint(back, ref \cup disc \cup old \cup drop)
    /\ Disjoint(ref, disc \cup old \cup drop)
    /\ Disjoint(disc, old \cup drop)
    /\ Disjoint(old, drop)
    /\ Disjoint(rep, held \cup back \cup ref \cup disc \cup drop)
    /\ queued \cup told \cup held \cup back \cup ref \cup disc \cup old \cup drop \subseteq E
    /\ E \subseteq queued \cup told \cup held \cup back \cup ref \cup disc \cup rep \cup old \cup drop

\* The nine places of the model.
InPlace ==
    Sorted(entered, Queued, ToSet(history), InHand, composer, refused, discarded, undelivered,
           past, dropped)

\* Nothing is twice on the queue, in the history or in one hand.
Once ==
    /\ IsInjective(FlattenSeq(queue)) /\ IsInjective(history)
    /\ \A t \in Task : IsInjective(task[t].carry)

\* The app is past the shutdown of messaging.
Leaving == loop \in {"reaping", "exited"}

\* The inbox holds what was accepted and is not on its way yet; once the app leaves it is
\* empty, and what peers have on the queue is in the report.
InboxKept ==
    /\ IsInjective(inbox) /\ Disjoint(ToSet(inbox), entered)
    /\ ToSet(inbox) \cup (entered \cap Peer) \subseteq accepted
    /\ accepted \subseteq ToSet(inbox) \cup entered \cup undelivered
    /\ Leaving => inbox = << >> /\ Queued \cap Peer \subseteq undelivered
    /\ ~Leaving => undelivered \subseteq entered \ Queued

\* What was queued before the last clear waits no more, and reaches the history only
\* while that clear waits for the lock.
Erased ==
    /\ before \subseteq entered \ Queued
    /\ wipes = 0 => Disjoint(before, InHand \cup ToSet(history))

\* Every message is in one place, and is there once.
Conserved == Once /\ InPlace /\ InboxKept /\ Erased

-----------------------------------------------------------------------------
(* Moving messages between places.                                         *)

\* Part of the queue enters the history.
LEMMA SortTold ==
  ASSUME NEW E, NEW q, NEW h, NEW c, NEW b, NEW f, NEW d, NEW r, NEW o, NEW p,
         NEW x, NEW y, Disjoint(x, y), q = x \cup y,
         Sorted(E, q, h, c, b, f, d, r, o, p)
  PROVE  Sorted(E, y, h \cup x, c, b, f, d, r, o, p)
BY DEF Sorted, Disjoint

\* Part of the queue is taken in hand.
LEMMA SortHeld ==
  ASSUME NEW E, NEW q, NEW h, NEW c, NEW b, NEW f, NEW d, NEW r, NEW o, NEW p,
         NEW x, NEW y, Disjoint(x, y), q = x \cup y, c = {}, Disjoint(x, r),
         Sorted(E, q, h, c, b, f, d, r, o, p)
  PROVE  Sorted(E, y, h, x, b, f, d, r, o, p)
BY DEF Sorted, Disjoint

\* What is in hand enters the history.
LEMMA SortPassed ==
  ASSUME NEW E, NEW q, NEW h, NEW c, NEW b, NEW f, NEW d, NEW r, NEW o, NEW p,
         Sorted(E, q, h, c, b, f, d, r, o, p)
  PROVE  Sorted(E, q, h \cup c, {}, b, f, d, r, o, p)
BY DEF Sorted, Disjoint

\* What is in hand is refused.
LEMMA SortRefused ==
  ASSUME NEW E, NEW q, NEW h, NEW c, NEW b, NEW f, NEW d, NEW r, NEW o, NEW p,
         Sorted(E, q, h, c, b, f, d, r, o, p)
  PROVE  Sorted(E, q, h, {}, b, f \cup c, d, r, o, p)
BY DEF Sorted, Disjoint

\* A new message is queued.
LEMMA SortEntered ==
  ASSUME NEW E, NEW q, NEW h, NEW c, NEW b, NEW f, NEW d, NEW r, NEW o, NEW p, NEW m, m \notin E,
         Sorted(E, q, h, c, b, f, d, r, o, p)
  PROVE  Sorted(E \cup {m}, q \cup {m}, h, c, b, f, d, r, o, p)
BY DEF Sorted, Disjoint

\* The queue is given back to the user, or discarded with a notice.
LEMMA SortCancelled ==
  ASSUME NEW E, NEW q, NEW h, NEW c, NEW b, NEW f, NEW d, NEW r, NEW o, NEW p, NEW H, NEW P,
         Disjoint(H, P), q \subseteq H \cup P, Disjoint(q, r),
         Sorted(E, q, h, c, b, f, d, r, o, p)
  PROVE  Sorted(E, {}, h, c, b \cup (q \cap H), f, d \cup (q \cap P), r, o, p)
BY DEF Sorted, Disjoint

\* The queue is given back to the user, or counted in the report at exit.
LEMMA SortQuit ==
  ASSUME NEW E, NEW q, NEW h, NEW c, NEW b, NEW f, NEW d, NEW r, NEW o, NEW p, NEW H, NEW P,
         Disjoint(H, P), q \subseteq H \cup P, Disjoint(q, r),
         Sorted(E, q, h, c, b, f, d, r, o, p)
  PROVE  Sorted(E, {}, h, c, b \cup (q \cap H), f, d, r \cup (q \cap P), o, p)
BY DEF Sorted, Disjoint

\* The history becomes a past conversation.
LEMMA SortCleared ==
  ASSUME NEW E, NEW q, NEW h, NEW c, NEW b, NEW f, NEW d, NEW r, NEW o, NEW p,
         Sorted(E, q, h, c, b, f, d, r, o, p)
  PROVE  Sorted(E, q, {}, c, b, f, d, r, o \cup h, p)
BY DEF Sorted, Disjoint

\* The queue of an idle agent is dropped.
LEMMA SortDropped ==
  ASSUME NEW E, NEW q, NEW h, NEW c, NEW b, NEW f, NEW d, NEW r, NEW o, NEW p, Disjoint(q, r),
         Sorted(E, q, h, c, b, f, d, r, o, p)
  PROVE  Sorted(E, {}, h, c, b, f, d, r, o, p \cup q)
BY DEF Sorted, Disjoint

\* The report at exit counts the inbox, and part of the queue.
LEMMA SortReported ==
  ASSUME NEW E, NEW q, NEW h, NEW c, NEW b, NEW f, NEW d, NEW r, NEW o, NEW p,
         NEW x, Disjoint(x, E), NEW y, y \subseteq q,
         Sorted(E, q, h, c, b, f, d, r, o, p)
  PROVE  Sorted(E, q, h, c, b, f, d, r \cup x \cup y, o, p)
BY DEF Sorted, Disjoint

-----------------------------------------------------------------------------
(* Whose hands hold what.                                                  *)

\* If every task carries what it carried, the messages in hand are the same.
LEMMA SameHands ==
  ASSUME \A u \in Task : task'[u].carry = task[u].carry
  PROVE  InHand' = InHand /\ \A u \in Task : IsInjective(task'[u].carry) = IsInjective(task[u].carry)
<1>1. {ToSet(task'[u].carry) : u \in Task} = {ToSet(task[u].carry) : u \in Task}
  OBVIOUS
<1>. QED BY <1>1 DEF InHand

\* While the lock is free nothing is in hand.
LEMMA LockedHands ==
  ASSUME Typed, ~Locked
  PROVE  InHand = {} /\ \A u \in Task : task[u].carry = << >>
<1>1. \A u \in Task : task[u].carry = << >>
  BY DEF Typed, TasksTyped, HandsAtHook, Locked, Holds, At
<1>. QED BY <1>1, NothingListed DEF InHand

\* What is in hand is what the one task at the hook carries.
LEMMA HookHands ==
  ASSUME Typed, OneHolds, NEW t \in Task, At(t, "hook")
  PROVE  /\ InHand = ToSet(task[t].carry)
         /\ \A u \in Task \ {t} : task[u].carry = << >>
<1>1. \A u \in Task \ {t} : task[u].carry = << >>
  BY DEF Typed, TasksTyped, HandsAtHook, OneHolds, Holds, At
<1>2. \A u \in Task \ {t} : ToSet(task[u].carry) = {}
  BY <1>1, NothingListed
<1>. QED BY <1>1, <1>2 DEF InHand

\* What is in hand once the only task that may carry something has moved.
LEMMA OneHand ==
  ASSUME NEW t \in Task, NEW place, NEW c, Moved(t, place, c),
         \A u \in Task \ {t} : task[u].carry = << >>
  PROVE  /\ InHand' = ToSet(c) /\ \A u \in Task \ {t} : task'[u].carry = << >>
         /\ task'[t].carry = c
<1>1. task'[t].carry = c /\ \A u \in Task \ {t} : task'[u].carry = << >>
  BY DEF Moved, Alone
<1>2. \A u \in Task \ {t} : ToSet(task'[u].carry) = {}
  BY <1>1, NothingListed
<1>. QED BY <1>1, <1>2 DEF InHand

\* Only the user's messages are ever in hand.
LEMMA HeldIsHuman == ASSUME Typed PROVE InHand \subseteq Human
<1>1. \A u \in Task : ToSet(task[u].carry) \subseteq Human
  BY TaskField, ListedType DEF Typed, TasksTyped
<1>. QED BY <1>1 DEF InHand

-----------------------------------------------------------------------------

\* What was cleared stays cleared while messages only move on.
LEMMA ErasedStays ==
  ASSUME Erased, UNCHANGED <<before, wipes>>, entered \subseteq entered',
         Disjoint(Queued' \ Queued, entered),
         InHand' \cup ToSet(history)' \subseteq InHand \cup ToSet(history) \cup Queued
  PROVE  Erased'
BY DEF Erased, Disjoint

\* The inbox is accounted for while it is untouched and the queue gains nothing.
LEMMA InboxStays ==
  ASSUME InboxKept, UNCHANGED <<inbox, accepted, entered, undelivered>>, (Leaving' <=> Leaving),
         Queued' \subseteq Queued
  PROVE  InboxKept'
<1>1. ToSet(inbox') = ToSet(inbox) /\ IsInjective(inbox') = IsInjective(inbox)
  OBVIOUS
<1>. QED BY <1>1 DEF InboxKept, Disjoint

\* A step that leaves every message where it is.
LEMMA ConservedStays ==
  ASSUME Conserved, \A u \in Task : task'[u].carry = task[u].carry,
         UNCHANGED <<queue, history, entered, inbox, accepted, fates, clearing>>,
         (Leaving' <=> Leaving)
  PROVE  Conserved'
<1>1. InHand' = InHand /\ \A u \in Task : IsInjective(task'[u].carry) = IsInjective(task[u].carry)
  BY SameHands
<1>2. /\ Queued' = Queued /\ ToSet(history)' = ToSet(history)
      /\ FlattenSeq(queue)' = FlattenSeq(queue)
  BY DEF Queued
<1>3. Once'
  BY <1>1, <1>2 DEF Conserved, Once
<1>4. InPlace'
  BY <1>1, <1>2 DEF Conserved, InPlace, fates
<1>5. InboxKept'
  BY <1>2, InboxStays DEF Conserved, fates
<1>6. Erased'
  BY <1>1, <1>2, ErasedStays DEF Conserved, clearing, Disjoint
<1>. QED BY <1>3, <1>4, <1>5, <1>6 DEF Conserved

\* What injectivity says of a queue: nothing is in two of its parts.
LEMMA QueueParts ==
  ASSUME Typed, Conserved, queue # << >>
  PROVE  /\ Disjoint(ToSet(queue[1]), ToSet(FlattenSeq(Tail(queue))))
         /\ Queued = ToSet(queue[1]) \cup ToSet(FlattenSeq(Tail(queue)))
         /\ IsInjective(queue[1]) /\ IsInjective(FlattenSeq(Tail(queue)))
         /\ queue[1] \in Seq(Message)
<1>1. /\ queue[1] \in Seq(Message) /\ Shaped(Tail(queue))
      /\ FlattenSeq(queue) = queue[1] \o FlattenSeq(Tail(queue))
  BY QueueHead DEF Typed, QueueTyped
<1>2. FlattenSeq(Tail(queue)) \in Seq(Message)
  BY <1>1, FlatType
<1>3. IsInjective(queue[1] \o FlattenSeq(Tail(queue)))
  BY <1>1 DEF Conserved, Once
<1>4. ToSet(queue[1] \o FlattenSeq(Tail(queue)))
         = ToSet(queue[1]) \cup ToSet(FlattenSeq(Tail(queue)))
  BY <1>1, <1>2, ListedConcat
<1>5. /\ IsInjective(queue[1]) /\ IsInjective(FlattenSeq(Tail(queue)))
      /\ ToSet(queue[1]) \cap ToSet(FlattenSeq(Tail(queue))) = {}
  BY <1>1, <1>2, <1>3, InjectiveConcat
<1>. QED BY <1>1, <1>4, <1>5 DEF Queued, Disjoint

\* Messages that are elsewhere join the history.
LEMMA HistoryGrows ==
  ASSUME Typed, Once, NEW s \in Seq(Message), IsInjective(s), Disjoint(ToSet(s), ToSet(history)),
         history' = history \o s
  PROVE  IsInjective(history') /\ ToSet(history') = ToSet(history) \cup ToSet(s)
<1>1. history \in Seq(Message) /\ IsInjective(history)
  BY DEF Typed, QueueTyped, Once
<1>. QED BY <1>1, ListedConcat, InjectiveConcat DEF Disjoint

\* Before the app leaves, nothing on the queue is in the report.
LEMMA QueueUnreported == ASSUME Conserved, ~Leaving PROVE Disjoint(Queued, undelivered)
BY DEF Conserved, InboxKept, Disjoint

\* The report at exit is about peers, and the queue holds messages of the two kinds.
LEMMA ReportedPeers ==
  ASSUME Typed
  PROVE  undelivered \subseteq Peer /\ Queued \subseteq Human \cup Peer
BY QueuedType DEF Typed, FatesTyped, Message

\* A run that pops its opener loses nothing: it is in the history, or in hand.
LEMMA OpensConserved ==
  ASSUME Typed, OneHolds, Conserved, NEW t \in Task, Opens(t) PROVE Conserved'
<1>. DEFINE x == ToSet(queue[1])
            y == ToSet(FlattenSeq(Tail(queue)))
<1>1. /\ UNCHANGED <<inbox, accepted, entered, fates, clearing>> /\ loop' = loop /\ ~Locked
  BY DEF Opens, ui, arrivals
<1>2. InHand = {} /\ \A u \in Task : task[u].carry = << >>
  BY <1>1, LockedHands
<1>3. CASE queue = << >> /\ Moved(t, "round", << >>) /\ UNCHANGED <<queue, history>>
  <2>1. \A u \in Task : task'[u].carry = task[u].carry
    BY <1>2, <1>3, OneHand
  <2>. QED BY <1>1, <1>3, <2>1, ConservedStays DEF Leaving
<1>4. CASE /\ queue # << >> /\ Moved(t, "round", << >>)
           /\ history' = history \o queue[1] /\ queue' = Tail(queue)
  <2>1. \A u \in Task : task'[u].carry = task[u].carry
    BY <1>2, <1>4, OneHand
  <2>2. InHand' = InHand /\ \A u \in Task : IsInjective(task'[u].carry) = IsInjective(task[u].carry)
    BY <2>1, SameHands
  <2>3. /\ Disjoint(x, y) /\ Queued = x \cup y /\ IsInjective(queue[1])
        /\ IsInjective(FlattenSeq(Tail(queue))) /\ queue[1] \in Seq(Message)
    BY <1>4, QueueParts
  <2>4. Queued' = y
    BY <1>4 DEF Queued
  <2>5. Disjoint(x, ToSet(history))
    BY <2>3 DEF Conserved, InPlace, Sorted, Disjoint
  <2>6. IsInjective(history') /\ ToSet(history') = ToSet(history) \cup x
    BY <1>4, <2>3, <2>5, HistoryGrows DEF Conserved
  <2>. HIDE DEF x, y
  <2>7. Once'
    BY <1>4, <2>2, <2>3, <2>6 DEF Conserved, Once
  <2>8. InPlace'
    BY <1>1, <2>2, <2>3, <2>4, <2>6, SortTold DEF Conserved, InPlace, fates
  <2>9. InboxKept'
    BY <1>1, <2>3, <2>4, InboxStays DEF Conserved, Leaving, fates
  <2>10. Erased'
    BY <1>1, <2>2, <2>3, <2>4, <2>6, ErasedStays DEF Conserved, clearing, Disjoint
  <2>. QED BY <2>7, <2>8, <2>9, <2>10 DEF Conserved
<1>5. CASE /\ queue # << >> /\ queue[1] \in Seq(Human) /\ Moved(t, "hook", queue[1])
           /\ history' = history /\ queue' = Tail(queue)
  <2>1. /\ InHand' = x /\ \A u \in Task \ {t} : task'[u].carry = << >>
        /\ task'[t].carry = queue[1]
    BY <1>2, <1>5, OneHand
  <2>2. /\ Disjoint(x, y) /\ Queued = x \cup y /\ IsInjective(queue[1])
        /\ IsInjective(FlattenSeq(Tail(queue)))
    BY <1>5, QueueParts
  <2>3. Queued' = y /\ ToSet(history)' = ToSet(history)
    BY <1>5 DEF Queued
  <2>4. \A u \in Task : IsInjective(task'[u].carry)
    BY <2>1, <2>2, NothingListed
  <2>5. Disjoint(x, undelivered)
    BY <1>5, ListedType, ReportedPeers, KindsApart DEF Disjoint
  <2>. HIDE DEF x, y
  <2>6. Once'
    BY <1>5, <2>2, <2>4 DEF Conserved, Once
  <2>7. InPlace'
    BY <1>1, <1>2, <2>1, <2>2, <2>3, <2>5, SortHeld DEF Conserved, InPlace, fates
  <2>8. InboxKept'
    BY <1>1, <2>2, <2>3, InboxStays DEF Conserved, Leaving, fates
  <2>9. Erased'
    BY <1>1, <2>1, <2>2, <2>3, ErasedStays DEF Conserved, clearing, Disjoint
  <2>. QED BY <2>6, <2>7, <2>8, <2>9 DEF Conserved
<1>. QED BY <1>3, <1>4, <1>5, OpensMoves

\* An opener that passes the hook enters the history once.
LEMMA HookPassesConserved ==
  ASSUME Typed, OneHolds, Conserved, NEW t \in Task, HookPasses(t) PROVE Conserved'
<1>1. /\ UNCHANGED <<queue, inbox, accepted, entered, fates, clearing>> /\ loop' = loop
      /\ At(t, "hook") /\ history' = history \o task[t].carry
  BY DEF HookPasses, ui, entry, arrivals
<1>2. InHand = ToSet(task[t].carry) /\ \A u \in Task \ {t} : task[u].carry = << >>
  BY <1>1, HookHands
<1>3. /\ InHand' = {} /\ \A u \in Task \ {t} : task'[u].carry = << >>
      /\ task'[t].carry = << >>
  BY <1>2, HookPassesMoves, OneHand, NothingListed
<1>4. /\ Queued' = Queued /\ FlattenSeq(queue)' = FlattenSeq(queue)
  BY <1>1 DEF Queued
<1>5. task[t].carry \in Seq(Message) /\ IsInjective(task[t].carry)
  BY TaskField, KindsApart, SeqMonotonic DEF Typed, TasksTyped, Conserved, Once
<1>6. Disjoint(InHand, ToSet(history))
  BY DEF Conserved, InPlace, Sorted, Disjoint
<1>7. IsInjective(history') /\ ToSet(history') = ToSet(history) \cup InHand
  BY <1>1, <1>2, <1>5, <1>6, HistoryGrows DEF Conserved
<1>8. Once'
  BY <1>3, <1>4, <1>7, NothingListed DEF Conserved, Once
<1>9. InPlace'
  BY <1>1, <1>3, <1>4, <1>7, SortPassed DEF Conserved, InPlace, fates
<1>10. InboxKept'
  BY <1>1, <1>4, InboxStays DEF Conserved, Leaving, fates
<1>11. Erased'
  BY <1>1, <1>3, <1>4, <1>7, ErasedStays DEF Conserved, clearing, Disjoint
<1>. QED BY <1>8, <1>9, <1>10, <1>11 DEF Conserved

\* What is in hand at the hook is refused, and the hand is empty.
LEMMA HandRefused ==
  ASSUME Typed, OneHolds, Conserved, NEW t \in Task, At(t, "hook"),
         InHand' = {}, \A u \in Task : task'[u].carry = << >>,
         refused' = refused \cup ToSet(task[t].carry),
         UNCHANGED <<queue, history, inbox, accepted, entered, composer, discarded, undelivered,
                     past, dropped, clearing, loop>>
  PROVE  Conserved'
<1>1. InHand = ToSet(task[t].carry)
  BY HookHands
<1>2. /\ Queued' = Queued /\ FlattenSeq(queue)' = FlattenSeq(queue)
      /\ ToSet(history)' = ToSet(history)
  BY DEF Queued
<1>3. Once'
  BY <1>2, NothingListed DEF Conserved, Once
<1>4. InPlace'
  BY <1>1, <1>2, SortRefused DEF Conserved, InPlace
<1>5. InboxKept'
  BY <1>2, InboxStays DEF Conserved, Leaving
<1>6. Erased'
  BY <1>2, ErasedStays DEF Conserved, clearing, Disjoint
<1>. QED BY <1>3, <1>4, <1>5, <1>6 DEF Conserved

\* An opener that the hook blocks is refused.
LEMMA HookBlocksConserved ==
  ASSUME Typed, OneHolds, Conserved, NEW t \in Task, HookBlocks(t) PROVE Conserved'
<1>1. /\ UNCHANGED <<queue, history, inbox, accepted, entered, composer, discarded, undelivered,
                     past, dropped, clearing, loop>>
      /\ At(t, "hook") /\ refused' = refused \cup ToSet(task[t].carry)
  BY DEF HookBlocks, ui, entry, arrivals
<1>2. \A u \in Task \ {t} : task[u].carry = << >>
  BY <1>1, HookHands
<1>3. InHand' = {} /\ \A u \in Task : task'[u].carry = << >>
  BY <1>2, HookBlocksMoves, OneHand, NothingListed
<1>. QED BY <1>1, <1>3, HandRefused

\* A task that leaves leaves nothing in its hand.
LEMMA LeftHands ==
  ASSUME NEW t \in Task, Left(t)
  PROVE  task'[t].carry = << >> /\ \A u \in Task \ {t} : task'[u] = task[u]
BY GoneTyped DEF Left, Alone

\* An opener whose turn is aborted at the hook is refused.
LEMMA DropsConserved ==
  ASSUME Typed, OneHolds, Conserved, NEW t \in Task, Drops(t) PROVE Conserved'
<1>1. /\ UNCHANGED <<queue, history, inbox, accepted, entered, composer, discarded, undelivered,
                     past, dropped, clearing, loop>>
      /\ refused' = refused \cup ToSet(task[t].carry)
  BY DEF Drops, ui, entry, arrivals
<1>2. task'[t].carry = << >> /\ \A u \in Task \ {t} : task'[u] = task[u]
  BY DropsMoves, LeftHands DEF Moved, Alone
<1>3. CASE At(t, "hook")
  <2>1. \A u \in Task : task'[u].carry = << >>
    BY <1>2, <1>3, HookHands
  <2>2. \A u \in Task : ToSet(task'[u].carry) = {}
    BY <2>1, NothingListed
  <2>3. InHand' = {}
    BY <2>2 DEF InHand
  <2>. QED BY <1>1, <1>3, <2>1, <2>3, HandRefused
<1>4. CASE ~At(t, "hook")
  <2>1. task[t].carry = << >>
    BY <1>4, EmptyHands
  <2>2. \A u \in Task : task'[u].carry = task[u].carry
    BY <1>2, <2>1
  <2>3. ToSet(task[t].carry) = {}
    BY <2>1, NothingListed
  <2>4. UNCHANGED fates
    BY <1>1, <2>3 DEF fates
  <2>. QED BY <1>1, <2>2, <2>4, ConservedStays DEF Leaving
<1>. QED BY <1>3, <1>4

\* A round takes the whole queue into the history, each message once.
LEMMA RoundConserved ==
  ASSUME Typed, OneHolds, Conserved, NEW t \in Task, Round(t) PROVE Conserved'
<1>1. /\ UNCHANGED <<inbox, accepted, entered, fates, clearing>> /\ loop' = loop
      /\ history' = history \o FlattenSeq(queue) /\ queue' = << >> /\ ~At(t, "hook")
  BY DEF Round, ui, arrivals, At
<1>2. \A u \in Task : task'[u].carry = task[u].carry
  BY <1>1, RoundMoves, EmptyHands DEF Moved, Alone
<1>3. InHand' = InHand /\ \A u \in Task : IsInjective(task'[u].carry) = IsInjective(task[u].carry)
  BY <1>2, SameHands
<1>4. Queued' = {} /\ FlattenSeq(queue') = << >>
  BY <1>1, EmptyQueue, NothingListed DEF Queued
<1>5. FlattenSeq(queue) \in Seq(Message) /\ IsInjective(FlattenSeq(queue))
  BY FlatType DEF Typed, QueueTyped, Conserved, Once
<1>6. Disjoint(Queued, ToSet(history))
  BY DEF Conserved, InPlace, Sorted, Disjoint
<1>7. IsInjective(history') /\ ToSet(history') = ToSet(history) \cup Queued
  BY <1>1, <1>5, <1>6, HistoryGrows DEF Conserved, Queued
<1>8. Once'
  BY <1>3, <1>4, <1>7, NothingListed DEF Conserved, Once
<1>9. InPlace'
  <2>1. Disjoint(Queued, {}) /\ Queued = Queued \cup {}
    BY DEF Disjoint
  <2>. QED BY <2>1, <1>1, <1>3, <1>4, <1>7, SortTold DEF Conserved, InPlace, fates
<1>10. InboxKept'
  BY <1>1, <1>4, InboxStays DEF Conserved, Leaving, fates
<1>11. Erased'
  BY <1>1, <1>3, <1>4, <1>7, ErasedStays DEF Conserved, clearing, Disjoint
<1>. QED BY <1>8, <1>9, <1>10, <1>11 DEF Conserved

\* A task's own steps keep every message in one place.
LEMMA TaskStepConserved ==
  ASSUME Typed, OneHolds, Conserved, NEW t \in Task, TaskStep(t) PROVE Conserved'
<1>1. CASE CallsTools(t) \/ Answers(t) \/ Summarizes(t) \/ GuardJudges(t)
           \/ GuardWrites(t) \/ Reports(t)
  <2>1. UNCHANGED <<queue, history, entered, inbox, accepted, fates, clearing, loop>>
    BY <1>1 DEF CallsTools, Answers, Summarizes, GuardJudges, GuardWrites, Reports, ui, entry,
       arrivals
  <2>2. ~At(t, "hook")
    BY <1>1 DEF CallsTools, Answers, Summarizes, GuardJudges, GuardWrites, Reports, At
  <2>3. task'[t].carry = << >> /\ \A u \in Task \ {t} : task'[u] = task[u]
    BY <1>1, CallsToolsMoves, AnswersMoves, SummarizesMoves, GuardJudgesMoves, GuardWritesMoves,
       ReportsMoves, LeftHands DEF Moved, Alone
  <2>4. \A u \in Task : task'[u].carry = task[u].carry
    BY <2>2, <2>3, EmptyHands
  <2>. QED BY <2>1, <2>4, ConservedStays DEF Leaving
<1>. QED
  BY <1>1, OpensConserved, HookPassesConserved, HookBlocksConserved, RoundConserved,
     DropsConserved DEF TaskStep

-----------------------------------------------------------------------------

\* In a step of another actor every hand holds what it held.
LEMMA BesideHands ==
  ASSUME Typed, Elsewhere
  PROVE  /\ \A u \in Task : task'[u].carry = task[u].carry
         /\ InHand' = InHand
         /\ \A u \in Task : IsInjective(task'[u].carry) = IsInjective(task[u].carry)
<1>1. \A u \in Task : task'[u].carry = task[u].carry
  <2>. SUFFICES ASSUME NEW u \in Task PROVE task'[u].carry = task[u].carry
    OBVIOUS
  <2>1. CASE task'[u].carry = task[u].carry
    BY <2>1
  <2>2. CASE task[u].at = "gone" /\ task'[u].carry = << >>
    BY <2>2, EmptyHands DEF At
  <2>. QED BY <2>1, <2>2, ElsewhereBeside DEF Beside
<1>. QED BY <1>1, SameHands

\* A message that was never queued before is queued.
LEMMA EnqueueConserved ==
  ASSUME Typed, Conserved, Elsewhere, NEW m \in Message, Enqueues(m), m \notin entered,
         ~Leaving, ~Leaving', UNCHANGED <<history, accepted, fates, clearing>>,
         \/ m \in Human /\ inbox' = inbox
         \/ m \in Peer /\ inbox # << >> /\ m = Head(inbox) /\ inbox' = Tail(inbox)
  PROVE  Conserved'
<1>1. /\ InHand' = InHand
      /\ \A u \in Task : IsInjective(task'[u].carry) = IsInjective(task[u].carry)
  BY BesideHands
<1>2. /\ entered' = entered \cup {m}
      /\ FlattenSeq(queue') = Append(FlattenSeq(queue), m) /\ FlattenSeq(queue) \in Seq(Message)
  BY MergedQueue, FlatType DEF Enqueues, Typed, QueueTyped
<1>3. m \notin ToSet(FlattenSeq(queue))
  BY DEF Conserved, InPlace, Sorted, Queued
<1>4. Queued' = Queued \cup {m} /\ IsInjective(FlattenSeq(queue'))
  BY <1>2, <1>3, ListedAppend DEF Conserved, Once, Queued
<1>5. ToSet(history)' = ToSet(history)
  OBVIOUS
<1>6. Once'
  BY <1>1, <1>4 DEF Conserved, Once
<1>7. InPlace'
  BY <1>1, <1>2, <1>4, <1>5, SortEntered DEF Conserved, InPlace, fates
<1>8. Erased'
  BY <1>1, <1>2, <1>4, <1>5, ErasedStays DEF Conserved, clearing, Disjoint
<1>9. InboxKept'
  <2>1. m \notin undelivered
    BY DEF Conserved, InboxKept
  <2>2. CASE m \in Human /\ inbox' = inbox
    <3>1. ToSet(inbox) \subseteq Peer /\ ToSet(inbox') = ToSet(inbox) /\ m \notin Peer
      BY <2>2, ListedType, KindsApart DEF Typed, MailTyped
    <3>. QED BY <2>1, <2>2, <3>1, <1>2, <1>4 DEF Conserved, InboxKept, Disjoint, fates
  <2>3. CASE m \in Peer /\ inbox # << >> /\ m = Head(inbox) /\ inbox' = Tail(inbox)
    <3>1. /\ ToSet(inbox) = ToSet(inbox') \cup {m} /\ IsInjective(inbox')
          /\ m \notin ToSet(inbox')
      BY <2>3, ListedHead DEF Typed, MailTyped, Conserved, InboxKept
    <3>. QED BY <2>1, <3>1, <1>2, <1>4 DEF Conserved, InboxKept, Disjoint, fates
  <2>. QED BY <2>2, <2>3
<1>. QED BY <1>6, <1>7, <1>8, <1>9 DEF Conserved

\* A peer's message goes from the inbox to the queue.
LEMMA DeliversPeerConserved ==
  ASSUME Typed, Conserved, DeliversPeer PROVE Conserved'
<1>1. /\ UNCHANGED <<history, accepted, fates, clearing>> /\ ~Leaving /\ ~Leaving' /\ Elsewhere
  BY DEF DeliversPeer, UI, Leaving, Elsewhere, LoopStep
<1>2. CASE MayDeliverPeer
  <2>1. /\ Enqueues(Head(inbox)) /\ inbox' = Tail(inbox) /\ inbox # << >>
    BY <1>2 DEF DeliversPeer, MayDeliverPeer
  <2>2. Head(inbox) \in Peer /\ Head(inbox) \in ToSet(inbox) /\ Head(inbox) \in Message
    BY <2>1, ListedHead, KindsApart DEF Typed, MailTyped
  <2>3. Head(inbox) \notin entered
    BY <2>2 DEF Conserved, InboxKept, Disjoint
  <2>. QED BY <1>1, <2>1, <2>2, <2>3, EnqueueConserved
<1>3. CASE ~MayDeliverPeer
  <2>1. UNCHANGED <<queue, entered, inbox>> /\ \A u \in Task : task'[u].carry = task[u].carry
    BY <1>3 DEF DeliversPeer
  <2>. QED BY <1>1, <2>1, ConservedStays
<1>. QED BY <1>2, <1>3

\* The user's message goes to the queue.
LEMMA SubmitsConserved ==
  ASSUME Typed, Conserved, NEW m \in Human, Submits(m) PROVE Conserved'
<1>1. /\ UNCHANGED <<history, accepted, inbox, fates, clearing>> /\ ~Leaving /\ ~Leaving'
      /\ Elsewhere /\ Enqueues(m) /\ m \notin entered /\ m \in Message
  BY KindsApart DEF Submits, UI, Leaving, Elsewhere, Input, arrivals
<1>. QED BY <1>1, EnqueueConserved

\* A message that is accepted goes to the inbox.
LEMMA PeerSendsConserved ==
  ASSUME Typed, Conserved, NEW m \in Peer, PeerSends(m) PROVE Conserved'
<1>1. /\ UNCHANGED <<queue, task, loop, history, entered, fates, clearing>>
      /\ m \notin accepted /\ accepted' = accepted \cup {m} /\ inbox' = Append(inbox, m)
      /\ ~Leaving
  BY DEF PeerSends, ui, entry, Admits, Leaving
<1>2. /\ InHand' = InHand /\ Queued' = Queued /\ ToSet(history)' = ToSet(history)
      /\ \A u \in Task : IsInjective(task'[u].carry) = IsInjective(task[u].carry)
  BY <1>1, SameHands DEF Queued
<1>3. m \notin ToSet(inbox) /\ m \notin entered
  BY <1>1 DEF Conserved, InboxKept
<1>4. ToSet(inbox') = ToSet(inbox) \cup {m} /\ IsInjective(inbox')
  BY <1>1, <1>3, ListedAppend DEF Typed, MailTyped, Conserved, InboxKept
<1>5. Once' /\ InPlace'
  BY <1>1, <1>2 DEF Conserved, Once, InPlace, fates
<1>6. InboxKept'
  BY <1>1, <1>2, <1>3, <1>4 DEF Conserved, InboxKept, Disjoint, fates, Leaving
<1>7. Erased'
  BY <1>1, <1>2, ErasedStays DEF Conserved, clearing, Disjoint
<1>. QED BY <1>5, <1>6, <1>7 DEF Conserved

\* The report at exit takes the inbox, and counts what waits on the queue.
LEMMA ShutsConserved == ASSUME Typed, Conserved, ShutsMessaging PROVE Conserved'
<1>1. /\ UNCHANGED <<queue, task, history, entered, accepted, clearing, composer, discarded,
                     refused, dropped, past>>
      /\ undelivered' = undelivered \cup ToSet(inbox) \cup (Queued \cap Peer)
      /\ inbox' = << >> /\ Leaving' /\ ~Leaving
  BY DEF ShutsMessaging, UI, entry, Leaving
<1>2. /\ InHand' = InHand /\ Queued' = Queued /\ ToSet(history)' = ToSet(history)
      /\ \A u \in Task : IsInjective(task'[u].carry) = IsInjective(task[u].carry)
  BY <1>1, SameHands DEF Queued
<1>3. Once'
  BY <1>1, <1>2 DEF Conserved, Once
<1>4. InPlace'
  <2>1. Disjoint(ToSet(inbox), entered)
    BY DEF Conserved, InboxKept
  <2>. QED BY <2>1, <1>1, <1>2, SortReported DEF Conserved, InPlace
<1>5. InboxKept'
  BY <1>1, <1>2, NothingListed DEF Conserved, InboxKept, Disjoint
<1>6. Erased'
  BY <1>1, <1>2, ErasedStays DEF Conserved, clearing, Disjoint
<1>. QED BY <1>3, <1>4, <1>5, <1>6 DEF Conserved

\* The queue is emptied into places that were disjoint from it, outside the way out.
LEMMA EmptiedQueue ==
  ASSUME queue' = << >>
  PROVE  Queued' = {} /\ IsInjective(FlattenSeq(queue'))
BY EmptyQueue, NothingListed DEF Queued

\* An interrupt gives the queue back to the user, and discards the peers' with a notice.
LEMMA InterruptsConserved == ASSUME Typed, Conserved, Interrupts PROVE Conserved'
<1>1. /\ UNCHANGED <<history, entered, accepted, inbox, clearing, undelivered, refused, dropped,
                     past>>
      /\ ~Leaving /\ ~Leaving' /\ Elsewhere /\ queue' = << >>
      /\ composer' = composer \cup (Queued \cap Human)
      /\ discarded' = discarded \cup (Queued \cap Peer)
  BY DEF Interrupts, CancelTurn, UI, Leaving, Elsewhere, Input, arrivals
<1>2. /\ InHand' = InHand /\ Queued' = {} /\ ToSet(history)' = ToSet(history)
      /\ IsInjective(FlattenSeq(queue'))
      /\ \A u \in Task : IsInjective(task'[u].carry) = IsInjective(task[u].carry)
  BY <1>1, BesideHands, EmptiedQueue
<1>3. Disjoint(Human, Peer) /\ Queued \subseteq Human \cup Peer /\ Disjoint(Queued, undelivered)
  BY <1>1, KindsApart, ReportedPeers, QueueUnreported DEF Disjoint
<1>4. Once'
  BY <1>1, <1>2 DEF Conserved, Once
<1>5. InPlace'
  BY <1>1, <1>2, <1>3, SortCancelled DEF Conserved, InPlace
<1>6. InboxKept'
  BY <1>1, <1>2, InboxStays DEF Conserved
<1>7. Erased'
  BY <1>1, <1>2, ErasedStays DEF Conserved, clearing, Disjoint
<1>. QED BY <1>4, <1>5, <1>6, <1>7 DEF Conserved

\* Quitting gives the queue back to the user, and counts the peers' for the report.
LEMMA QuitsConserved == ASSUME Typed, Conserved, Quits PROVE Conserved'
<1>1. /\ UNCHANGED <<history, entered, accepted, inbox, clearing, discarded, refused, dropped, past>>
      /\ ~Leaving /\ ~Leaving' /\ Elsewhere
  BY DEF Quits, UI, Leaving, Elsewhere, Input, arrivals
<1>2. CASE running
  <2>1. /\ queue' = << >> /\ composer' = composer \cup (Queued \cap Human)
        /\ undelivered' = undelivered \cup (Queued \cap Peer)
    BY <1>2 DEF Quits, CancelTurn
  <2>2. /\ InHand' = InHand /\ Queued' = {} /\ ToSet(history)' = ToSet(history)
        /\ IsInjective(FlattenSeq(queue'))
        /\ \A u \in Task : IsInjective(task'[u].carry) = IsInjective(task[u].carry)
    BY <1>1, <2>1, BesideHands, EmptiedQueue
  <2>3. Disjoint(Human, Peer) /\ Queued \subseteq Human \cup Peer /\ Disjoint(Queued, undelivered)
    BY <1>1, KindsApart, ReportedPeers, QueueUnreported DEF Disjoint
  <2>4. Once'
    BY <1>1, <2>2 DEF Conserved, Once
  <2>5. InPlace'
    BY <1>1, <2>1, <2>2, <2>3, SortQuit DEF Conserved, InPlace
  <2>6. InboxKept'
    <3>1. Queued \subseteq entered
      BY DEF Conserved, InPlace, Sorted
    <3>. QED BY <3>1, <1>1, <2>1, <2>2 DEF Conserved, InboxKept, Disjoint
  <2>7. Erased'
    BY <1>1, <2>2, ErasedStays DEF Conserved, clearing, Disjoint
  <2>. QED BY <2>4, <2>5, <2>6, <2>7 DEF Conserved
<1>3. CASE ~running
  <2>1. UNCHANGED <<queue, task, fates>>
    BY <1>1, <1>3 DEF Quits, fates
  <2>. QED BY <1>1, <2>1, ConservedStays
<1>. QED BY <1>2, <1>3

\* The conversation is forgotten.
LEMMA ForgottenHistory ==
  ASSUME Typed, Forgets
  PROVE  ToSet(history') = {} /\ IsInjective(history') /\ past' = past \cup ToSet(history)
BY NothingListed DEF Forgets

\* A clear that waited for the lock takes the history once nothing is in hand.
LEMMA WipesConserved == ASSUME Typed, Conserved, Wipes PROVE Conserved'
<1>1. /\ UNCHANGED <<queue, task, loop, entered, accepted, inbox, before, composer, discarded,
                     undelivered, refused, dropped>>
      /\ Forgets /\ ~Locked
  BY DEF Wipes, ui, entry, arrivals
<1>2. /\ InHand' = InHand /\ Queued' = Queued
      /\ \A u \in Task : IsInjective(task'[u].carry) = IsInjective(task[u].carry)
  BY <1>1, SameHands DEF Queued
<1>3. ToSet(history') = {} /\ IsInjective(history') /\ past' = past \cup ToSet(history)
  BY <1>1, ForgottenHistory
<1>4. InHand = {}
  BY <1>1, LockedHands
<1>5. Once'
  BY <1>1, <1>2, <1>3 DEF Conserved, Once
<1>6. InPlace'
  BY <1>1, <1>2, <1>3, SortCleared DEF Conserved, InPlace
<1>7. InboxKept'
  BY <1>1, <1>2, InboxStays DEF Conserved, Leaving
<1>8. Erased'
  BY <1>1, <1>2, <1>3, <1>4 DEF Conserved, Erased, Disjoint
<1>. QED BY <1>5, <1>6, <1>7, <1>8 DEF Conserved

\* A /clear empties the queue, and the history at once unless the lock is taken.
LEMMA ClearsConserved == ASSUME Typed, Conserved, Clears PROVE Conserved'
<1>1. /\ UNCHANGED <<entered, accepted, inbox, undelivered, refused>> /\ before' = entered
      /\ ~Leaving /\ ~Leaving' /\ Elsewhere /\ queue' = << >>
  BY DEF Clears, CancelTurn, UI, Leaving, Elsewhere, Input, arrivals
<1>2. /\ InHand' = InHand /\ Queued' = {} /\ IsInjective(FlattenSeq(queue'))
      /\ \A u \in Task : IsInjective(task'[u].carry) = IsInjective(task[u].carry)
  BY <1>1, BesideHands, EmptiedQueue
<1>3. Disjoint(Human, Peer) /\ Queued \subseteq Human \cup Peer /\ Disjoint(Queued, undelivered)
  BY <1>1, KindsApart, ReportedPeers, QueueUnreported DEF Disjoint
<1>4. Sorted(entered, {}, ToSet(history), InHand, composer', refused, discarded', undelivered,
             past, dropped')
  <2>1. CASE running
    <3>1. /\ composer' = composer \cup (Queued \cap Human) /\ dropped' = dropped
          /\ discarded' = discarded \cup (Queued \cap Peer)
      BY <2>1 DEF Clears, CancelTurn
    <3>. QED BY <3>1, <1>3, SortCancelled DEF Conserved, InPlace
  <2>2. CASE ~running
    <3>1. dropped' = dropped \cup Queued /\ composer' = composer /\ discarded' = discarded
      BY <2>2 DEF Clears
    <3>. QED BY <3>1, <1>3, SortDropped DEF Conserved, InPlace
  <2>. QED BY <2>1, <2>2
<1>5. InboxKept'
  BY <1>1, <1>2, InboxStays DEF Conserved
<1>6. CASE Locked
  <2>1. UNCHANGED <<history, past>> /\ wipes' = wipes + 1
    BY <1>6 DEF Clears
  <2>2. Once'
    BY <2>1, <1>2 DEF Conserved, Once
  <2>3. InPlace'
    BY <2>1, <1>1, <1>2, <1>4 DEF InPlace
  <2>4. Erased'
    <3>1. wipes' # 0
      BY <2>1 DEF Typed, FatesTyped
    <3>. QED BY <3>1, <1>1, <1>2 DEF Erased
  <2>. QED BY <2>2, <2>3, <2>4, <1>5 DEF Conserved
<1>7. CASE ~Locked
  <2>1. ToSet(history') = {} /\ IsInjective(history') /\ past' = past \cup ToSet(history)
    BY <1>7, ForgottenHistory DEF Clears
  <2>2. InHand = {}
    BY <1>7, LockedHands
  <2>3. Once'
    BY <2>1, <1>2 DEF Conserved, Once
  <2>4. InPlace'
    BY <2>1, <1>1, <1>2, <1>4, SortCleared DEF InPlace
  <2>5. Erased'
    BY <2>1, <2>2, <1>1, <1>2 DEF Erased, Disjoint
  <2>. QED BY <2>3, <2>4, <2>5, <1>5 DEF Conserved
<1>. QED BY <1>6, <1>7

\* The steps of the loop, the user and the surroundings keep every message in one place.
LEMMA ElsewhereConserved == ASSUME Typed, Conserved, Elsewhere PROVE Conserved'
<1>1. \A u \in Task : task'[u].carry = task[u].carry
  BY BesideHands
<1>2. CASE DeliversBackground \/ Draws \/ Ticks \/ HandlesMessage \/ Exits
  <2>1. /\ UNCHANGED <<queue, history, entered, inbox, accepted, fates, clearing>>
        /\ Leaving' <=> Leaving
    BY <1>2 DEF DeliversBackground, Draws, Ticks, HandlesMessage, Exits, UI, Leaving, entry,
       arrivals
  <2>. QED BY <1>1, <2>1, ConservedStays
<1>3. ASSUME NEW pane \in Panes, AsksToCompact(pane) PROVE Conserved'
  <2>1. /\ UNCHANGED <<queue, history, entered, inbox, accepted, fates, clearing>>
        /\ Leaving' <=> Leaving
    BY <1>3 DEF AsksToCompact, UI, Leaving, arrivals
  <2>. QED BY <1>1, <2>1, ConservedStays
<1>4. ASSUME NEW r \in Result, WorkEnds(r) \/ ResultLands(r) PROVE Conserved'
  <2>1. /\ UNCHANGED <<queue, history, entered, inbox, accepted, fates, clearing>>
        /\ Leaving' <=> Leaving
    BY <1>4 DEF WorkEnds, ResultLands, Leaving, ui, entry, arrivals
  <2>. QED BY <1>1, <2>1, ConservedStays
<1>. QED
  BY <1>2, <1>3, <1>4, DeliversPeerConserved, ShutsConserved, SubmitsConserved,
     InterruptsConserved, ClearsConserved, QuitsConserved, WipesConserved, PeerSendsConserved
  DEF Elsewhere, LoopStep, Input, Arrival

\* At the start there is no message.
LEMMA ConservedInit == ASSUME Init PROVE Conserved
<1>1. \A t \in Task : task[t].carry = << >>
  BY GoneTyped DEF Init
<1>2. InHand = {}
  BY <1>1, NothingListed DEF InHand
<1>3. Queued = {} /\ ToSet(history) = {} /\ ToSet(inbox) = {}
  BY EmptyQueue, NothingListed DEF Init, Queued
<1>4. Once
  BY <1>1, EmptyQueue, NothingListed DEF Init, Once
<1>5. InPlace
  BY <1>2, <1>3 DEF Init, InPlace, Sorted, Disjoint
<1>6. InboxKept /\ Erased
  BY <1>2, <1>3, NothingListed DEF Init, InboxKept, Erased, Disjoint, Leaving
<1>. QED BY <1>4, <1>5, <1>6 DEF Conserved

\* Every step keeps every message in one place.
LEMMA ConservedStep == ASSUME Typed, OneHolds, Conserved, [Next]_vars PROVE Conserved'
<1>1. CASE UNCHANGED vars
  <2>1. UNCHANGED <<task, queue, history, entered, inbox, accepted, fates, clearing, loop>>
    BY <1>1 DEF vars, fates, clearing
  <2>. QED BY <2>1, ConservedStays DEF Leaving
<1>2. CASE Elsewhere
  BY <1>2, ElsewhereConserved
<1>3. ASSUME NEW t \in Task, TaskStep(t) PROVE Conserved'
  BY <1>3, TaskStepConserved
<1>. QED BY <1>1, <1>2, <1>3 DEF Next, Elsewhere

-----------------------------------------------------------------------------

\* A message of entered is in one of the nine places, counted once.
LEMMA OnePlace ==
  ASSUME InPlace, NEW m \in entered
  PROVE  Cardinality({i \in DOMAIN Places : m \in Places[i]}) = 1
<1>. DEFINE S == {i \in DOMAIN Places : m \in Places[i]}
<1>1. DOMAIN Places = 1..9
  BY DEF Places
<1>2. /\ Places[1] = Queued /\ Places[2] = ToSet(history) /\ Places[3] = InHand
      /\ Places[4] = composer /\ Places[5] = refused /\ Places[6] = discarded
      /\ Places[7] = OnlyReported /\ Places[8] = past /\ Places[9] = dropped
  BY DEF Places
<1>3. OnlyReported = undelivered \ (Queued \cup ToSet(history) \cup past)
  BY DEF OnlyReported
<1>4. \E k \in 1..9 : m \in Places[k]
  BY <1>2, <1>3 DEF InPlace, Sorted
<1>5. \A i, j \in 1..9 : m \in Places[i] /\ m \in Places[j] => i = j
  <2>1. \A i \in 1..9 : i \in {1, 2, 3, 4, 5, 6, 7, 8, 9}
    OBVIOUS
  <2>2. \A i, j \in {1, 2, 3, 4, 5, 6, 7, 8, 9} : m \in Places[i] /\ m \in Places[j] => i = j
    BY <1>2, <1>3 DEF InPlace, Sorted, Disjoint
  <2>. QED BY <2>1, <2>2
<1>6. PICK k \in 1..9 : m \in Places[k]
  BY <1>4
<1>7. S = {k}
  BY <1>1, <1>5, <1>6
<1>. QED BY <1>7, FS_Singleton

\* The invariant says what MessagesKept asks.
LEMMA KeptMessages == ASSUME Conserved PROVE MessagesKept
<1>1. \A m \in entered : Cardinality({i \in DOMAIN Places : m \in Places[i]}) = 1
  BY OnePlace DEF Conserved
<1>2. IsInjective(history)
  BY DEF Conserved, Once
<1>3. wipes = 0 => before \cap (Queued \cup InHand \cup ToSet(history)) = {}
  BY DEF Conserved, Erased, Disjoint
<1>. QED BY <1>1, <1>2, <1>3 DEF MessagesKept

\* The invariant says what PeersAccounted asks.
LEMMA AccountedPeers == ASSUME Typed, Conserved PROVE PeersAccounted
<1>. SUFFICES ASSUME loop = "exited", NEW m \in accepted
              PROVE  m \in ToSet(history) \cup past \cup discarded \cup undelivered \cup dropped
  BY DEF PeersAccounted
<1>1. ToSet(inbox) = {} /\ Queued \cap Peer \subseteq undelivered
  BY NothingListed DEF Conserved, InboxKept, Leaving
<1>2. m \in Peer /\ m \in entered \cup undelivered
  BY <1>1 DEF Typed, MailTyped, Conserved, InboxKept
<1>3. m \notin InHand /\ m \notin composer /\ m \notin refused
  BY <1>2, HeldIsHuman, KindsApart DEF Typed, FatesTyped
<1>. QED BY <1>1, <1>2, <1>3 DEF Conserved, InPlace, Sorted

\* Every message that entered the queue is in exactly one place, the history holds nothing
\* twice, and nothing queued before a finished clear waits or reaches the history
\* (MessagesKept).
THEOREM MessagesAreKept == Spec => []MessagesKept
<1>1. Init => Typed /\ OneHolds /\ Conserved
  BY TypedInit, LockInit, ConservedInit
<1>2. Typed /\ OneHolds /\ Conserved /\ [Next]_vars => (Typed /\ OneHolds /\ Conserved)'
  BY TypedStep, LockStep, ConservedStep
<1>3. Conserved => MessagesKept
  BY KeptMessages
<1>. QED BY <1>1, <1>2, <1>3, PTL DEF Spec

\* Once the app has exited, every message it accepted from another session was delivered,
\* discarded with a notice, reported, or dropped by a clear (PeersAccounted).
THEOREM PeersAreAccounted == Spec => []PeersAccounted
<1>1. Init => Typed /\ OneHolds /\ Conserved
  BY TypedInit, LockInit, ConservedInit
<1>2. Typed /\ OneHolds /\ Conserved /\ [Next]_vars => (Typed /\ OneHolds /\ Conserved)'
  BY TypedStep, LockStep, ConservedStep
<1>3. Typed /\ Conserved => PeersAccounted
  BY AccountedPeers
<1>. QED BY <1>1, <1>2, <1>3, PTL DEF Spec

=============================================================================
