-------------------------- MODULE Delegation_proofs --------------------------
(***************************************************************************)
(* The invariants of Delegation, for every set of jobs, every limit and    *)
(* every budget.                                                           *)
(***************************************************************************)
EXTENDS Delegation, FiniteSetTheorems, TLAPS

-----------------------------------------------------------------------------
(* The inductive invariant, by what its parts are about.                   *)

\* A job has a worker once its call has returned, and a row from then on.
CallsMatch ==
    \A j \in Job :
        /\ worker[j] # "none" <=> call[j] = "returned"
        /\ row[j] # "none" <=> call[j] = "returned"
        /\ call[j] \notin {"registered", "returned"} => entry[j].shown = "absent"

\* Outside its batch of tools the main agent has no call under way but those of an
\* interrupted turn, which are never built.
CallsAreBatched ==
    /\ parent # "tools" => cancelling = NoJob /\ \A j \in Job : Underway(j) => j \in stray
    /\ clearing => parent = "idle"

\* A worker's handle is kept, or the worker was aborted.
HandlesKept ==
    /\ \A j \in Job : Alive(j) => j \in handles \cup aborted
    /\ \A j \in handles \cup aborted : call[j] = "returned"
    /\ cancelling # NoJob => cancelling \in aborted

\* What a clear finds is aborted, or was being registered.
ClearFinds ==
    clearing => \A j \in Job :
        /\ call[j] \in {"built", "registered"} => j \in late
        /\ Alive(j) => j \in aborted \cup late
        /\ call[j] # "none" => j \in old

\* A clear makes all that was begun old; late are those it may have missed.
OldOnes ==
    /\ late \subseteq old
    /\ \A j \in old : call[j] # "none"
    /\ \A j \in old \ late :
          /\ ~(call[j] \in {"built", "registered"})
          /\ call[j] = "slot" => j \in stray
          /\ ~clearing => row[j] \in {"none", "gone"} /\ told[j] = 0

\* The entry of a job whose run goes on shows it running.
RunsAreShown ==
    \A j \in Job :
        /\ RunLive(j) => entry[j].shown = "running" \/ j \in late \cup aborted
        /\ entry[j].shown = "running" =>
              \/ RunLive(j)
              \/ worker[j] = "gone" /\ j \in broken /\ (clearing \/ j \in cut \cup {cancelling})

\* An aborted worker that never ran has an entry that shows it running only until
\* the task_cancel or the clear that aborted it goes on.
UnpolledIsOwed ==
    \A j \in aborted : worker[j] = "spawned" /\ entry[j].shown = "running" =>
        clearing \/ j \in cut \cup {cancelling}

\* A job's row and its result.
RowsTell ==
    \A j \in Job :
        /\ told[j] <= 1
        /\ told[j] > 0 => row[j] = "gone"
        /\ row[j] = "gone" /\ j \notin old => told[j] = 1 \/ j \in silenced
        /\ row[j] = "cancelled" => j \in silenced
        /\ j \in silenced => row[j] \in {"cancelled", "gone"} /\ told[j] = 0
        /\ row[j] = "running" /\ j \notin old => worker[j] \notin {"recorded", "gone"} \/ j \in aborted
        /\ j \in aborted => j \in old \cup cut \cup silenced \cup {cancelling} \/ told[j] = 1

Ind ==
    /\ TypeOK /\ CallsMatch /\ CallsAreBatched /\ HandlesKept /\ ClearFinds /\ OldOnes
    /\ RunsAreShown /\ UnpolledIsOwed /\ RowsTell
    /\ SlotsBound /\ OvershootBounded /\ SteersHeard

-----------------------------------------------------------------------------
(* The type invariant in parts.                                            *)

ControlType ==
    /\ parent \in {"idle", "top", "calling", "tools"}
    /\ call \in [Job -> {"none", "slot", "built", "registered", "returned", "refused", "failed"}]
    /\ cancelling \in Job \cup {NoJob}
    /\ row \in [Job -> {"none", "running", "done", "cancelled", "gone"}]
    /\ worker \in [Job -> {"none", "spawned", "begun", "top", "calling", "replied", "answered",
                           "saving", "recorded", "gone"}]
    /\ clearing \in BOOLEAN

SetsType ==
    /\ stray \subseteq Job /\ handles \subseteq Job /\ aborted \subseteq Job
    /\ broken \subseteq Job /\ silenced \subseteq Job /\ cut \subseteq Job
    /\ old \subseteq Job /\ late \subseteq Job

CountsType == used \in [Kinds -> Nat] /\ spent \in Nat /\ told \in [Job -> Nat]

EntryType == entry \in [Job -> [shown : {"absent", "running", "idle"}, delivered : BOOLEAN]]

MessagesType ==
    /\ queue \in [Job -> Seq(Steer \cup {Brief})]
    /\ heard \in [Job -> SUBSET (Steer \cup {Brief})]
    /\ said \in SUBSET (Steer \X Job)

PlanType ==
    plan \in [jobs : SUBSET Job, steers : SUBSET Steer, cancels : Nat, interrupts : Nat,
              clears : Nat]

LEMMA TypeParts ==
    TypeOK <=> ControlType /\ SetsType /\ CountsType /\ EntryType /\ MessagesType /\ PlanType
BY DEF TypeOK, ControlType, SetsType, CountsType, EntryType, MessagesType, PlanType

-----------------------------------------------------------------------------
(* The initial states.                                                     *)

LEMMA InitInd == Init => Ind
<1> SUFFICES ASSUME Init PROVE Ind
  OBVIOUS
<1>1. TypeOK
  <2>1. ControlType /\ SetsType /\ CountsType /\ EntryType
    BY DEF Init, ControlType, SetsType, CountsType, EntryType, Absent
  <2>2. MessagesType
    BY DEF Init, MessagesType
  <2>3. PlanType
    BY PlansAssumption DEF Init, PlanType
  <2> QED
    BY <2>1, <2>2, <2>3, TypeParts
<1>2. SlotsBound
  <2> SUFFICES ASSUME NEW k \in Kinds
               PROVE used[k] = Cardinality(Holders(k)) /\ used[k] <= Cap[k]
    BY DEF SlotsBound
  <2>1. Holders(k) = {}
    BY DEF Init, Holders, Underway, Alive
  <2>2. Cardinality(Holders(k)) = 0
    BY <2>1, FS_EmptySet
  <2> QED
    BY <2>2, LimitsAssumption DEF Init
<1>3. OvershootBounded
  <2>1. InFlight = {}
    BY DEF Init, InFlight
  <2>2. Cardinality(InFlight) = 0
    BY <2>1, FS_EmptySet
  <2> QED
    BY <2>2, LimitsAssumption DEF OvershootBounded, Init, Kinds
<1>4. /\ CallsMatch /\ CallsAreBatched /\ HandlesKept /\ ClearFinds /\ OldOnes
      /\ UnpolledIsOwed /\ RowsTell /\ SteersHeard
  BY DEF Init, CallsMatch, CallsAreBatched, HandlesKept, ClearFinds, OldOnes, UnpolledIsOwed,
     RowsTell, SteersHeard, Absent, Underway, Alive
<1>5. RunsAreShown
  BY DEF Init, RunsAreShown, RunLive, Underway, Guarded, Absent
<1> QED
  BY <1>1, <1>2, <1>3, <1>4, <1>5 DEF Ind

-----------------------------------------------------------------------------
(* Slots.                                                                  *)

LEMMA HoldersFinite ==
    ASSUME NEW k \in Kinds
    PROVE  IsFiniteSet(Holders(k)) /\ Cardinality(Holders(k)) \in Nat
<1>1. Holders(k) \subseteq Job
  BY DEF Holders
<1> QED
  BY <1>1, FS_Subset, FS_CardinalityType, JobsAssumption

LEMMA KindType == ASSUME NEW j \in Job PROVE Kind(j) \in Kinds
BY DEF Kind, Kinds

\* A holder has a slot to return.
LEMMA HolderHasSlot ==
    ASSUME TypeOK, SlotsBound, NEW j \in Job, Underway(j) \/ Alive(j)
    PROVE  used[Kind(j)] \in Nat \ {0}
<1> DEFINE k == Kind(j)
<1>1. j \in Holders(k)
  BY DEF Holders
<1>2. Cardinality(Holders(k)) # 0
  BY <1>1, FS_EmptySet, HoldersFinite, KindType
<1> QED
  BY <1>2, KindType, HoldersFinite DEF SlotsBound

-----------------------------------------------------------------------------
(* Types.                                                                  *)

LEMMA TypeStep == ASSUME TypeOK, SlotsBound, [Next]_vars PROVE TypeOK'
<1> USE TypeParts DEF vars, budget, seen, ghosts
<1>0. ControlType /\ SetsType /\ CountsType /\ EntryType /\ MessagesType /\ PlanType
  OBVIOUS
<1> SUFFICES ControlType' /\ SetsType' /\ CountsType' /\ EntryType' /\ MessagesType' /\ PlanType'
  BY DEF TypeOK, ControlType, SetsType, CountsType, EntryType, MessagesType, PlanType
<1>1. CASE UNCHANGED vars
  BY <1>0, <1>1 DEF ControlType, SetsType, CountsType, EntryType, MessagesType, PlanType
<1>2. ASSUME NEW j \in Job, Delegates(j)
      PROVE  ControlType' /\ SetsType' /\ CountsType' /\ EntryType' /\ MessagesType' /\ PlanType'
  <2>1. ControlType'
    BY <1>0, <1>2 DEF ControlType, Delegates, TakesSlot, Refused, Kind, Kinds
  <2>2. SetsType'
    BY <1>0, <1>2 DEF SetsType, Delegates, TakesSlot, Refused, Kind, Kinds
  <2>3. CountsType'
    BY <1>0, <1>2 DEF CountsType, Delegates, TakesSlot, Refused, Kind, Kinds
  <2>4. EntryType'
    BY <1>0, <1>2 DEF EntryType, Delegates, TakesSlot, Refused, Kind, Kinds
  <2>5. MessagesType'
    BY <1>0, <1>2 DEF MessagesType, Delegates, TakesSlot, Refused, Kind, Kinds
  <2>6. PlanType'
    BY <1>0, <1>2 DEF PlanType, Delegates, TakesSlot, Refused, Kind, Kinds
  <2> QED
    BY <2>1, <2>2, <2>3, <2>4, <2>5, <2>6
<1>3. ASSUME NEW j \in Job, Builds(j)
      PROVE  ControlType' /\ SetsType' /\ CountsType' /\ EntryType' /\ MessagesType' /\ PlanType'
  BY <1>0, <1>3 DEF ControlType, SetsType, CountsType, EntryType, MessagesType, PlanType,
     Builds
<1>4. ASSUME NEW j \in Job, DropsCall(j)
      PROVE  ControlType' /\ SetsType' /\ CountsType' /\ EntryType' /\ MessagesType' /\ PlanType'
  <2>1. ControlType'
    BY <1>0, <1>4 DEF ControlType, DropsCall, ReturnsSlot
  <2>2. SetsType'
    BY <1>0, <1>4 DEF SetsType, DropsCall, ReturnsSlot
  <2>a. used[Kind(j)] \in Nat \ {0}
    BY <1>4, HolderHasSlot DEF DropsCall, Underway, Alive
  <2>3. CountsType'
    BY <1>0, <1>4, <2>a, KindType DEF CountsType, DropsCall, ReturnsSlot
  <2>4. EntryType'
    BY <1>0, <1>4 DEF EntryType, DropsCall, ReturnsSlot
  <2>5. MessagesType'
    BY <1>0, <1>4 DEF MessagesType, DropsCall, ReturnsSlot
  <2>6. PlanType'
    BY <1>0, <1>4 DEF PlanType, DropsCall, ReturnsSlot
  <2> QED
    BY <2>1, <2>2, <2>3, <2>4, <2>5, <2>6
<1>5. ASSUME NEW j \in Job, Registers(j)
      PROVE  ControlType' /\ SetsType' /\ CountsType' /\ EntryType' /\ MessagesType' /\ PlanType'
  BY <1>0, <1>5 DEF ControlType, SetsType, CountsType, EntryType, MessagesType, PlanType,
     Registers
<1>6. ASSUME NEW j \in Job, Publishes(j)
      PROVE  ControlType' /\ SetsType' /\ CountsType' /\ EntryType' /\ MessagesType' /\ PlanType'
  BY <1>0, <1>6 DEF ControlType, SetsType, CountsType, EntryType, MessagesType, PlanType,
     Publishes, Unfinished
<1>7. ASSUME NEW j \in Job, Begins(j)
      PROVE  ControlType' /\ SetsType' /\ CountsType' /\ EntryType' /\ MessagesType' /\ PlanType'
  <2>1. ControlType'
    BY <1>0, <1>7 DEF ControlType, Begins, Steps, Shows
  <2>2. SetsType'
    BY <1>0, <1>7 DEF SetsType, Begins, Steps, Shows
  <2>3. CountsType'
    BY <1>0, <1>7 DEF CountsType, Begins, Steps, Shows
  <2>4. EntryType'
    BY <1>0, <1>7 DEF EntryType, Begins, Steps, Shows
  <2>5. MessagesType'
    BY <1>0, <1>7 DEF MessagesType, Begins, Steps, Shows
  <2>6. PlanType'
    BY <1>0, <1>7 DEF PlanType, Begins, Steps, Shows
  <2> QED
    BY <2>1, <2>2, <2>3, <2>4, <2>5, <2>6
<1>8. ASSUME NEW j \in Job, Opens(j)
      PROVE  ControlType' /\ SetsType' /\ CountsType' /\ EntryType' /\ MessagesType' /\ PlanType'
  <2>1. ControlType'
    BY <1>0, <1>8 DEF ControlType, Opens, Breaks, Shows
  <2>2. SetsType'
    BY <1>0, <1>8 DEF SetsType, Opens, Breaks, Shows
  <2>3. CountsType'
    BY <1>0, <1>8 DEF CountsType, Opens, Breaks, Shows
  <2>4. EntryType'
    BY <1>0, <1>8 DEF EntryType, Opens, Breaks, Shows
  <2>5. MessagesType'
    <3> DEFINE opener == {queue[j][i] : i \in {1} \cap DOMAIN queue[j]}
    <3>1. queue[j] \in Seq(Steer \cup {Brief})
      BY <1>0 DEF MessagesType
    <3>2. opener \subseteq Steer \cup {Brief}
      BY <3>1
    <3>3. opener # {} => Tail(queue[j]) \in Seq(Steer \cup {Brief})
      <4>1. opener # {} => queue[j] # << >>
        OBVIOUS
      <4> QED
        BY <3>1, <4>1
    <3>4. /\ queue' = IF opener = {} THEN queue ELSE [queue EXCEPT ![j] = Tail(queue[j])]
          /\ heard' = heard \/ heard' = [heard EXCEPT ![j] = heard[j] \cup opener]
          /\ said' = said
      BY <1>8 DEF Opens, Breaks
    <3> HIDE DEF opener
    <3> QED
      BY <1>0, <3>2, <3>3, <3>4 DEF MessagesType
  <2>6. PlanType'
    BY <1>0, <1>8 DEF PlanType, Opens, Breaks, Shows
  <2> QED
    BY <2>1, <2>2, <2>3, <2>4, <2>5, <2>6
<1>9. ASSUME NEW j \in Job, Round(j)
      PROVE  ControlType' /\ SetsType' /\ CountsType' /\ EntryType' /\ MessagesType' /\ PlanType'
  <2>1. ControlType'
    BY <1>0, <1>9 DEF ControlType, Round, Breaks, Shows, WithinBudget
  <2>2. SetsType'
    BY <1>0, <1>9 DEF SetsType, Round, Breaks, Shows, WithinBudget
  <2>3. CountsType'
    BY <1>0, <1>9 DEF CountsType, Round, Breaks, Shows, WithinBudget
  <2>4. EntryType'
    BY <1>0, <1>9 DEF EntryType, Round, Breaks, Shows, WithinBudget
  <2>5. MessagesType'
    <3>1. ToSet(queue[j]) \subseteq Steer \cup {Brief}
      BY <1>0 DEF MessagesType, ToSet
    <3> QED
      BY <1>0, <1>9, <3>1 DEF MessagesType, Round
  <2>6. PlanType'
    BY <1>0, <1>9 DEF PlanType, Round, Breaks, Shows, WithinBudget
  <2> QED
    BY <2>1, <2>2, <2>3, <2>4, <2>5, <2>6
<1>10. ASSUME NEW j \in Job, Fails(j)
      PROVE  ControlType' /\ SetsType' /\ CountsType' /\ EntryType' /\ MessagesType' /\ PlanType'
  BY <1>0, <1>10 DEF ControlType, SetsType, CountsType, EntryType, MessagesType, PlanType,
     Fails, Breaks, Shows
<1>11. ASSUME NEW j \in Job, Replies(j)
      PROVE  ControlType' /\ SetsType' /\ CountsType' /\ EntryType' /\ MessagesType' /\ PlanType'
  BY <1>0, <1>11 DEF ControlType, SetsType, CountsType, EntryType, MessagesType, PlanType,
     Replies, Steps
<1>12. ASSUME NEW j \in Job, Accounts(j)
      PROVE  ControlType' /\ SetsType' /\ CountsType' /\ EntryType' /\ MessagesType' /\ PlanType'
  <2>1. ControlType'
    BY <1>0, <1>12 DEF ControlType, Accounts, Steps
  <2>2. SetsType'
    BY <1>0, <1>12 DEF SetsType, Accounts, Steps
  <2>3. CountsType'
    BY <1>0, <1>12 DEF CountsType, Accounts, Steps
  <2>4. EntryType'
    BY <1>0, <1>12 DEF EntryType, Accounts, Steps
  <2>5. MessagesType'
    BY <1>0, <1>12 DEF MessagesType, Accounts, Steps
  <2>6. PlanType'
    BY <1>0, <1>12 DEF PlanType, Accounts, Steps
  <2> QED
    BY <2>1, <2>2, <2>3, <2>4, <2>5, <2>6
<1>13. ASSUME NEW j \in Job, FinishesOrContinues(j)
      PROVE  ControlType' /\ SetsType' /\ CountsType' /\ EntryType' /\ MessagesType' /\ PlanType'
  <2>1. ControlType'
    BY <1>0, <1>13 DEF ControlType, FinishesOrContinues, Steps, Shows
  <2>2. SetsType'
    BY <1>0, <1>13 DEF SetsType, FinishesOrContinues, Steps, Shows
  <2>3. CountsType'
    BY <1>0, <1>13 DEF CountsType, FinishesOrContinues, Steps, Shows
  <2>4. EntryType'
    BY <1>0, <1>13 DEF EntryType, FinishesOrContinues, Steps, Shows
  <2>5. MessagesType'
    BY <1>0, <1>13 DEF MessagesType, FinishesOrContinues, Steps, Shows
  <2>6. PlanType'
    BY <1>0, <1>13 DEF PlanType, FinishesOrContinues, Steps, Shows
  <2> QED
    BY <2>1, <2>2, <2>3, <2>4, <2>5, <2>6
<1>14. ASSUME NEW j \in Job, Records(j)
      PROVE  ControlType' /\ SetsType' /\ CountsType' /\ EntryType' /\ MessagesType' /\ PlanType'
  BY <1>0, <1>14 DEF ControlType, SetsType, CountsType, EntryType, MessagesType, PlanType,
     Records, Steps
<1>15. ASSUME NEW j \in Job, Leaves(j)
      PROVE  ControlType' /\ SetsType' /\ CountsType' /\ EntryType' /\ MessagesType' /\ PlanType'
  <2>1. ControlType'
    BY <1>0, <1>15 DEF ControlType, Leaves, Steps, Shows, ReturnsSlot
  <2>2. SetsType'
    BY <1>0, <1>15 DEF SetsType, Leaves, Steps, Shows, ReturnsSlot
  <2>a. used[Kind(j)] \in Nat \ {0}
    BY <1>15, HolderHasSlot DEF Leaves, Underway, Alive, Steps
  <2>3. CountsType'
    BY <1>0, <1>15, <2>a, KindType DEF CountsType, Leaves, Steps, Shows, ReturnsSlot
  <2>4. EntryType'
    BY <1>0, <1>15 DEF EntryType, Leaves, Steps, Shows, ReturnsSlot
  <2>5. MessagesType'
    BY <1>0, <1>15 DEF MessagesType, Leaves, Steps, Shows, ReturnsSlot
  <2>6. PlanType'
    BY <1>0, <1>15 DEF PlanType, Leaves, Steps, Shows, ReturnsSlot
  <2> QED
    BY <2>1, <2>2, <2>3, <2>4, <2>5, <2>6
<1>16. ASSUME NEW j \in Job, Dies(j)
      PROVE  ControlType' /\ SetsType' /\ CountsType' /\ EntryType' /\ MessagesType' /\ PlanType'
  <2>1. ControlType'
    BY <1>0, <1>16 DEF ControlType, Dies, Shows, ReturnsSlot
  <2>2. SetsType'
    BY <1>0, <1>16 DEF SetsType, Dies, Shows, ReturnsSlot
  <2>a. used[Kind(j)] \in Nat \ {0}
    BY <1>16, HolderHasSlot DEF Dies, Underway, Alive, Waiting
  <2>3. CountsType'
    BY <1>0, <1>16, <2>a, KindType DEF CountsType, Dies, Shows, ReturnsSlot
  <2>4. EntryType'
    BY <1>0, <1>16 DEF EntryType, Dies, Shows, ReturnsSlot
  <2>5. MessagesType'
    BY <1>0, <1>16 DEF MessagesType, Dies, Shows, ReturnsSlot
  <2>6. PlanType'
    BY <1>0, <1>16 DEF PlanType, Dies, Shows, ReturnsSlot
  <2> QED
    BY <2>1, <2>2, <2>3, <2>4, <2>5, <2>6
<1>17. ASSUME NEW j \in Job, Cancels(j)
      PROVE  ControlType' /\ SetsType' /\ CountsType' /\ EntryType' /\ MessagesType' /\ PlanType'
  <2>1. ControlType'
    BY <1>0, <1>17 DEF ControlType, Cancels, Marks
  <2>2. SetsType'
    BY <1>0, <1>17 DEF SetsType, Cancels, Marks
  <2>3. CountsType'
    BY <1>0, <1>17 DEF CountsType, Cancels, Marks
  <2>4. EntryType'
    <3>1. CASE j \in handles
      BY <1>0, <1>17, <3>1 DEF EntryType, Cancels
    <3>2. CASE j \notin handles
      <4> DEFINE shown == 
              IF entry[j].shown = "absent" THEN entry[j] ELSE [shown |-> "idle", delivered |-> TRUE]
      <4>1. shown \in [shown : {"absent", "running", "idle"}, delivered : BOOLEAN]
        BY <1>0 DEF EntryType
      <4>2. entry' = [entry EXCEPT ![j] = shown]
        BY <1>17, <3>2 DEF Cancels, Marks
      <4> HIDE DEF shown
      <4> QED
        BY <1>0, <4>1, <4>2 DEF EntryType
    <3> QED
      BY <3>1, <3>2
  <2>5. MessagesType'
    BY <1>0, <1>17 DEF MessagesType, Cancels, Marks
  <2>6. PlanType'
    BY <1>0, <1>17 DEF PlanType, Cancels, Marks
  <2> QED
    BY <2>1, <2>2, <2>3, <2>4, <2>5, <2>6
<1>18. ASSUME NEW j \in Job, NEW s \in Steer, Steers(j, s)
      PROVE  ControlType' /\ SetsType' /\ CountsType' /\ EntryType' /\ MessagesType' /\ PlanType'
  <2>1. ControlType'
    BY <1>0, <1>18 DEF ControlType, Steers, Sends
  <2>2. SetsType'
    BY <1>0, <1>18 DEF SetsType, Steers, Sends
  <2>3. CountsType'
    BY <1>0, <1>18 DEF CountsType, Steers, Sends
  <2>4. EntryType'
    BY <1>0, <1>18 DEF EntryType, Steers, Sends
  <2>5. MessagesType'
    <3>1. CASE entry[j].shown = "running"
      <4>1. queue[j] \in Seq(Steer \cup {Brief})
        BY <1>0 DEF MessagesType
      <4>2. Append(queue[j], s) \in Seq(Steer \cup {Brief})
        BY <4>1
      <4>3. queue' = [queue EXCEPT ![j] = Append(queue[j], s)] /\ said' = said \cup {<<s, j>>}
        BY <1>18, <3>1 DEF Steers, Sends
      <4> QED
        BY <1>0, <1>18, <4>2, <4>3 DEF MessagesType, Steers, Sends
    <3>2. CASE entry[j].shown # "running"
      BY <1>0, <1>18, <3>2 DEF MessagesType, Steers, Sends
    <3> QED
      BY <3>1, <3>2
  <2>6. PlanType'
    BY <1>0, <1>18 DEF PlanType, Steers, Sends
  <2> QED
    BY <2>1, <2>2, <2>3, <2>4, <2>5, <2>6
<1>19. CASE ParentBegins
  BY <1>0, <1>19 DEF ControlType, SetsType, CountsType, EntryType, MessagesType, PlanType,
     ParentBegins, ParentGoes
<1>20. CASE ParentRound
  <2>1. ControlType'
    BY <1>0, <1>20 DEF ControlType, ParentRound, Folds, Landed, WithinBudget
  <2>2. SetsType'
    BY <1>0, <1>20 DEF SetsType, ParentRound, Folds, Landed, WithinBudget
  <2>3. CountsType'
    BY <1>0, <1>20 DEF CountsType, ParentRound, Folds, Landed, WithinBudget
  <2>4. EntryType'
    BY <1>0, <1>20 DEF EntryType, ParentRound, Folds, Landed, WithinBudget
  <2>5. MessagesType'
    BY <1>0, <1>20 DEF MessagesType, ParentRound, Folds, Landed, WithinBudget
  <2>6. PlanType'
    BY <1>0, <1>20 DEF PlanType, ParentRound, Folds, Landed, WithinBudget
  <2> QED
    BY <2>1, <2>2, <2>3, <2>4, <2>5, <2>6
<1>21. CASE ParentCallsTools
  BY <1>0, <1>21 DEF ControlType, SetsType, CountsType, EntryType, MessagesType, PlanType,
     ParentCallsTools, ParentGoes
<1>22. CASE ParentAnswers
  BY <1>0, <1>22 DEF ControlType, SetsType, CountsType, EntryType, MessagesType, PlanType,
     ParentAnswers, ParentGoes, Absent, Unfinished
<1>23. CASE ParentFinishesTools
  BY <1>0, <1>23 DEF ControlType, SetsType, CountsType, EntryType, MessagesType, PlanType,
     ParentFinishesTools, ParentGoes
<1>24. CASE Cancelled
  BY <1>0, <1>24 DEF ControlType, SetsType, CountsType, EntryType, MessagesType, PlanType,
     Cancelled, Marks
<1>25. CASE Interrupts
  <2>1. ControlType'
    BY <1>0, <1>25 DEF ControlType, Interrupts
  <2>2. SetsType'
    BY <1>0, <1>25 DEF SetsType, ControlType, Interrupts
  <2>3. CountsType'
    BY <1>0, <1>25 DEF CountsType, Interrupts
  <2>4. EntryType'
    BY <1>0, <1>25 DEF EntryType, Interrupts
  <2>5. MessagesType'
    BY <1>0, <1>25 DEF MessagesType, Interrupts
  <2>6. PlanType'
    BY <1>0, <1>25 DEF PlanType, Interrupts
  <2> QED
    BY <2>1, <2>2, <2>3, <2>4, <2>5, <2>6
<1>26. CASE ClearAborts
  <2>1. ControlType'
    BY <1>0, <1>26 DEF ControlType, ClearAborts
  <2>2. SetsType'
    BY <1>0, <1>26 DEF SetsType, ClearAborts
  <2>3. CountsType'
    BY <1>0, <1>26 DEF CountsType, ClearAborts
  <2>4. EntryType'
    BY <1>0, <1>26 DEF EntryType, ClearAborts
  <2>5. MessagesType'
    BY <1>0, <1>26 DEF MessagesType, ClearAborts
  <2>6. PlanType'
    BY <1>0, <1>26 DEF PlanType, ClearAborts
  <2> QED
    BY <2>1, <2>2, <2>3, <2>4, <2>5, <2>6
<1>27. CASE ClearForgets
  BY <1>0, <1>27 DEF ControlType, SetsType, CountsType, EntryType, MessagesType, PlanType,
     ClearForgets, Absent
<1> QED
  BY <1>1, <1>2, <1>3, <1>4, <1>5, <1>6, <1>7, <1>8, <1>9, <1>10, <1>11, <1>12, <1>13, <1>14,
     <1>15, <1>16, <1>17, <1>18, <1>19, <1>20, <1>21, <1>22, <1>23, <1>24, <1>25, <1>26, <1>27
     DEF Next, ParentStep, CallStep, WorkerStep

-----------------------------------------------------------------------------
(* Each part of the invariant is kept, by those its lemma assumes.          *)

LEMMA CallsStep == ASSUME TypeOK, CallsMatch, [Next]_vars PROVE CallsMatch'
<1> USE DEF vars, budget, seen, ghosts
<1>1. CASE UNCHANGED vars
  BY <1>1 DEF TypeOK, CallsMatch
<1>2. ASSUME NEW j \in Job, Delegates(j) PROVE CallsMatch'
  BY <1>2 DEF TypeOK, CallsMatch, Delegates, TakesSlot, Refused
<1>3. ASSUME NEW j \in Job, Builds(j) PROVE CallsMatch'
  BY <1>3 DEF TypeOK, CallsMatch, Builds
<1>4. ASSUME NEW j \in Job, DropsCall(j) PROVE CallsMatch'
  BY <1>4 DEF TypeOK, CallsMatch, DropsCall, ReturnsSlot
<1>5. ASSUME NEW j \in Job, Registers(j) PROVE CallsMatch'
  BY <1>5 DEF TypeOK, CallsMatch, Registers
<1>6. ASSUME NEW j \in Job, Publishes(j) PROVE CallsMatch'
  BY <1>6 DEF TypeOK, CallsMatch, Publishes, Unfinished
<1>7. ASSUME NEW j \in Job, Begins(j) PROVE CallsMatch'
  BY <1>7 DEF TypeOK, CallsMatch, Begins, Steps, Shows
<1>8. ASSUME NEW j \in Job, Opens(j) PROVE CallsMatch'
  BY <1>8 DEF TypeOK, CallsMatch, Opens, Breaks, Shows
<1>9. ASSUME NEW j \in Job, Round(j) PROVE CallsMatch'
  BY <1>9 DEF TypeOK, CallsMatch, Round, Breaks, Shows
<1>10. ASSUME NEW j \in Job, Fails(j) PROVE CallsMatch'
  BY <1>10 DEF TypeOK, CallsMatch, Fails, Breaks, Shows
<1>11. ASSUME NEW j \in Job, Replies(j) PROVE CallsMatch'
  BY <1>11 DEF TypeOK, CallsMatch, Replies, Steps
<1>12. ASSUME NEW j \in Job, Accounts(j) PROVE CallsMatch'
  BY <1>12 DEF TypeOK, CallsMatch, Accounts, Steps
<1>13. ASSUME NEW j \in Job, FinishesOrContinues(j) PROVE CallsMatch'
  BY <1>13 DEF TypeOK, CallsMatch, FinishesOrContinues, Steps, Shows
<1>14. ASSUME NEW j \in Job, Records(j) PROVE CallsMatch'
  BY <1>14 DEF TypeOK, CallsMatch, Records, Steps
<1>15. ASSUME NEW j \in Job, Leaves(j) PROVE CallsMatch'
  BY <1>15 DEF TypeOK, CallsMatch, Leaves, Steps, Shows, ReturnsSlot
<1>16. ASSUME NEW j \in Job, Dies(j) PROVE CallsMatch'
  BY <1>16 DEF TypeOK, CallsMatch, Dies, Waiting, Shows, ReturnsSlot
<1>17. ASSUME NEW j \in Job, Cancels(j) PROVE CallsMatch'
  BY <1>17 DEF TypeOK, CallsMatch, Cancels, Marks
<1>18. ASSUME NEW j \in Job, NEW s \in Steer, Steers(j, s) PROVE CallsMatch'
  BY <1>18 DEF TypeOK, CallsMatch, Steers, Sends
<1>19. CASE ParentBegins
  BY <1>19 DEF TypeOK, CallsMatch, ParentBegins, ParentGoes
<1>20. CASE ParentRound
  BY <1>20 DEF TypeOK, CallsMatch, ParentRound, Folds, Landed
<1>21. CASE ParentCallsTools
  BY <1>21 DEF TypeOK, CallsMatch, ParentCallsTools, ParentGoes
<1>22. CASE ParentAnswers
  BY <1>22 DEF TypeOK, CallsMatch, ParentAnswers, ParentGoes, Absent, Unfinished
<1>23. CASE ParentFinishesTools
  BY <1>23 DEF TypeOK, CallsMatch, ParentFinishesTools, ParentGoes
<1>24. CASE Cancelled
  BY <1>24 DEF TypeOK, CallsMatch, Cancelled, Marks
<1>25. CASE Interrupts
  BY <1>25 DEF TypeOK, CallsMatch, Interrupts
<1>26. CASE ClearAborts
  BY <1>26 DEF TypeOK, CallsMatch, ClearAborts
<1>27. CASE ClearForgets
  BY <1>27 DEF TypeOK, CallsMatch, ClearForgets, Absent
<1> QED
  BY <1>1, <1>2, <1>3, <1>4, <1>5, <1>6, <1>7, <1>8, <1>9, <1>10, <1>11, <1>12, <1>13, <1>14,
     <1>15, <1>16, <1>17, <1>18, <1>19, <1>20, <1>21, <1>22, <1>23, <1>24, <1>25, <1>26, <1>27
     DEF Next, ParentStep, CallStep, WorkerStep

LEMMA BatchStep == ASSUME TypeOK, CallsAreBatched, [Next]_vars PROVE CallsAreBatched'
<1> USE DEF vars, budget, seen, ghosts
<1>1. CASE UNCHANGED vars
  BY <1>1 DEF TypeOK, CallsAreBatched, Underway, Alone, Batch
<1>2. ASSUME NEW j \in Job, Delegates(j) PROVE CallsAreBatched'
  BY <1>2 DEF TypeOK, CallsAreBatched, Underway, Alone, Batch, Delegates, TakesSlot, Refused
<1>3. ASSUME NEW j \in Job, Builds(j) PROVE CallsAreBatched'
  BY <1>3 DEF TypeOK, CallsAreBatched, Underway, Alone, Batch, Builds
<1>4. ASSUME NEW j \in Job, DropsCall(j) PROVE CallsAreBatched'
  BY <1>4 DEF TypeOK, CallsAreBatched, Underway, Alone, Batch, DropsCall, ReturnsSlot
<1>5. ASSUME NEW j \in Job, Registers(j) PROVE CallsAreBatched'
  BY <1>5 DEF TypeOK, CallsAreBatched, Underway, Alone, Batch, Registers
<1>6. ASSUME NEW j \in Job, Publishes(j) PROVE CallsAreBatched'
  BY <1>6 DEF TypeOK, CallsAreBatched, Underway, Alone, Batch, Publishes, Unfinished
<1>7. ASSUME NEW j \in Job, Begins(j) PROVE CallsAreBatched'
  BY <1>7 DEF TypeOK, CallsAreBatched, Underway, Alone, Batch, Begins, Steps, Shows
<1>8. ASSUME NEW j \in Job, Opens(j) PROVE CallsAreBatched'
  BY <1>8 DEF TypeOK, CallsAreBatched, Underway, Alone, Batch, Opens, Breaks, Shows
<1>9. ASSUME NEW j \in Job, Round(j) PROVE CallsAreBatched'
  BY <1>9 DEF TypeOK, CallsAreBatched, Underway, Alone, Batch, Round, Breaks, Shows
<1>10. ASSUME NEW j \in Job, Fails(j) PROVE CallsAreBatched'
  BY <1>10 DEF TypeOK, CallsAreBatched, Underway, Alone, Batch, Fails, Breaks, Shows
<1>11. ASSUME NEW j \in Job, Replies(j) PROVE CallsAreBatched'
  BY <1>11 DEF TypeOK, CallsAreBatched, Underway, Alone, Batch, Replies, Steps
<1>12. ASSUME NEW j \in Job, Accounts(j) PROVE CallsAreBatched'
  BY <1>12 DEF TypeOK, CallsAreBatched, Underway, Alone, Batch, Accounts, Steps
<1>13. ASSUME NEW j \in Job, FinishesOrContinues(j) PROVE CallsAreBatched'
  BY <1>13 DEF TypeOK, CallsAreBatched, Underway, Alone, Batch, FinishesOrContinues, Steps,
     Shows
<1>14. ASSUME NEW j \in Job, Records(j) PROVE CallsAreBatched'
  BY <1>14 DEF TypeOK, CallsAreBatched, Underway, Alone, Batch, Records, Steps
<1>15. ASSUME NEW j \in Job, Leaves(j) PROVE CallsAreBatched'
  BY <1>15 DEF TypeOK, CallsAreBatched, Underway, Alone, Batch, Leaves, Steps, Shows,
     ReturnsSlot
<1>16. ASSUME NEW j \in Job, Dies(j) PROVE CallsAreBatched'
  BY <1>16 DEF TypeOK, CallsAreBatched, Underway, Alone, Batch, Dies, Waiting, Shows,
     ReturnsSlot
<1>17. ASSUME NEW j \in Job, Cancels(j) PROVE CallsAreBatched'
  BY <1>17 DEF TypeOK, CallsAreBatched, Underway, Alone, Batch, Cancels, Marks
<1>18. ASSUME NEW j \in Job, NEW s \in Steer, Steers(j, s) PROVE CallsAreBatched'
  BY <1>18 DEF TypeOK, CallsAreBatched, Underway, Alone, Batch, Steers, Sends
<1>19. CASE ParentBegins
  BY <1>19 DEF TypeOK, CallsAreBatched, Underway, Alone, Batch, ParentBegins, ParentGoes
<1>20. CASE ParentRound
  BY <1>20 DEF TypeOK, CallsAreBatched, Underway, Alone, Batch, ParentRound, Folds, Landed
<1>21. CASE ParentCallsTools
  BY <1>21 DEF TypeOK, CallsAreBatched, Underway, Alone, Batch, ParentCallsTools, ParentGoes
<1>22. CASE ParentAnswers
  BY <1>22 DEF TypeOK, CallsAreBatched, Underway, Alone, Batch, ParentAnswers, ParentGoes,
     Absent, Unfinished
<1>23. CASE ParentFinishesTools
  BY <1>23 DEF TypeOK, CallsAreBatched, Underway, Alone, Batch, ParentFinishesTools, ParentGoes
<1>24. CASE Cancelled
  BY <1>24 DEF TypeOK, CallsAreBatched, Underway, Alone, Batch, Cancelled, Marks
<1>25. CASE Interrupts
  BY <1>25 DEF TypeOK, CallsAreBatched, Underway, Alone, Batch, Interrupts
<1>26. CASE ClearAborts
  BY <1>26 DEF TypeOK, CallsAreBatched, Underway, Alone, Batch, ClearAborts
<1>27. CASE ClearForgets
  BY <1>27 DEF TypeOK, CallsAreBatched, Underway, Alone, Batch, ClearForgets, Absent
<1> QED
  BY <1>1, <1>2, <1>3, <1>4, <1>5, <1>6, <1>7, <1>8, <1>9, <1>10, <1>11, <1>12, <1>13, <1>14,
     <1>15, <1>16, <1>17, <1>18, <1>19, <1>20, <1>21, <1>22, <1>23, <1>24, <1>25, <1>26, <1>27
     DEF Next, ParentStep, CallStep, WorkerStep

LEMMA HandlesStep == ASSUME TypeOK, CallsMatch, HandlesKept, [Next]_vars PROVE HandlesKept'
<1> USE DEF vars, budget, seen, ghosts
<1>1. CASE UNCHANGED vars
  BY <1>1 DEF TypeOK, CallsMatch, HandlesKept, Alive
<1>2. ASSUME NEW j \in Job, Delegates(j) PROVE HandlesKept'
  BY <1>2 DEF TypeOK, CallsMatch, HandlesKept, Alive, Delegates, TakesSlot, Refused
<1>3. ASSUME NEW j \in Job, Builds(j) PROVE HandlesKept'
  BY <1>3 DEF TypeOK, CallsMatch, HandlesKept, Alive, Builds
<1>4. ASSUME NEW j \in Job, DropsCall(j) PROVE HandlesKept'
  BY <1>4 DEF TypeOK, CallsMatch, HandlesKept, Alive, DropsCall, ReturnsSlot
<1>5. ASSUME NEW j \in Job, Registers(j) PROVE HandlesKept'
  BY <1>5 DEF TypeOK, CallsMatch, HandlesKept, Alive, Registers
<1>6. ASSUME NEW j \in Job, Publishes(j) PROVE HandlesKept'
  BY <1>6 DEF TypeOK, CallsMatch, HandlesKept, Alive, Publishes, Unfinished
<1>7. ASSUME NEW j \in Job, Begins(j) PROVE HandlesKept'
  BY <1>7 DEF TypeOK, CallsMatch, HandlesKept, Alive, Begins, Steps, Shows
<1>8. ASSUME NEW j \in Job, Opens(j) PROVE HandlesKept'
  <2>1. \A i \in Job : Alive(i)' => Alive(i)
    BY <1>8 DEF TypeOK, Alive, Opens, Breaks, Shows
  <2>2. UNCHANGED <<call, parent, handles, aborted, clearing, late, old, cancelling>>
    BY <1>8 DEF Opens, Breaks, Shows
  <2> QED
    BY <2>1, <2>2 DEF HandlesKept
<1>9. ASSUME NEW j \in Job, Round(j) PROVE HandlesKept'
  <2>1. \A i \in Job : Alive(i)' => Alive(i)
    BY <1>9 DEF TypeOK, Alive, Round, Breaks, Shows
  <2>2. UNCHANGED <<call, parent, handles, aborted, clearing, late, old, cancelling>>
    BY <1>9 DEF Round, Breaks, Shows
  <2> QED
    BY <2>1, <2>2 DEF HandlesKept
<1>10. ASSUME NEW j \in Job, Fails(j) PROVE HandlesKept'
  <2>1. \A i \in Job : Alive(i)' => Alive(i)
    BY <1>10 DEF TypeOK, Alive, Fails, Breaks, Shows
  <2>2. UNCHANGED <<call, parent, handles, aborted, clearing, late, old, cancelling>>
    BY <1>10 DEF Fails, Breaks, Shows
  <2> QED
    BY <2>1, <2>2 DEF HandlesKept
<1>11. ASSUME NEW j \in Job, Replies(j) PROVE HandlesKept'
  BY <1>11 DEF TypeOK, CallsMatch, HandlesKept, Alive, Replies, Steps
<1>12. ASSUME NEW j \in Job, Accounts(j) PROVE HandlesKept'
  <2>1. \A i \in Job : Alive(i)' => Alive(i)
    BY <1>12 DEF TypeOK, Alive, Accounts, Steps
  <2>2. UNCHANGED <<call, parent, handles, aborted, clearing, late, old, cancelling>>
    BY <1>12 DEF Accounts, Steps
  <2> QED
    BY <2>1, <2>2 DEF HandlesKept
<1>13. ASSUME NEW j \in Job, FinishesOrContinues(j) PROVE HandlesKept'
  <2>1. \A i \in Job : Alive(i)' => Alive(i)
    BY <1>13 DEF TypeOK, Alive, FinishesOrContinues, Steps, Shows
  <2>2. UNCHANGED <<call, parent, handles, aborted, clearing, late, old, cancelling>>
    BY <1>13 DEF FinishesOrContinues, Steps, Shows
  <2> QED
    BY <2>1, <2>2 DEF HandlesKept
<1>14. ASSUME NEW j \in Job, Records(j) PROVE HandlesKept'
  BY <1>14 DEF TypeOK, CallsMatch, HandlesKept, Alive, Records, Steps
<1>15. ASSUME NEW j \in Job, Leaves(j) PROVE HandlesKept'
  BY <1>15 DEF TypeOK, CallsMatch, HandlesKept, Alive, Leaves, Steps, Shows, ReturnsSlot
<1>16. ASSUME NEW j \in Job, Dies(j) PROVE HandlesKept'
  BY <1>16 DEF TypeOK, CallsMatch, HandlesKept, Alive, Dies, Waiting, Shows, ReturnsSlot
<1>17. ASSUME NEW j \in Job, Cancels(j) PROVE HandlesKept'
  BY <1>17 DEF TypeOK, CallsMatch, HandlesKept, Alive, Cancels, Marks
<1>18. ASSUME NEW j \in Job, NEW s \in Steer, Steers(j, s) PROVE HandlesKept'
  BY <1>18 DEF TypeOK, CallsMatch, HandlesKept, Alive, Steers, Sends
<1>19. CASE ParentBegins
  BY <1>19 DEF TypeOK, CallsMatch, HandlesKept, Alive, ParentBegins, ParentGoes
<1>20. CASE ParentRound
  BY <1>20 DEF TypeOK, CallsMatch, HandlesKept, Alive, ParentRound, Folds, Landed
<1>21. CASE ParentCallsTools
  BY <1>21 DEF TypeOK, CallsMatch, HandlesKept, Alive, ParentCallsTools, ParentGoes
<1>22. CASE ParentAnswers
  BY <1>22 DEF TypeOK, CallsMatch, HandlesKept, Alive, ParentAnswers, ParentGoes, Absent,
     Unfinished
<1>23. CASE ParentFinishesTools
  BY <1>23 DEF TypeOK, CallsMatch, HandlesKept, Alive, ParentFinishesTools, ParentGoes
<1>24. CASE Cancelled
  BY <1>24 DEF TypeOK, CallsMatch, HandlesKept, Alive, Cancelled, Marks
<1>25. CASE Interrupts
  BY <1>25 DEF TypeOK, CallsMatch, HandlesKept, Alive, Interrupts
<1>26. CASE ClearAborts
  BY <1>26 DEF TypeOK, CallsMatch, HandlesKept, Alive, ClearAborts
<1>27. CASE ClearForgets
  BY <1>27 DEF TypeOK, CallsMatch, HandlesKept, Alive, ClearForgets, Absent
<1> QED
  BY <1>1, <1>2, <1>3, <1>4, <1>5, <1>6, <1>7, <1>8, <1>9, <1>10, <1>11, <1>12, <1>13, <1>14,
     <1>15, <1>16, <1>17, <1>18, <1>19, <1>20, <1>21, <1>22, <1>23, <1>24, <1>25, <1>26, <1>27
     DEF Next, ParentStep, CallStep, WorkerStep

LEMMA ClearStep ==
    ASSUME TypeOK, CallsMatch, CallsAreBatched, HandlesKept, ClearFinds, [Next]_vars
    PROVE  ClearFinds'
<1> USE DEF vars, budget, seen, ghosts
<1>1. CASE UNCHANGED vars
  BY <1>1 DEF TypeOK, CallsMatch, CallsAreBatched, HandlesKept, ClearFinds, Alive, Underway
<1>2. ASSUME NEW j \in Job, Delegates(j) PROVE ClearFinds'
  BY <1>2 DEF TypeOK, CallsMatch, CallsAreBatched, HandlesKept, ClearFinds, Alive, Underway,
     Delegates, TakesSlot, Refused
<1>3. ASSUME NEW j \in Job, Builds(j) PROVE ClearFinds'
  BY <1>3 DEF TypeOK, CallsMatch, CallsAreBatched, HandlesKept, ClearFinds, Alive, Underway,
     Builds
<1>4. ASSUME NEW j \in Job, DropsCall(j) PROVE ClearFinds'
  BY <1>4 DEF TypeOK, CallsMatch, CallsAreBatched, HandlesKept, ClearFinds, Alive, Underway,
     DropsCall, ReturnsSlot
<1>5. ASSUME NEW j \in Job, Registers(j) PROVE ClearFinds'
  BY <1>5 DEF TypeOK, CallsMatch, CallsAreBatched, HandlesKept, ClearFinds, Alive, Underway,
     Registers
<1>6. ASSUME NEW j \in Job, Publishes(j) PROVE ClearFinds'
  BY <1>6 DEF TypeOK, CallsMatch, CallsAreBatched, HandlesKept, ClearFinds, Alive, Underway,
     Publishes, Unfinished
<1>7. ASSUME NEW j \in Job, Begins(j) PROVE ClearFinds'
  BY <1>7 DEF TypeOK, CallsMatch, CallsAreBatched, HandlesKept, ClearFinds, Alive, Underway,
     Begins, Steps, Shows
<1>8. ASSUME NEW j \in Job, Opens(j) PROVE ClearFinds'
  <2>1. \A i \in Job : Alive(i)' => Alive(i)
    BY <1>8 DEF TypeOK, Alive, Opens, Breaks, Shows
  <2>2. UNCHANGED <<call, parent, handles, aborted, clearing, late, old, cancelling>>
    BY <1>8 DEF Opens, Breaks, Shows
  <2> QED
    BY <2>1, <2>2 DEF ClearFinds
<1>9. ASSUME NEW j \in Job, Round(j) PROVE ClearFinds'
  <2>1. \A i \in Job : Alive(i)' => Alive(i)
    BY <1>9 DEF TypeOK, Alive, Round, Breaks, Shows
  <2>2. UNCHANGED <<call, parent, handles, aborted, clearing, late, old, cancelling>>
    BY <1>9 DEF Round, Breaks, Shows
  <2> QED
    BY <2>1, <2>2 DEF ClearFinds
<1>10. ASSUME NEW j \in Job, Fails(j) PROVE ClearFinds'
  <2>1. \A i \in Job : Alive(i)' => Alive(i)
    BY <1>10 DEF TypeOK, Alive, Fails, Breaks, Shows
  <2>2. UNCHANGED <<call, parent, handles, aborted, clearing, late, old, cancelling>>
    BY <1>10 DEF Fails, Breaks, Shows
  <2> QED
    BY <2>1, <2>2 DEF ClearFinds
<1>11. ASSUME NEW j \in Job, Replies(j) PROVE ClearFinds'
  BY <1>11 DEF TypeOK, CallsMatch, CallsAreBatched, HandlesKept, ClearFinds, Alive, Underway,
     Replies, Steps
<1>12. ASSUME NEW j \in Job, Accounts(j) PROVE ClearFinds'
  <2>1. \A i \in Job : Alive(i)' => Alive(i)
    BY <1>12 DEF TypeOK, Alive, Accounts, Steps
  <2>2. UNCHANGED <<call, parent, handles, aborted, clearing, late, old, cancelling>>
    BY <1>12 DEF Accounts, Steps
  <2> QED
    BY <2>1, <2>2 DEF ClearFinds
<1>13. ASSUME NEW j \in Job, FinishesOrContinues(j) PROVE ClearFinds'
  <2>1. \A i \in Job : Alive(i)' => Alive(i)
    BY <1>13 DEF TypeOK, Alive, FinishesOrContinues, Steps, Shows
  <2>2. UNCHANGED <<call, parent, handles, aborted, clearing, late, old, cancelling>>
    BY <1>13 DEF FinishesOrContinues, Steps, Shows
  <2> QED
    BY <2>1, <2>2 DEF ClearFinds
<1>14. ASSUME NEW j \in Job, Records(j) PROVE ClearFinds'
  BY <1>14 DEF TypeOK, CallsMatch, CallsAreBatched, HandlesKept, ClearFinds, Alive, Underway,
     Records, Steps
<1>15. ASSUME NEW j \in Job, Leaves(j) PROVE ClearFinds'
  BY <1>15 DEF TypeOK, CallsMatch, CallsAreBatched, HandlesKept, ClearFinds, Alive, Underway,
     Leaves, Steps, Shows, ReturnsSlot
<1>16. ASSUME NEW j \in Job, Dies(j) PROVE ClearFinds'
  BY <1>16 DEF TypeOK, CallsMatch, CallsAreBatched, HandlesKept, ClearFinds, Alive, Underway,
     Dies, Waiting, Shows, ReturnsSlot
<1>17. ASSUME NEW j \in Job, Cancels(j) PROVE ClearFinds'
  BY <1>17 DEF TypeOK, CallsMatch, CallsAreBatched, HandlesKept, ClearFinds, Alive, Underway,
     Cancels, Marks
<1>18. ASSUME NEW j \in Job, NEW s \in Steer, Steers(j, s) PROVE ClearFinds'
  BY <1>18 DEF TypeOK, CallsMatch, CallsAreBatched, HandlesKept, ClearFinds, Alive, Underway,
     Steers, Sends
<1>19. CASE ParentBegins
  BY <1>19 DEF TypeOK, CallsMatch, CallsAreBatched, HandlesKept, ClearFinds, Alive, Underway,
     ParentBegins, ParentGoes
<1>20. CASE ParentRound
  BY <1>20 DEF TypeOK, CallsMatch, CallsAreBatched, HandlesKept, ClearFinds, Alive, Underway,
     ParentRound, Folds, Landed
<1>21. CASE ParentCallsTools
  BY <1>21 DEF TypeOK, CallsMatch, CallsAreBatched, HandlesKept, ClearFinds, Alive, Underway,
     ParentCallsTools, ParentGoes
<1>22. CASE ParentAnswers
  BY <1>22 DEF TypeOK, CallsMatch, CallsAreBatched, HandlesKept, ClearFinds, Alive, Underway,
     ParentAnswers, ParentGoes, Absent, Unfinished
<1>23. CASE ParentFinishesTools
  BY <1>23 DEF TypeOK, CallsMatch, CallsAreBatched, HandlesKept, ClearFinds, Alive, Underway,
     ParentFinishesTools, ParentGoes
<1>24. CASE Cancelled
  BY <1>24 DEF TypeOK, CallsMatch, CallsAreBatched, HandlesKept, ClearFinds, Alive, Underway,
     Cancelled, Marks
<1>25. CASE Interrupts
  BY <1>25 DEF TypeOK, CallsMatch, CallsAreBatched, HandlesKept, ClearFinds, Alive, Underway,
     Interrupts
<1>26. CASE ClearAborts
  BY <1>26 DEF TypeOK, CallsMatch, CallsAreBatched, HandlesKept, ClearFinds, Alive, Underway,
     ClearAborts
<1>27. CASE ClearForgets
  BY <1>27 DEF TypeOK, CallsMatch, CallsAreBatched, HandlesKept, ClearFinds, Alive, Underway,
     ClearForgets, Absent
<1> QED
  BY <1>1, <1>2, <1>3, <1>4, <1>5, <1>6, <1>7, <1>8, <1>9, <1>10, <1>11, <1>12, <1>13, <1>14,
     <1>15, <1>16, <1>17, <1>18, <1>19, <1>20, <1>21, <1>22, <1>23, <1>24, <1>25, <1>26, <1>27
     DEF Next, ParentStep, CallStep, WorkerStep

LEMMA OldStep ==
    ASSUME TypeOK, CallsMatch, CallsAreBatched, HandlesKept, ClearFinds, OldOnes,
           [Next]_vars
    PROVE  OldOnes'
<1> USE DEF vars, budget, seen, ghosts
<1>1. CASE UNCHANGED vars
  BY <1>1 DEF TypeOK, CallsMatch, CallsAreBatched, OldOnes, Underway
<1>2. ASSUME NEW j \in Job, Delegates(j) PROVE OldOnes'
  BY <1>2 DEF TypeOK, CallsMatch, CallsAreBatched, OldOnes, Underway, Delegates, TakesSlot,
     Refused
<1>3. ASSUME NEW j \in Job, Builds(j) PROVE OldOnes'
  BY <1>3 DEF TypeOK, CallsMatch, CallsAreBatched, OldOnes, Underway, Builds
<1>4. ASSUME NEW j \in Job, DropsCall(j) PROVE OldOnes'
  BY <1>4 DEF TypeOK, CallsMatch, CallsAreBatched, OldOnes, Underway, DropsCall, ReturnsSlot
<1>5. ASSUME NEW j \in Job, Registers(j) PROVE OldOnes'
  BY <1>5 DEF TypeOK, CallsMatch, CallsAreBatched, OldOnes, Underway, Registers
<1>6. ASSUME NEW j \in Job, Publishes(j) PROVE OldOnes'
  BY <1>6 DEF TypeOK, CallsMatch, CallsAreBatched, OldOnes, Underway, Publishes, Unfinished
<1>7. ASSUME NEW j \in Job, Begins(j) PROVE OldOnes'
  BY <1>7 DEF TypeOK, CallsMatch, CallsAreBatched, OldOnes, Underway, Begins, Steps, Shows
<1>8. ASSUME NEW j \in Job, Opens(j) PROVE OldOnes'
  BY <1>8 DEF TypeOK, CallsMatch, CallsAreBatched, OldOnes, Underway, Opens, Breaks, Shows
<1>9. ASSUME NEW j \in Job, Round(j) PROVE OldOnes'
  BY <1>9 DEF TypeOK, CallsMatch, CallsAreBatched, OldOnes, Underway, Round, Breaks, Shows
<1>10. ASSUME NEW j \in Job, Fails(j) PROVE OldOnes'
  BY <1>10 DEF TypeOK, CallsMatch, CallsAreBatched, OldOnes, Underway, Fails, Breaks, Shows
<1>11. ASSUME NEW j \in Job, Replies(j) PROVE OldOnes'
  BY <1>11 DEF TypeOK, CallsMatch, CallsAreBatched, OldOnes, Underway, Replies, Steps
<1>12. ASSUME NEW j \in Job, Accounts(j) PROVE OldOnes'
  BY <1>12 DEF TypeOK, CallsMatch, CallsAreBatched, OldOnes, Underway, Accounts, Steps
<1>13. ASSUME NEW j \in Job, FinishesOrContinues(j) PROVE OldOnes'
  BY <1>13 DEF TypeOK, CallsMatch, CallsAreBatched, OldOnes, Underway, FinishesOrContinues,
     Steps, Shows
<1>14. ASSUME NEW j \in Job, Records(j) PROVE OldOnes'
  BY <1>14 DEF TypeOK, CallsMatch, CallsAreBatched, OldOnes, Underway, Records, Steps
<1>15. ASSUME NEW j \in Job, Leaves(j) PROVE OldOnes'
  BY <1>15 DEF TypeOK, CallsMatch, CallsAreBatched, OldOnes, Underway, Leaves, Steps, Shows,
     ReturnsSlot
<1>16. ASSUME NEW j \in Job, Dies(j) PROVE OldOnes'
  BY <1>16 DEF TypeOK, CallsMatch, CallsAreBatched, OldOnes, Underway, Dies, Waiting, Shows,
     ReturnsSlot
<1>17. ASSUME NEW j \in Job, Cancels(j) PROVE OldOnes'
  <2>1. CASE j \in handles
    BY <1>17, <2>1 DEF TypeOK, CallsMatch, OldOnes, Cancels, Marks
  <2>2. CASE ~(j \in handles)
    BY <1>17, <2>2 DEF TypeOK, CallsMatch, OldOnes, Cancels, Marks
  <2> QED
    BY <2>1, <2>2
<1>18. ASSUME NEW j \in Job, NEW s \in Steer, Steers(j, s) PROVE OldOnes'
  BY <1>18 DEF TypeOK, CallsMatch, CallsAreBatched, OldOnes, Underway, Steers, Sends
<1>19. CASE ParentBegins
  BY <1>19 DEF TypeOK, CallsMatch, CallsAreBatched, OldOnes, Underway, ParentBegins, ParentGoes
<1>20. CASE ParentRound
  BY <1>20 DEF TypeOK, CallsMatch, CallsAreBatched, OldOnes, Underway, ParentRound, Folds,
     Landed
<1>21. CASE ParentCallsTools
  BY <1>21 DEF TypeOK, CallsMatch, CallsAreBatched, OldOnes, Underway, ParentCallsTools,
     ParentGoes
<1>22. CASE ParentAnswers
  BY <1>22 DEF TypeOK, CallsMatch, CallsAreBatched, OldOnes, Underway, ParentAnswers,
     ParentGoes, Absent, Unfinished
<1>23. CASE ParentFinishesTools
  BY <1>23 DEF TypeOK, CallsMatch, CallsAreBatched, OldOnes, Underway, ParentFinishesTools,
     ParentGoes
<1>24. CASE Cancelled
  BY <1>24 DEF TypeOK, CallsMatch, CallsAreBatched, OldOnes, Underway, Cancelled, Marks
<1>25. CASE Interrupts
  BY <1>25 DEF TypeOK, CallsMatch, CallsAreBatched, OldOnes, Underway, Interrupts
<1>26. CASE ClearAborts
  BY <1>26 DEF TypeOK, CallsMatch, CallsAreBatched, OldOnes, Underway, ClearAborts
<1>27. CASE ClearForgets
  BY <1>27 DEF TypeOK, CallsMatch, CallsAreBatched, OldOnes, Underway, ClearForgets, Absent
<1> QED
  BY <1>1, <1>2, <1>3, <1>4, <1>5, <1>6, <1>7, <1>8, <1>9, <1>10, <1>11, <1>12, <1>13, <1>14,
     <1>15, <1>16, <1>17, <1>18, <1>19, <1>20, <1>21, <1>22, <1>23, <1>24, <1>25, <1>26, <1>27
     DEF Next, ParentStep, CallStep, WorkerStep

LEMMA ShownStep ==
    ASSUME TypeOK, CallsMatch, CallsAreBatched, HandlesKept, ClearFinds, OldOnes,
           UnpolledIsOwed, RunsAreShown, [Next]_vars
    PROVE  RunsAreShown'
<1> USE DEF vars, budget, seen, ghosts
<1>1. CASE UNCHANGED vars
  BY <1>1 DEF TypeOK, CallsMatch, RunsAreShown, RunLive, Guarded
<1>2. ASSUME NEW j \in Job, Delegates(j) PROVE RunsAreShown'
  BY <1>2 DEF TypeOK, CallsMatch, RunsAreShown, RunLive, Guarded, Delegates, TakesSlot, Refused
<1>3. ASSUME NEW j \in Job, Builds(j) PROVE RunsAreShown'
  BY <1>3 DEF TypeOK, CallsMatch, RunsAreShown, RunLive, Guarded, Builds
<1>4. ASSUME NEW j \in Job, DropsCall(j) PROVE RunsAreShown'
  BY <1>4 DEF TypeOK, CallsMatch, RunsAreShown, RunLive, Guarded, DropsCall, ReturnsSlot
<1>5. ASSUME NEW j \in Job, Registers(j) PROVE RunsAreShown'
  BY <1>5 DEF TypeOK, CallsMatch, RunsAreShown, RunLive, Guarded, Registers
<1>6. ASSUME NEW j \in Job, Publishes(j) PROVE RunsAreShown'
  BY <1>6 DEF TypeOK, CallsMatch, RunsAreShown, RunLive, Guarded, Publishes, Unfinished
<1>7. ASSUME NEW j \in Job, Begins(j) PROVE RunsAreShown'
  BY <1>7 DEF TypeOK, CallsMatch, RunsAreShown, RunLive, Guarded, Begins, Steps, Shows
<1>8. ASSUME NEW j \in Job, Opens(j) PROVE RunsAreShown'
  <2>1. /\ worker[j] = "begun"
        /\ \/ worker' = [worker EXCEPT ![j] = "top"] /\ UNCHANGED <<entry, broken>>
           \/ worker' = [worker EXCEPT ![j] = "saving"] /\ Shows(j, "idle") /\ broken' = broken \cup {j}
    BY <1>8 DEF Opens, Breaks
  <2>2. UNCHANGED <<call, cancelling, row, handles, aborted, told, clearing, silenced, cut, old,
                    late>>
    BY <1>8 DEF Opens
  <2> QED
    BY <2>1, <2>2, TypeParts DEF ControlType, SetsType, EntryType, Shows, CallsMatch,
       RunsAreShown, RunLive, Guarded
<1>9. ASSUME NEW j \in Job, Round(j) PROVE RunsAreShown'
  BY <1>9 DEF TypeOK, CallsMatch, RunsAreShown, RunLive, Guarded, Round, Breaks, Shows
<1>10. ASSUME NEW j \in Job, Fails(j) PROVE RunsAreShown'
  BY TypeParts, <1>10 DEF ControlType, SetsType, EntryType, CallsMatch, RunsAreShown, RunLive,
     Guarded, Fails, Breaks, Shows
<1>11. ASSUME NEW j \in Job, Replies(j) PROVE RunsAreShown'
  BY <1>11 DEF TypeOK, CallsMatch, RunsAreShown, RunLive, Guarded, Replies, Steps
<1>12. ASSUME NEW j \in Job, Accounts(j) PROVE RunsAreShown'
  BY <1>12 DEF TypeOK, CallsMatch, RunsAreShown, RunLive, Guarded, Accounts, Steps
<1>13. ASSUME NEW j \in Job, FinishesOrContinues(j) PROVE RunsAreShown'
  <2>1. UNCHANGED <<call, cancelling, row, handles, aborted, told, clearing, broken, silenced, cut,
                    old, late>>
    BY <1>13 DEF FinishesOrContinues
  <2>2. CASE Steps(j, "answered", "begun") /\ Shows(j, "running")
    BY <2>1, <2>2, TypeParts DEF ControlType, EntryType, Steps, Shows, CallsMatch,
       RunsAreShown, RunLive, Guarded
  <2>3. CASE Steps(j, "answered", "saving") /\ Shows(j, "idle")
    <3>1. ~RunLive(j)' /\ entry'[j].shown # "running"
      BY <2>1, <2>3, TypeParts DEF ControlType, EntryType, Steps, Shows, CallsMatch, RunLive,
         Guarded, Underway
    <3>2. ASSUME NEW i \in Job \ {j}
          PROVE  worker'[i] = worker[i] /\ entry'[i] = entry[i]
      BY <2>3, TypeParts DEF ControlType, EntryType, Steps, Shows
    <3> QED
      BY <2>1, <3>1, <3>2 DEF RunsAreShown, RunLive, Underway
  <2> QED
    BY <1>13, <2>2, <2>3 DEF FinishesOrContinues
<1>14. ASSUME NEW j \in Job, Records(j) PROVE RunsAreShown'
  BY <1>14 DEF TypeOK, CallsMatch, RunsAreShown, RunLive, Guarded, Records, Steps
<1>15. ASSUME NEW j \in Job, Leaves(j) PROVE RunsAreShown'
  BY TypeParts, <1>15 DEF ControlType, SetsType, EntryType, CallsMatch, RunsAreShown, RunLive,
     Guarded, Leaves, Steps, Shows, ReturnsSlot
<1>16. ASSUME NEW j \in Job, Dies(j) PROVE RunsAreShown'
  BY <1>16 DEF TypeOK, CallsMatch, RunsAreShown, RunLive, Guarded, UnpolledIsOwed, Dies,
     Waiting, Shows, ReturnsSlot
<1>17. ASSUME NEW j \in Job, Cancels(j) PROVE RunsAreShown'
  <2>1. CASE j \in handles
    BY JobsAssumption, <1>17, <2>1 DEF TypeOK, CallsMatch, RunsAreShown, RunLive, Guarded,
       Alone, Known, HandlesKept, Alive, Cancels, Marks
  <2>2. CASE ~(j \in handles)
    BY JobsAssumption, <1>17, <2>2 DEF TypeOK, CallsMatch, RunsAreShown, RunLive, Guarded,
       Alone, Known, HandlesKept, Alive, Cancels, Marks
  <2> QED
    BY <2>1, <2>2
<1>18. ASSUME NEW j \in Job, NEW s \in Steer, Steers(j, s) PROVE RunsAreShown'
  BY <1>18 DEF TypeOK, CallsMatch, RunsAreShown, RunLive, Guarded, Steers, Sends
<1>19. CASE ParentBegins
  BY <1>19 DEF TypeOK, CallsMatch, RunsAreShown, RunLive, Guarded, ParentBegins, ParentGoes
<1>20. CASE ParentRound
  BY <1>20 DEF TypeOK, CallsMatch, RunsAreShown, RunLive, Guarded, ParentRound, Folds, Landed
<1>21. CASE ParentCallsTools
  BY <1>21 DEF TypeOK, CallsMatch, RunsAreShown, RunLive, Guarded, ParentCallsTools, ParentGoes
<1>22. CASE ParentAnswers
  BY <1>22 DEF TypeOK, CallsMatch, RunsAreShown, RunLive, Guarded, ParentAnswers, ParentGoes,
     Absent, Unfinished
<1>23. CASE ParentFinishesTools
  BY <1>23 DEF TypeOK, CallsMatch, RunsAreShown, RunLive, Guarded, ParentFinishesTools,
     ParentGoes
<1>24. CASE Cancelled
  BY <1>24 DEF TypeOK, CallsMatch, RunsAreShown, RunLive, Guarded, HandlesKept, Cancelled, Marks
<1>25. CASE Interrupts
  BY <1>25 DEF TypeOK, CallsMatch, RunsAreShown, RunLive, Guarded, Interrupts
<1>26. CASE ClearAborts
  BY <1>26 DEF TypeOK, CallsMatch, RunsAreShown, RunLive, Guarded, ClearAborts
<1>27. CASE ClearForgets
  BY <1>27 DEF TypeOK, CallsMatch, RunsAreShown, RunLive, Guarded, ClearFinds, Alive,
     ClearForgets, Absent
<1> QED
  BY <1>1, <1>2, <1>3, <1>4, <1>5, <1>6, <1>7, <1>8, <1>9, <1>10, <1>11, <1>12, <1>13, <1>14,
     <1>15, <1>16, <1>17, <1>18, <1>19, <1>20, <1>21, <1>22, <1>23, <1>24, <1>25, <1>26, <1>27
     DEF Next, ParentStep, CallStep, WorkerStep

LEMMA UnpolledStep ==
    ASSUME TypeOK, CallsMatch, CallsAreBatched, HandlesKept, ClearFinds, UnpolledIsOwed,
           [Next]_vars
    PROVE  UnpolledIsOwed'
<1> USE DEF vars, budget, seen, ghosts
<1>1. CASE UNCHANGED vars
  BY <1>1 DEF TypeOK, CallsMatch, CallsAreBatched, HandlesKept, UnpolledIsOwed
<1>2. ASSUME NEW j \in Job, Delegates(j) PROVE UnpolledIsOwed'
  BY <1>2 DEF TypeOK, CallsMatch, CallsAreBatched, HandlesKept, UnpolledIsOwed, Delegates,
     TakesSlot, Refused
<1>3. ASSUME NEW j \in Job, Builds(j) PROVE UnpolledIsOwed'
  BY <1>3 DEF TypeOK, CallsMatch, CallsAreBatched, HandlesKept, UnpolledIsOwed, Builds
<1>4. ASSUME NEW j \in Job, DropsCall(j) PROVE UnpolledIsOwed'
  BY <1>4 DEF TypeOK, CallsMatch, CallsAreBatched, HandlesKept, UnpolledIsOwed, DropsCall,
     ReturnsSlot
<1>5. ASSUME NEW j \in Job, Registers(j) PROVE UnpolledIsOwed'
  BY <1>5 DEF TypeOK, CallsMatch, CallsAreBatched, HandlesKept, UnpolledIsOwed, Registers
<1>6. ASSUME NEW j \in Job, Publishes(j) PROVE UnpolledIsOwed'
  BY <1>6 DEF TypeOK, CallsMatch, CallsAreBatched, HandlesKept, UnpolledIsOwed, Publishes,
     Unfinished
<1>7. ASSUME NEW j \in Job, Begins(j) PROVE UnpolledIsOwed'
  BY <1>7 DEF TypeOK, CallsMatch, CallsAreBatched, HandlesKept, UnpolledIsOwed, Begins, Steps,
     Shows
<1>8. ASSUME NEW j \in Job, Opens(j) PROVE UnpolledIsOwed'
  <2>1. /\ worker[j] = "begun"
        /\ \/ worker' = [worker EXCEPT ![j] = "top"] /\ UNCHANGED <<entry, broken>>
           \/ worker' = [worker EXCEPT ![j] = "saving"] /\ Shows(j, "idle") /\ broken' = broken \cup {j}
    BY <1>8 DEF Opens, Breaks
  <2>2. UNCHANGED <<call, cancelling, row, handles, aborted, told, clearing, silenced, cut, old,
                    late>>
    BY <1>8 DEF Opens
  <2> QED
    BY <2>1, <2>2, TypeParts DEF ControlType, SetsType, EntryType, Shows, CallsMatch,
       CallsAreBatched, HandlesKept, UnpolledIsOwed
<1>9. ASSUME NEW j \in Job, Round(j) PROVE UnpolledIsOwed'
  BY <1>9 DEF TypeOK, CallsMatch, CallsAreBatched, HandlesKept, UnpolledIsOwed, Round, Breaks,
     Shows
<1>10. ASSUME NEW j \in Job, Fails(j) PROVE UnpolledIsOwed'
  BY <1>10 DEF TypeOK, CallsMatch, CallsAreBatched, HandlesKept, UnpolledIsOwed, Fails,
     Breaks, Shows
<1>11. ASSUME NEW j \in Job, Replies(j) PROVE UnpolledIsOwed'
  BY <1>11 DEF TypeOK, CallsMatch, CallsAreBatched, HandlesKept, UnpolledIsOwed, Replies, Steps
<1>12. ASSUME NEW j \in Job, Accounts(j) PROVE UnpolledIsOwed'
  BY <1>12 DEF TypeOK, CallsMatch, CallsAreBatched, HandlesKept, UnpolledIsOwed, Accounts, Steps
<1>13. ASSUME NEW j \in Job, FinishesOrContinues(j) PROVE UnpolledIsOwed'
  <2>1. \/ Steps(j, "answered", "begun") /\ Shows(j, "running")
        \/ Steps(j, "answered", "saving") /\ Shows(j, "idle")
    BY <1>13 DEF FinishesOrContinues
  <2>2. UNCHANGED <<call, cancelling, row, handles, aborted, told, clearing, broken, silenced, cut,
                    old, late>>
    BY <1>13 DEF FinishesOrContinues
  <2> QED
    BY <2>1, <2>2, TypeParts DEF ControlType, SetsType, EntryType, Steps, Shows, CallsMatch,
       CallsAreBatched, HandlesKept, UnpolledIsOwed
<1>14. ASSUME NEW j \in Job, Records(j) PROVE UnpolledIsOwed'
  BY <1>14 DEF TypeOK, CallsMatch, CallsAreBatched, HandlesKept, UnpolledIsOwed, Records, Steps
<1>15. ASSUME NEW j \in Job, Leaves(j) PROVE UnpolledIsOwed'
  BY <1>15 DEF TypeOK, CallsMatch, CallsAreBatched, HandlesKept, UnpolledIsOwed, Leaves,
     Steps, Shows, ReturnsSlot
<1>16. ASSUME NEW j \in Job, Dies(j) PROVE UnpolledIsOwed'
  BY <1>16 DEF TypeOK, CallsMatch, CallsAreBatched, HandlesKept, UnpolledIsOwed, Dies,
     Waiting, Shows, ReturnsSlot
<1>17. ASSUME NEW j \in Job, Cancels(j) PROVE UnpolledIsOwed'
  <2>1. CASE j \in handles
    BY JobsAssumption, <1>17, <2>1 DEF TypeOK, CallsMatch, CallsAreBatched, HandlesKept,
       UnpolledIsOwed, Alone, Cancels, Marks
  <2>2. CASE ~(j \in handles)
    BY JobsAssumption, <1>17, <2>2 DEF TypeOK, CallsMatch, CallsAreBatched, HandlesKept,
       UnpolledIsOwed, Alone, Cancels, Marks
  <2> QED
    BY <2>1, <2>2
<1>18. ASSUME NEW j \in Job, NEW s \in Steer, Steers(j, s) PROVE UnpolledIsOwed'
  BY <1>18 DEF TypeOK, CallsMatch, CallsAreBatched, HandlesKept, UnpolledIsOwed, Steers, Sends
<1>19. CASE ParentBegins
  BY <1>19 DEF TypeOK, CallsMatch, CallsAreBatched, HandlesKept, UnpolledIsOwed, ParentBegins,
     ParentGoes
<1>20. CASE ParentRound
  BY <1>20 DEF TypeOK, CallsMatch, CallsAreBatched, HandlesKept, UnpolledIsOwed, ParentRound,
     Folds, Landed
<1>21. CASE ParentCallsTools
  BY <1>21 DEF TypeOK, CallsMatch, CallsAreBatched, HandlesKept, UnpolledIsOwed,
     ParentCallsTools, ParentGoes
<1>22. CASE ParentAnswers
  BY <1>22 DEF TypeOK, CallsMatch, CallsAreBatched, HandlesKept, UnpolledIsOwed,
     ParentAnswers, ParentGoes, Absent, Unfinished
<1>23. CASE ParentFinishesTools
  BY <1>23 DEF TypeOK, CallsMatch, CallsAreBatched, HandlesKept, UnpolledIsOwed,
     ParentFinishesTools, ParentGoes
<1>24. CASE Cancelled
  BY <1>24 DEF TypeOK, CallsMatch, CallsAreBatched, HandlesKept, UnpolledIsOwed, Cancelled,
     Marks
<1>25. CASE Interrupts
  BY <1>25 DEF TypeOK, CallsMatch, CallsAreBatched, HandlesKept, UnpolledIsOwed, Interrupts
<1>26. CASE ClearAborts
  BY <1>26 DEF TypeOK, CallsMatch, CallsAreBatched, HandlesKept, UnpolledIsOwed, ClearAborts
<1>27. CASE ClearForgets
  BY <1>27 DEF TypeOK, CallsMatch, CallsAreBatched, HandlesKept, UnpolledIsOwed, ClearForgets,
     Absent
<1> QED
  BY <1>1, <1>2, <1>3, <1>4, <1>5, <1>6, <1>7, <1>8, <1>9, <1>10, <1>11, <1>12, <1>13, <1>14,
     <1>15, <1>16, <1>17, <1>18, <1>19, <1>20, <1>21, <1>22, <1>23, <1>24, <1>25, <1>26, <1>27
     DEF Next, ParentStep, CallStep, WorkerStep

LEMMA RowsStep ==
    ASSUME TypeOK, CallsMatch, CallsAreBatched, HandlesKept, ClearFinds, OldOnes, RowsTell,
           [Next]_vars
    PROVE  RowsTell'
<1> USE DEF vars, budget, seen, ghosts
<1>1. CASE UNCHANGED vars
  BY <1>1 DEF TypeOK, CallsMatch, CallsAreBatched, HandlesKept, RowsTell
<1>2. ASSUME NEW j \in Job, Delegates(j) PROVE RowsTell'
  BY <1>2 DEF TypeOK, CallsMatch, CallsAreBatched, HandlesKept, RowsTell, Delegates,
     TakesSlot, Refused
<1>3. ASSUME NEW j \in Job, Builds(j) PROVE RowsTell'
  BY <1>3 DEF TypeOK, CallsMatch, CallsAreBatched, HandlesKept, RowsTell, Builds
<1>4. ASSUME NEW j \in Job, DropsCall(j) PROVE RowsTell'
  BY <1>4 DEF TypeOK, CallsMatch, CallsAreBatched, HandlesKept, RowsTell, DropsCall, ReturnsSlot
<1>5. ASSUME NEW j \in Job, Registers(j) PROVE RowsTell'
  BY <1>5 DEF TypeOK, CallsMatch, CallsAreBatched, HandlesKept, RowsTell, Registers
<1>6. ASSUME NEW j \in Job, Publishes(j) PROVE RowsTell'
  BY TypeParts, <1>6 DEF ControlType, SetsType, CountsType, CallsMatch, HandlesKept, RowsTell,
     Publishes, Unfinished
<1>7. ASSUME NEW j \in Job, Begins(j) PROVE RowsTell'
  BY <1>7 DEF TypeOK, CallsMatch, CallsAreBatched, HandlesKept, RowsTell, Begins, Steps, Shows
<1>8. ASSUME NEW j \in Job, Opens(j) PROVE RowsTell'
  BY <1>8 DEF TypeOK, CallsMatch, CallsAreBatched, HandlesKept, RowsTell, Opens, Breaks, Shows
<1>9. ASSUME NEW j \in Job, Round(j) PROVE RowsTell'
  BY <1>9 DEF TypeOK, CallsMatch, CallsAreBatched, HandlesKept, RowsTell, Round, Breaks, Shows
<1>10. ASSUME NEW j \in Job, Fails(j) PROVE RowsTell'
  BY <1>10 DEF TypeOK, CallsMatch, CallsAreBatched, HandlesKept, RowsTell, Fails, Breaks, Shows
<1>11. ASSUME NEW j \in Job, Replies(j) PROVE RowsTell'
  BY <1>11 DEF TypeOK, CallsMatch, CallsAreBatched, HandlesKept, RowsTell, Replies, Steps
<1>12. ASSUME NEW j \in Job, Accounts(j) PROVE RowsTell'
  BY <1>12 DEF TypeOK, CallsMatch, CallsAreBatched, HandlesKept, RowsTell, Accounts, Steps
<1>13. ASSUME NEW j \in Job, FinishesOrContinues(j) PROVE RowsTell'
  BY <1>13 DEF TypeOK, CallsMatch, CallsAreBatched, HandlesKept, RowsTell,
     FinishesOrContinues, Steps, Shows
<1>14. ASSUME NEW j \in Job, Records(j) PROVE RowsTell'
  BY <1>14 DEF TypeOK, CallsMatch, CallsAreBatched, HandlesKept, RowsTell, Records, Steps
<1>15. ASSUME NEW j \in Job, Leaves(j) PROVE RowsTell'
  BY <1>15 DEF TypeOK, CallsMatch, CallsAreBatched, HandlesKept, RowsTell, Leaves, Steps,
     Shows, ReturnsSlot
<1>16. ASSUME NEW j \in Job, Dies(j) PROVE RowsTell'
  BY <1>16 DEF TypeOK, CallsMatch, CallsAreBatched, HandlesKept, RowsTell, Dies, Waiting,
     Shows, ReturnsSlot
<1>17. ASSUME NEW j \in Job, Cancels(j) PROVE RowsTell'
  <2>1. CASE j \in handles
    BY JobsAssumption, <1>17, <2>1 DEF TypeOK, CallsMatch, CallsAreBatched, HandlesKept,
       RowsTell, Alone, Known, Cancels, Marks
  <2>2. CASE ~(j \in handles)
    BY JobsAssumption, <1>17, <2>2 DEF TypeOK, CallsMatch, CallsAreBatched, HandlesKept,
       RowsTell, Alone, Known, Cancels, Marks
  <2> QED
    BY <2>1, <2>2
<1>18. ASSUME NEW j \in Job, NEW s \in Steer, Steers(j, s) PROVE RowsTell'
  BY <1>18 DEF TypeOK, CallsMatch, CallsAreBatched, HandlesKept, RowsTell, Steers, Sends
<1>19. CASE ParentBegins
  BY <1>19 DEF TypeOK, CallsMatch, CallsAreBatched, HandlesKept, RowsTell, ParentBegins,
     ParentGoes
<1>20. CASE ParentRound
  BY <1>20 DEF TypeOK, CallsMatch, CallsAreBatched, HandlesKept, RowsTell, ParentRound, Folds,
     Landed
<1>21. CASE ParentCallsTools
  BY <1>21 DEF TypeOK, CallsMatch, CallsAreBatched, HandlesKept, RowsTell, ParentCallsTools,
     ParentGoes
<1>22. CASE ParentAnswers
  BY <1>22 DEF TypeOK, CallsMatch, CallsAreBatched, HandlesKept, RowsTell, ParentAnswers,
     ParentGoes, Absent, Unfinished
<1>23. CASE ParentFinishesTools
  BY <1>23 DEF TypeOK, CallsMatch, CallsAreBatched, HandlesKept, RowsTell,
     ParentFinishesTools, ParentGoes
<1>24. CASE Cancelled
  BY <1>24 DEF TypeOK, CallsMatch, CallsAreBatched, HandlesKept, RowsTell, Cancelled, Marks
<1>25. CASE Interrupts
  BY <1>25 DEF TypeOK, CallsMatch, CallsAreBatched, HandlesKept, RowsTell, Interrupts
<1>26. CASE ClearAborts
  BY <1>26 DEF TypeOK, CallsMatch, CallsAreBatched, HandlesKept, RowsTell, ClearAborts
<1>27. CASE ClearForgets
  BY <1>27 DEF TypeOK, CallsMatch, CallsAreBatched, HandlesKept, RowsTell, ClearFinds,
     ClearForgets, Absent
<1> QED
  BY <1>1, <1>2, <1>3, <1>4, <1>5, <1>6, <1>7, <1>8, <1>9, <1>10, <1>11, <1>12, <1>13, <1>14,
     <1>15, <1>16, <1>17, <1>18, <1>19, <1>20, <1>21, <1>22, <1>23, <1>24, <1>25, <1>26, <1>27
     DEF Next, ParentStep, CallStep, WorkerStep

-----------------------------------------------------------------------------
(* Slots and the budget.                                                   *)

Holds(j) == Underway(j) \/ Alive(j)

LEMMA SameHolders ==
    ASSUME SlotsBound, UNCHANGED used, \A j \in Job : Holds(j)' <=> Holds(j)
    PROVE  SlotsBound'
<1> SUFFICES ASSUME NEW k \in Kinds PROVE used'[k] = Cardinality(Holders(k)') /\ used'[k] <= Cap[k]
  BY DEF SlotsBound
<1>1. Holders(k)' = Holders(k)
  BY DEF Holders, Holds, Kind
<1> QED
  BY <1>1 DEF SlotsBound

\* A holder more or less, and the count with it.
LEMMA OneHolderMore ==
    ASSUME TypeOK, SlotsBound, NEW j \in Job, ~Holds(j), Holds(j)', TakesSlot(j),
           \A i \in Job \ {j} : Holds(i)' <=> Holds(i)
    PROVE  SlotsBound'
<1> SUFFICES ASSUME NEW k \in Kinds PROVE used'[k] = Cardinality(Holders(k)') /\ used'[k] <= Cap[k]
  BY DEF SlotsBound
<1>1. used \in [Kinds -> Nat] /\ Cap \in [Kinds -> Nat]
  BY LimitsAssumption DEF TypeOK
<1>2. CASE k = Kind(j)
  <2>1. Holders(k)' = Holders(k) \cup {j} /\ j \notin Holders(k)
    BY <1>2 DEF Holders, Holds, Kind
  <2>2. Cardinality(Holders(k)') = Cardinality(Holders(k)) + 1
    BY <2>1, HoldersFinite, FS_AddElement
  <2> QED
    BY <1>1, <1>2, <2>2 DEF SlotsBound, TakesSlot
<1>3. CASE k # Kind(j)
  <2>1. Holders(k)' = Holders(k)
    BY <1>3 DEF Holders, Holds, Kind
  <2> QED
    BY <1>1, <1>3, <2>1 DEF SlotsBound, TakesSlot
<1> QED
  BY <1>2, <1>3

LEMMA OneHolderLess ==
    ASSUME TypeOK, SlotsBound, NEW j \in Job, Holds(j), ~Holds(j)', ReturnsSlot(j),
           \A i \in Job \ {j} : Holds(i)' <=> Holds(i)
    PROVE  SlotsBound'
<1> SUFFICES ASSUME NEW k \in Kinds PROVE used'[k] = Cardinality(Holders(k)') /\ used'[k] <= Cap[k]
  BY DEF SlotsBound
<1>1. used \in [Kinds -> Nat] /\ Cap \in [Kinds -> Nat]
  BY LimitsAssumption DEF TypeOK
<1>2. CASE k = Kind(j)
  <2>1. Holders(k)' = Holders(k) \ {j} /\ j \in Holders(k)
    BY <1>2 DEF Holders, Holds, Kind
  <2>2. Cardinality(Holders(k)') = Cardinality(Holders(k)) - 1
    BY <2>1, HoldersFinite, FS_RemoveElement
  <2> QED
    BY <1>1, <1>2, <2>2 DEF SlotsBound, ReturnsSlot
<1>3. CASE k # Kind(j)
  <2>1. Holders(k)' = Holders(k)
    BY <1>3 DEF Holders, Holds, Kind
  <2> QED
    BY <1>1, <1>3, <2>1 DEF SlotsBound, ReturnsSlot
<1> QED
  BY <1>2, <1>3

LEMMA SlotsStep == ASSUME TypeOK, CallsMatch, SlotsBound, [Next]_vars PROVE SlotsBound'
<1> USE DEF vars, budget, seen, ghosts
<1>1. CASE UNCHANGED vars
  BY <1>1, SameHolders DEF Holds, Underway, Alive
<1>2. ASSUME NEW j \in Job, Delegates(j) PROVE SlotsBound'
  <2>1. CASE TakesSlot(j) /\ call' = [call EXCEPT ![j] = "slot"]
    <3>1. ~Holds(j) /\ Holds(j)' /\ \A i \in Job \ {j} : Holds(i)' <=> Holds(i)
      BY <1>2, <2>1, TypeParts DEF ControlType, CallsMatch, Holds, Underway, Alive, Delegates
    <3> QED
      BY <2>1, <3>1, OneHolderMore
  <2>2. CASE Refused(j)
    <3>1. UNCHANGED used /\ \A i \in Job : Holds(i)' <=> Holds(i)
      BY <1>2, <2>2, TypeParts DEF ControlType, CallsMatch, Holds, Underway, Alive, Delegates,
         Refused
    <3> QED
      BY <3>1, SameHolders
  <2> QED
    BY <1>2, <2>1, <2>2 DEF Delegates
<1>3. ASSUME NEW j \in Job, Builds(j) PROVE SlotsBound'
  <2>1. UNCHANGED used /\ \A i \in Job : Holds(i)' <=> Holds(i)
    BY <1>3, TypeParts DEF ControlType, CallsMatch, Holds, Underway, Alive, Builds
  <2> QED
    BY <2>1, SameHolders
<1>4. ASSUME NEW j \in Job, DropsCall(j) PROVE SlotsBound'
  <2>1. Holds(j) /\ ~Holds(j)' /\ ReturnsSlot(j)
    BY <1>4, TypeParts DEF ControlType, CallsMatch, Holds, Underway, Alive, DropsCall
  <2>2. \A i \in Job \ {j} : Holds(i)' <=> Holds(i)
    BY <1>4, TypeParts DEF ControlType, CallsMatch, Holds, Underway, Alive, DropsCall
  <2> QED
    BY <2>1, <2>2, OneHolderLess
<1>5. ASSUME NEW j \in Job, Registers(j) PROVE SlotsBound'
  <2>1. UNCHANGED used /\ \A i \in Job : Holds(i)' <=> Holds(i)
    BY <1>5, TypeParts DEF ControlType, CallsMatch, Holds, Underway, Alive, Registers
  <2> QED
    BY <2>1, SameHolders
<1>6. ASSUME NEW j \in Job, Publishes(j) PROVE SlotsBound'
  <2>1. UNCHANGED used /\ \A i \in Job : Holds(i)' <=> Holds(i)
    BY <1>6, TypeParts DEF ControlType, CallsMatch, Holds, Underway, Alive, Publishes,
       Unfinished
  <2> QED
    BY <2>1, SameHolders
<1>7. ASSUME NEW j \in Job, Begins(j) PROVE SlotsBound'
  <2>1. UNCHANGED used /\ \A i \in Job : Holds(i)' <=> Holds(i)
    BY <1>7, TypeParts DEF ControlType, CallsMatch, Holds, Underway, Alive, Begins, Steps, Shows
  <2> QED
    BY <2>1, SameHolders
<1>8. ASSUME NEW j \in Job, Opens(j) PROVE SlotsBound'
  <2>1. UNCHANGED used /\ \A i \in Job : Holds(i)' <=> Holds(i)
    BY <1>8, TypeParts DEF ControlType, CallsMatch, Holds, Underway, Alive, Opens, Breaks, Shows
  <2> QED
    BY <2>1, SameHolders
<1>9. ASSUME NEW j \in Job, Round(j) PROVE SlotsBound'
  <2>1. UNCHANGED used /\ \A i \in Job : Holds(i)' <=> Holds(i)
    BY <1>9, TypeParts DEF ControlType, CallsMatch, Holds, Underway, Alive, Round, Breaks, Shows
  <2> QED
    BY <2>1, SameHolders
<1>10. ASSUME NEW j \in Job, Fails(j) PROVE SlotsBound'
  <2>1. UNCHANGED used /\ \A i \in Job : Holds(i)' <=> Holds(i)
    BY <1>10, TypeParts DEF ControlType, CallsMatch, Holds, Underway, Alive, Fails, Breaks,
       Shows
  <2> QED
    BY <2>1, SameHolders
<1>11. ASSUME NEW j \in Job, Replies(j) PROVE SlotsBound'
  <2>1. UNCHANGED used /\ \A i \in Job : Holds(i)' <=> Holds(i)
    BY <1>11, TypeParts DEF ControlType, CallsMatch, Holds, Underway, Alive, Replies, Steps
  <2> QED
    BY <2>1, SameHolders
<1>12. ASSUME NEW j \in Job, Accounts(j) PROVE SlotsBound'
  <2>1. UNCHANGED used /\ \A i \in Job : Holds(i)' <=> Holds(i)
    BY <1>12, TypeParts DEF ControlType, CallsMatch, Holds, Underway, Alive, Accounts, Steps
  <2> QED
    BY <2>1, SameHolders
<1>13. ASSUME NEW j \in Job, FinishesOrContinues(j) PROVE SlotsBound'
  <2>1. Steps(j, "answered", "begun") \/ Steps(j, "answered", "saving")
    BY <1>13 DEF FinishesOrContinues
  <2>2. UNCHANGED <<used, call>> /\ \A i \in Job : Alive(i)' <=> Alive(i)
    BY <1>13, <2>1, TypeParts DEF ControlType, FinishesOrContinues, Alive, Steps
  <2> QED
    BY <2>2, SameHolders DEF Holds, Underway
<1>14. ASSUME NEW j \in Job, Records(j) PROVE SlotsBound'
  <2>1. UNCHANGED used /\ \A i \in Job : Holds(i)' <=> Holds(i)
    BY <1>14, TypeParts DEF ControlType, CallsMatch, Holds, Underway, Alive, Records, Steps
  <2> QED
    BY <2>1, SameHolders
<1>15. ASSUME NEW j \in Job, Leaves(j) PROVE SlotsBound'
  <2>1. Holds(j) /\ ~Holds(j)' /\ ReturnsSlot(j)
    BY <1>15, TypeParts DEF ControlType, CallsMatch, Holds, Underway, Alive, Leaves, Steps,
       Shows
  <2>2. \A i \in Job \ {j} : Holds(i)' <=> Holds(i)
    BY <1>15, TypeParts DEF ControlType, CallsMatch, Holds, Underway, Alive, Leaves, Steps,
       Shows
  <2> QED
    BY <2>1, <2>2, OneHolderLess
<1>16. ASSUME NEW j \in Job, Dies(j) PROVE SlotsBound'
  <2>1. Holds(j) /\ ~Holds(j)' /\ ReturnsSlot(j)
    BY <1>16, TypeParts DEF ControlType, CallsMatch, Holds, Underway, Alive, Dies, Waiting,
       Shows
  <2>2. \A i \in Job \ {j} : Holds(i)' <=> Holds(i)
    BY <1>16, TypeParts DEF ControlType, CallsMatch, Holds, Underway, Alive, Dies, Waiting,
       Shows
  <2> QED
    BY <2>1, <2>2, OneHolderLess
<1>17. ASSUME NEW j \in Job, Cancels(j) PROVE SlotsBound'
  <2>1. UNCHANGED used /\ \A i \in Job : Holds(i)' <=> Holds(i)
    BY <1>17, TypeParts DEF ControlType, CallsMatch, Holds, Underway, Alive, Cancels, Marks
  <2> QED
    BY <2>1, SameHolders
<1>18. ASSUME NEW j \in Job, NEW s \in Steer, Steers(j, s) PROVE SlotsBound'
  <2>1. UNCHANGED used /\ \A i \in Job : Holds(i)' <=> Holds(i)
    BY <1>18, TypeParts DEF ControlType, CallsMatch, Holds, Underway, Alive, Steers, Sends
  <2> QED
    BY <2>1, SameHolders
<1>19. CASE ParentBegins
  <2>1. UNCHANGED used /\ \A i \in Job : Holds(i)' <=> Holds(i)
    BY <1>19, TypeParts DEF ControlType, CallsMatch, Holds, Underway, Alive, ParentBegins,
       ParentGoes
  <2> QED
    BY <2>1, SameHolders
<1>20. CASE ParentRound
  <2>1. UNCHANGED used /\ \A i \in Job : Holds(i)' <=> Holds(i)
    BY <1>20, TypeParts DEF ControlType, CallsMatch, Holds, Underway, Alive, ParentRound,
       Folds, Landed
  <2> QED
    BY <2>1, SameHolders
<1>21. CASE ParentCallsTools
  <2>1. UNCHANGED used /\ \A i \in Job : Holds(i)' <=> Holds(i)
    BY <1>21, TypeParts DEF ControlType, CallsMatch, Holds, Underway, Alive, ParentCallsTools,
       ParentGoes
  <2> QED
    BY <2>1, SameHolders
<1>22. CASE ParentAnswers
  <2>1. UNCHANGED used /\ \A i \in Job : Holds(i)' <=> Holds(i)
    BY <1>22, TypeParts DEF ControlType, CallsMatch, Holds, Underway, Alive, ParentAnswers,
       ParentGoes, Absent, Unfinished
  <2> QED
    BY <2>1, SameHolders
<1>23. CASE ParentFinishesTools
  <2>1. UNCHANGED used /\ \A i \in Job : Holds(i)' <=> Holds(i)
    BY <1>23, TypeParts DEF ControlType, CallsMatch, Holds, Underway, Alive,
       ParentFinishesTools, ParentGoes
  <2> QED
    BY <2>1, SameHolders
<1>24. CASE Cancelled
  <2>1. UNCHANGED used /\ \A i \in Job : Holds(i)' <=> Holds(i)
    BY <1>24, TypeParts DEF ControlType, CallsMatch, Holds, Underway, Alive, Cancelled, Marks
  <2> QED
    BY <2>1, SameHolders
<1>25. CASE Interrupts
  <2>1. UNCHANGED used /\ \A i \in Job : Holds(i)' <=> Holds(i)
    BY <1>25, TypeParts DEF ControlType, CallsMatch, Holds, Underway, Alive, Interrupts
  <2> QED
    BY <2>1, SameHolders
<1>26. CASE ClearAborts
  <2>1. UNCHANGED used /\ \A i \in Job : Holds(i)' <=> Holds(i)
    BY <1>26, TypeParts DEF ControlType, CallsMatch, Holds, Underway, Alive, ClearAborts
  <2> QED
    BY <2>1, SameHolders
<1>27. CASE ClearForgets
  <2>1. UNCHANGED used /\ \A i \in Job : Holds(i)' <=> Holds(i)
    BY <1>27, TypeParts DEF ControlType, CallsMatch, Holds, Underway, Alive, ClearForgets,
       Absent
  <2> QED
    BY <2>1, SameHolders
<1> QED
  BY <1>1, <1>2, <1>3, <1>4, <1>5, <1>6, <1>7, <1>8, <1>9, <1>10, <1>11, <1>12, <1>13, <1>14,
     <1>15, <1>16, <1>17, <1>18, <1>19, <1>20, <1>21, <1>22, <1>23, <1>24, <1>25, <1>26, <1>27
     DEF Next, ParentStep, CallStep, WorkerStep

LEMMA InFlightCount ==
    SlotsBound => /\ IsFiniteSet(InFlight) /\ Cardinality(InFlight) \in Nat
                  /\ Cardinality(InFlight) <= Cap["read"] + Cap["write"]
<1> HAVE SlotsBound
<1>1. "read" \in Kinds /\ "write" \in Kinds
  BY DEF Kinds
<1>2. /\ IsFiniteSet(Holders("read")) /\ Cardinality(Holders("read")) \in Nat
      /\ IsFiniteSet(Holders("write")) /\ Cardinality(Holders("write")) \in Nat
  BY <1>1, HoldersFinite
<1>3. InFlight \subseteq Holders("read") \cup Holders("write")
  BY DEF InFlight, Holders, Alive, Kind
<1>4. /\ IsFiniteSet(Holders("read") \cup Holders("write"))
      /\ Cardinality(Holders("read") \cup Holders("write"))
            = Cardinality(Holders("read")) + Cardinality(Holders("write"))
                - Cardinality(Holders("read") \cap Holders("write"))
  BY <1>2, FS_Union
<1>5. Cardinality(Holders("read") \cap Holders("write")) \in Nat
  BY <1>2, FS_Intersection, FS_CardinalityType
<1>6. IsFiniteSet(InFlight)
      /\ Cardinality(InFlight) <= Cardinality(Holders("read") \cup Holders("write"))
  BY <1>3, <1>4, FS_Subset
<1>7. Cardinality(InFlight) \in Nat /\ Cardinality(Holders("read") \cup Holders("write")) \in Nat
  BY <1>4, <1>6, FS_CardinalityType
<1>8. /\ Cardinality(Holders("read")) <= Cap["read"] /\ Cap["read"] \in Nat
      /\ Cardinality(Holders("write")) <= Cap["write"] /\ Cap["write"] \in Nat
  BY <1>1, LimitsAssumption DEF SlotsBound
<1> QED
  BY <1>2, <1>4, <1>5, <1>6, <1>7, <1>8

\* The budget is not overrun further by a step that starts no call.
LEMMA NothingStarts ==
    ASSUME TypeOK, TypeOK', SlotsBound, OvershootBounded,
           spent' <= spent, InFlight' \subseteq InFlight, parent' = "calling" => parent = "calling"
    PROVE  OvershootBounded'
<1>1. /\ IsFiniteSet(InFlight) /\ Cardinality(InFlight) \in Nat
      /\ Cardinality(InFlight') <= Cardinality(InFlight) /\ Cardinality(InFlight') \in Nat
  BY InFlightCount, FS_Subset, FS_CardinalityType
<1>2. spent \in Nat /\ spent' \in Nat /\ MaxCost \in Nat /\ Cap["read"] \in Nat /\ Cap["write"] \in Nat
  BY LimitsAssumption DEF TypeOK, Kinds
<1> QED
  BY <1>1, <1>2 DEF OvershootBounded

\* Nor by one that starts a call, while the cost is below the limit.
LEMMA StartsWithinBudget ==
    ASSUME TypeOK, SlotsBound', WithinBudget, UNCHANGED spent
    PROVE  OvershootBounded'
<1>1. /\ Cardinality(InFlight') \in Nat
      /\ Cardinality(InFlight') <= Cap["read"] + Cap["write"]
  <2>1. SlotsBound' => (/\ IsFiniteSet(InFlight) /\ Cardinality(InFlight) \in Nat
                        /\ Cardinality(InFlight) <= Cap["read"] + Cap["write"])'
    BY InFlightCount, PTL
  <2> QED
    BY <2>1
<1>2. spent \in Nat /\ MaxCost \in Nat /\ Cap["read"] \in Nat /\ Cap["write"] \in Nat
  BY LimitsAssumption DEF TypeOK, Kinds
<1> QED
  BY <1>1, <1>2 DEF OvershootBounded, WithinBudget

\* Nor by one that accounts for a call that was under way.
LEMMA CallAccounted ==
    ASSUME TypeOK, SlotsBound, OvershootBounded, spent' = spent + 1,
           \/ /\ UNCHANGED parent
              /\ \E j \in InFlight : InFlight' = InFlight \ {j}
           \/ /\ parent = "calling" /\ parent' # "calling"
              /\ InFlight' = InFlight
    PROVE  OvershootBounded'
<1>1. IsFiniteSet(InFlight) /\ Cardinality(InFlight) \in Nat
  BY InFlightCount
<1>2. spent \in Nat /\ MaxCost \in Nat /\ Cap["read"] \in Nat /\ Cap["write"] \in Nat
  BY LimitsAssumption DEF TypeOK, Kinds
<1>3. CASE /\ UNCHANGED parent
           /\ \E j \in InFlight : InFlight' = InFlight \ {j}
  <2>1. PICK j \in InFlight : InFlight' = InFlight \ {j}
    BY <1>3
  <2>2. Cardinality(InFlight') = Cardinality(InFlight) - 1
    BY <1>1, <2>1, FS_RemoveElement
  <2> QED
    BY <1>1, <1>2, <1>3, <2>2 DEF OvershootBounded
<1>4. CASE parent = "calling" /\ parent' # "calling" /\ InFlight' = InFlight
  BY <1>1, <1>2, <1>4 DEF OvershootBounded
<1> QED
  BY <1>3, <1>4

LEMMA BudgetStep ==
    ASSUME TypeOK, SlotsBound, TypeOK', SlotsBound', OvershootBounded, [Next]_vars
    PROVE  OvershootBounded'
<1> USE DEF vars, budget, seen, ghosts
<1>1. CASE UNCHANGED vars
  <2>1. spent' <= spent /\ InFlight' \subseteq InFlight
        /\ (parent' = "calling" => parent = "calling")
    BY <1>1, TypeParts DEF CountsType, InFlight
  <2> QED
    BY <2>1, NothingStarts
<1>2. ASSUME NEW j \in Job, Delegates(j) PROVE OvershootBounded'
  <2>1. spent' <= spent /\ InFlight' \subseteq InFlight
        /\ (parent' = "calling" => parent = "calling")
    BY <1>2, TypeParts DEF ControlType, CountsType, InFlight, Delegates, TakesSlot, Refused
  <2> QED
    BY <2>1, NothingStarts
<1>3. ASSUME NEW j \in Job, Builds(j) PROVE OvershootBounded'
  <2>1. spent' <= spent /\ InFlight' \subseteq InFlight
        /\ (parent' = "calling" => parent = "calling")
    BY <1>3, TypeParts DEF ControlType, CountsType, InFlight, Builds
  <2> QED
    BY <2>1, NothingStarts
<1>4. ASSUME NEW j \in Job, DropsCall(j) PROVE OvershootBounded'
  <2>1. spent' <= spent /\ InFlight' \subseteq InFlight
        /\ (parent' = "calling" => parent = "calling")
    BY <1>4, TypeParts DEF ControlType, CountsType, InFlight, DropsCall, ReturnsSlot
  <2> QED
    BY <2>1, NothingStarts
<1>5. ASSUME NEW j \in Job, Registers(j) PROVE OvershootBounded'
  <2>1. spent' <= spent /\ InFlight' \subseteq InFlight
        /\ (parent' = "calling" => parent = "calling")
    BY <1>5, TypeParts DEF ControlType, CountsType, InFlight, Registers
  <2> QED
    BY <2>1, NothingStarts
<1>6. ASSUME NEW j \in Job, Publishes(j) PROVE OvershootBounded'
  <2>1. spent' <= spent /\ InFlight' \subseteq InFlight
        /\ (parent' = "calling" => parent = "calling")
    BY <1>6, TypeParts DEF ControlType, CountsType, InFlight, Publishes, Unfinished
  <2> QED
    BY <2>1, NothingStarts
<1>7. ASSUME NEW j \in Job, Begins(j) PROVE OvershootBounded'
  <2>1. spent' <= spent /\ InFlight' \subseteq InFlight
        /\ (parent' = "calling" => parent = "calling")
    BY <1>7, TypeParts DEF ControlType, CountsType, InFlight, Begins, Steps, Shows
  <2> QED
    BY <2>1, NothingStarts
<1>8. ASSUME NEW j \in Job, Opens(j) PROVE OvershootBounded'
  <2>1. spent' <= spent /\ InFlight' \subseteq InFlight
        /\ (parent' = "calling" => parent = "calling")
    BY <1>8, TypeParts DEF ControlType, CountsType, InFlight, Opens, Breaks, Shows
  <2> QED
    BY <2>1, NothingStarts
<1>9. ASSUME NEW j \in Job, Round(j) PROVE OvershootBounded'
  <2>1. CASE WithinBudget
    BY <1>9, <2>1, StartsWithinBudget DEF Round
  <2>2. CASE ~WithinBudget
    <3>1. spent' <= spent /\ InFlight' \subseteq InFlight
          /\ (parent' = "calling" => parent = "calling")
      BY <1>9, <2>2, TypeParts DEF ControlType, CountsType, InFlight, Round, Breaks
    <3> QED
      BY <3>1, NothingStarts
  <2> QED
    BY <2>1, <2>2
<1>10. ASSUME NEW j \in Job, Fails(j) PROVE OvershootBounded'
  <2>1. spent' <= spent /\ InFlight' \subseteq InFlight
        /\ (parent' = "calling" => parent = "calling")
    BY <1>10, TypeParts DEF ControlType, CountsType, InFlight, Fails, Breaks, Shows
  <2> QED
    BY <2>1, NothingStarts
<1>11. ASSUME NEW j \in Job, Replies(j) PROVE OvershootBounded'
  <2>1. spent' <= spent /\ InFlight' \subseteq InFlight
        /\ (parent' = "calling" => parent = "calling")
    BY <1>11, TypeParts DEF ControlType, CountsType, InFlight, Replies, Steps
  <2> QED
    BY <2>1, NothingStarts
<1>12. ASSUME NEW j \in Job, Accounts(j) PROVE OvershootBounded'
  <2>1. spent' = spent + 1 /\ UNCHANGED parent /\ j \in InFlight /\ InFlight' = InFlight \ {j}
    BY <1>12, TypeParts DEF ControlType, CountsType, InFlight, Accounts, Steps
  <2> QED
    BY <2>1, CallAccounted
<1>13. ASSUME NEW j \in Job, FinishesOrContinues(j) PROVE OvershootBounded'
  <2>1. Steps(j, "answered", "begun") \/ Steps(j, "answered", "saving")
    BY <1>13 DEF FinishesOrContinues
  <2>2. UNCHANGED <<spent, parent>> /\ InFlight' \subseteq InFlight
    BY <1>13, <2>1, TypeParts DEF ControlType, CountsType, InFlight, FinishesOrContinues, Steps
  <2> QED
    BY <2>2, TypeParts, NothingStarts DEF CountsType
<1>14. ASSUME NEW j \in Job, Records(j) PROVE OvershootBounded'
  <2>1. spent' <= spent /\ InFlight' \subseteq InFlight
        /\ (parent' = "calling" => parent = "calling")
    BY <1>14, TypeParts DEF ControlType, CountsType, InFlight, Records, Steps
  <2> QED
    BY <2>1, NothingStarts
<1>15. ASSUME NEW j \in Job, Leaves(j) PROVE OvershootBounded'
  <2>1. spent' <= spent /\ InFlight' \subseteq InFlight
        /\ (parent' = "calling" => parent = "calling")
    BY <1>15, TypeParts DEF ControlType, CountsType, InFlight, Leaves, Steps, Shows, ReturnsSlot
  <2> QED
    BY <2>1, NothingStarts
<1>16. ASSUME NEW j \in Job, Dies(j) PROVE OvershootBounded'
  <2>1. spent' <= spent /\ InFlight' \subseteq InFlight
        /\ (parent' = "calling" => parent = "calling")
    BY <1>16, TypeParts DEF ControlType, CountsType, InFlight, Dies, Waiting, Shows, ReturnsSlot
  <2> QED
    BY <2>1, NothingStarts
<1>17. ASSUME NEW j \in Job, Cancels(j) PROVE OvershootBounded'
  <2>1. spent' <= spent /\ InFlight' \subseteq InFlight
        /\ (parent' = "calling" => parent = "calling")
    BY <1>17, TypeParts DEF ControlType, CountsType, InFlight, Cancels, Marks
  <2> QED
    BY <2>1, NothingStarts
<1>18. ASSUME NEW j \in Job, NEW s \in Steer, Steers(j, s) PROVE OvershootBounded'
  <2>1. spent' <= spent /\ InFlight' \subseteq InFlight
        /\ (parent' = "calling" => parent = "calling")
    BY <1>18, TypeParts DEF ControlType, CountsType, InFlight, Steers, Sends
  <2> QED
    BY <2>1, NothingStarts
<1>19. CASE ParentBegins
  <2>1. spent' <= spent /\ InFlight' \subseteq InFlight
        /\ (parent' = "calling" => parent = "calling")
    BY <1>19, TypeParts DEF ControlType, CountsType, InFlight, ParentBegins, ParentGoes
  <2> QED
    BY <2>1, NothingStarts
<1>20. CASE ParentRound
  <2>1. CASE WithinBudget
    BY <1>20, <2>1, StartsWithinBudget DEF ParentRound
  <2>2. CASE ~WithinBudget
    <3>1. spent' <= spent /\ InFlight' \subseteq InFlight
          /\ (parent' = "calling" => parent = "calling")
      BY <1>20, <2>2, TypeParts DEF ControlType, CountsType, InFlight, ParentRound
    <3> QED
      BY <3>1, NothingStarts
  <2> QED
    BY <2>1, <2>2
<1>21. CASE ParentCallsTools
  <2>1. spent' = spent + 1 /\ parent = "calling" /\ parent' # "calling" /\ InFlight' = InFlight
    BY <1>21 DEF InFlight, ParentCallsTools, ParentGoes
  <2> QED
    BY <2>1, CallAccounted
<1>22. CASE ParentAnswers
  <2>1. spent' = spent + 1 /\ parent = "calling" /\ parent' # "calling" /\ InFlight' = InFlight
    BY <1>22 DEF InFlight, ParentAnswers, ParentGoes, Absent, Unfinished
  <2> QED
    BY <2>1, CallAccounted
<1>23. CASE ParentFinishesTools
  <2>1. spent' <= spent /\ InFlight' \subseteq InFlight
        /\ (parent' = "calling" => parent = "calling")
    BY <1>23, TypeParts DEF ControlType, CountsType, InFlight, ParentFinishesTools, ParentGoes
  <2> QED
    BY <2>1, NothingStarts
<1>24. CASE Cancelled
  <2>1. spent' <= spent /\ InFlight' \subseteq InFlight
        /\ (parent' = "calling" => parent = "calling")
    BY <1>24, TypeParts DEF ControlType, CountsType, InFlight, Cancelled, Marks
  <2> QED
    BY <2>1, NothingStarts
<1>25. CASE Interrupts
  <2>1. spent' <= spent /\ InFlight' \subseteq InFlight
        /\ (parent' = "calling" => parent = "calling")
    BY <1>25, TypeParts DEF ControlType, CountsType, InFlight, Interrupts
  <2> QED
    BY <2>1, NothingStarts
<1>26. CASE ClearAborts
  <2>1. spent' <= spent /\ InFlight' \subseteq InFlight
        /\ (parent' = "calling" => parent = "calling")
    BY <1>26, TypeParts DEF ControlType, CountsType, InFlight, ClearAborts
  <2> QED
    BY <2>1, NothingStarts
<1>27. CASE ClearForgets
  <2>1. spent' <= spent /\ InFlight' \subseteq InFlight
        /\ (parent' = "calling" => parent = "calling")
    BY <1>27, TypeParts DEF ControlType, CountsType, InFlight, ClearForgets, Absent
  <2> QED
    BY <2>1, NothingStarts
<1> QED
  BY <1>1, <1>2, <1>3, <1>4, <1>5, <1>6, <1>7, <1>8, <1>9, <1>10, <1>11, <1>12, <1>13, <1>14,
     <1>15, <1>16, <1>17, <1>18, <1>19, <1>20, <1>21, <1>22, <1>23, <1>24, <1>25, <1>26, <1>27
     DEF Next, ParentStep, CallStep, WorkerStep

-----------------------------------------------------------------------------
(* Messages to a running sub-agent.                                        *)

LEMMA ToSetAppend ==
    ASSUME NEW S, NEW q \in Seq(S), NEW x \in S
    PROVE  ToSet(Append(q, x)) = ToSet(q) \cup {x}
<1>1. /\ DOMAIN q = 1 .. Len(q) /\ Len(q) \in Nat
      /\ DOMAIN Append(q, x) = 1 .. Len(q) + 1
      /\ \A i \in 1 .. Len(q) : Append(q, x)[i] = q[i]
      /\ Append(q, x)[Len(q) + 1] = x
  OBVIOUS
<1>2. \A i \in 1 .. Len(q) + 1 : i \in 1 .. Len(q) \/ i = Len(q) + 1
  BY <1>1
<1>3. 1 .. Len(q) \subseteq 1 .. Len(q) + 1 /\ Len(q) + 1 \in 1 .. Len(q) + 1
  BY <1>1
<1> QED
  BY <1>1, <1>2, <1>3, Zenon DEF ToSet

LEMMA ToSetTail ==
    ASSUME NEW S, NEW q \in Seq(S), q # << >>
    PROVE  ToSet(q) = {q[1]} \cup ToSet(Tail(q))
<1>1. /\ DOMAIN q = 1 .. Len(q) /\ Len(q) \in Nat \ {0}
      /\ DOMAIN Tail(q) = 1 .. Len(q) - 1
      /\ \A i \in 1 .. Len(q) - 1 : Tail(q)[i] = q[i + 1]
  OBVIOUS
<1>2. ToSet(q) \subseteq {q[1]} \cup ToSet(Tail(q))
  <2> SUFFICES ASSUME NEW i \in 1 .. Len(q) PROVE q[i] \in {q[1]} \cup ToSet(Tail(q))
    BY <1>1 DEF ToSet
  <2>1. CASE i = 1
    BY <2>1
  <2>2. CASE i # 1
    <3>1. i - 1 \in DOMAIN Tail(q) /\ Tail(q)[i - 1] = q[i]
      BY <1>1, <2>2
    <3> QED
      BY <3>1 DEF ToSet
  <2> QED
    BY <2>1, <2>2
<1>3. q[1] \in ToSet(q)
  BY <1>1 DEF ToSet
<1>4. ToSet(Tail(q)) \subseteq ToSet(q)
  <2> SUFFICES ASSUME NEW i \in 1 .. Len(q) - 1 PROVE Tail(q)[i] \in ToSet(q)
    BY <1>1 DEF ToSet
  <2>1. i + 1 \in DOMAIN q /\ Tail(q)[i] = q[i + 1]
    BY <1>1
  <2> QED
    BY <2>1 DEF ToSet
<1> QED
  BY <1>2, <1>3, <1>4

LEMMA ToSetEmpty == ToSet(<< >>) = {}
BY DEF ToSet

LEMMA SteersStep ==
    ASSUME TypeOK, CallsMatch, RunsAreShown, SteersHeard, [Next]_vars
    PROVE  SteersHeard'
<1> USE DEF vars, budget, seen, ghosts
<1>1. CASE UNCHANGED vars
  BY <1>1 DEF ControlType, MessagesType, CallsMatch, SteersHeard, RunLive, Guarded
<1>2. ASSUME NEW j \in Job, Delegates(j) PROVE SteersHeard'
  BY <1>2, TypeParts DEF ControlType, MessagesType, CallsMatch, SteersHeard, RunLive, Guarded,
     Delegates, TakesSlot, Refused
<1>3. ASSUME NEW j \in Job, Builds(j) PROVE SteersHeard'
  BY <1>3, TypeParts DEF ControlType, MessagesType, CallsMatch, SteersHeard, RunLive, Guarded,
     Builds
<1>4. ASSUME NEW j \in Job, DropsCall(j) PROVE SteersHeard'
  BY <1>4, TypeParts DEF ControlType, MessagesType, CallsMatch, SteersHeard, RunLive, Guarded,
     DropsCall, ReturnsSlot
<1>5. ASSUME NEW j \in Job, Registers(j) PROVE SteersHeard'
  BY <1>5, TypeParts DEF ControlType, MessagesType, CallsMatch, SteersHeard, RunLive, Guarded,
     Registers
<1>6. ASSUME NEW j \in Job, Publishes(j) PROVE SteersHeard'
  BY <1>6, TypeParts DEF ControlType, MessagesType, CallsMatch, SteersHeard, RunLive, Guarded,
     Publishes, Unfinished
<1>7. ASSUME NEW j \in Job, Begins(j) PROVE SteersHeard'
  <2>1. CASE entry[j].shown = "absent"
    BY <1>7, <2>1, TypeParts DEF ControlType, MessagesType, CallsMatch, SteersHeard, RunLive,
       Guarded, Begins, Steps
  <2>2. CASE entry[j].shown # "absent"
    <3>1. queue[j] \in Seq(Steer \cup {Brief})
      BY TypeParts DEF MessagesType
    <3>2. ToSet(Append(queue[j], Brief)) = ToSet(queue[j]) \cup {Brief}
      BY <3>1, ToSetAppend
    <3> QED
      BY <1>7, <2>2, <3>2, TypeParts DEF ControlType, MessagesType, CallsMatch, SteersHeard,
         RunLive, Guarded, Begins, Steps
  <2> QED
    BY <2>1, <2>2
<1>8. ASSUME NEW j \in Job, Opens(j) PROVE SteersHeard'
  <2> DEFINE opener == {queue[j][i] : i \in {1} \cap DOMAIN queue[j]}
  <2>1. CASE queue[j] = << >>
    <3>1. opener = {}
      BY <2>1
    <3>2. queue' = queue
      BY <1>8, <3>1 DEF Opens
    <3> QED
      BY <1>8, <3>2, TypeParts DEF ControlType, MessagesType, CallsMatch, SteersHeard,
         RunLive, Guarded, Opens, Breaks
  <2>2. CASE queue[j] # << >>
    <3>1. queue[j] \in Seq(Steer \cup {Brief})
      BY TypeParts DEF MessagesType
    <3>2. opener = {queue[j][1]}
      <4>1. 1 \in DOMAIN queue[j]
        BY <2>2, <3>1
      <4> QED
        BY <4>1
    <3>3. ToSet(queue[j]) = opener \cup ToSet(Tail(queue[j]))
      BY <2>2, <3>1, <3>2, ToSetTail
    <3>4. /\ queue' = [queue EXCEPT ![j] = Tail(queue[j])] /\ worker[j] = "begun"
          /\ \/ /\ heard' = [heard EXCEPT ![j] = heard[j] \cup opener]
                /\ worker' = [worker EXCEPT ![j] = "top"] /\ UNCHANGED broken
             \/ /\ worker' = [worker EXCEPT ![j] = "saving"] /\ UNCHANGED heard
                /\ broken' = broken \cup {j}
      BY <1>8, <3>2 DEF Opens, Breaks
    <3>5. UNCHANGED <<call, aborted, late, said>>
      BY <1>8 DEF Opens
    <3> HIDE DEF opener
    <3> QED
      BY <3>3, <3>4, <3>5, TypeParts DEF ControlType, MessagesType, CallsMatch, SteersHeard,
         RunLive, Guarded
  <2> QED
    BY <2>1, <2>2
<1>9. ASSUME NEW j \in Job, Round(j) PROVE SteersHeard'
  BY <1>9, TypeParts DEF ControlType, MessagesType, CallsMatch, SteersHeard, RunLive, Guarded,
     Round, Breaks, Shows
<1>10. ASSUME NEW j \in Job, Fails(j) PROVE SteersHeard'
  BY <1>10, TypeParts DEF ControlType, MessagesType, CallsMatch, SteersHeard, RunLive,
     Guarded, Fails, Breaks, Shows
<1>11. ASSUME NEW j \in Job, Replies(j) PROVE SteersHeard'
  BY <1>11, TypeParts DEF ControlType, MessagesType, CallsMatch, SteersHeard, RunLive,
     Guarded, Replies, Steps
<1>12. ASSUME NEW j \in Job, Accounts(j) PROVE SteersHeard'
  BY <1>12, TypeParts DEF ControlType, MessagesType, CallsMatch, SteersHeard, RunLive,
     Guarded, Accounts, Steps
<1>13. ASSUME NEW j \in Job, FinishesOrContinues(j) PROVE SteersHeard'
  <2>1. UNCHANGED <<call, queue, heard, broken, aborted, late, said>>
    BY <1>13 DEF FinishesOrContinues
  <2>2. CASE Steps(j, "answered", "begun")
    BY <2>1, <2>2, TypeParts DEF ControlType, MessagesType, CallsMatch, SteersHeard, RunLive,
       Guarded, Steps
  <2>3. CASE Steps(j, "answered", "saving") /\ ~(queue[j] # << >> /\ entry[j].shown # "absent")
    <3>1. ToSet(queue[j]) = {} \/ j \in late \cup aborted
      BY <2>3, ToSetEmpty DEF RunsAreShown, RunLive, Guarded, Steps
    <3> QED
      BY <2>1, <2>3, <3>1, TypeParts DEF ControlType, MessagesType, CallsMatch, SteersHeard,
         RunLive, Guarded, Steps
  <2> QED
    BY <1>13, <2>2, <2>3 DEF FinishesOrContinues
<1>14. ASSUME NEW j \in Job, Records(j) PROVE SteersHeard'
  BY <1>14, TypeParts DEF ControlType, MessagesType, CallsMatch, SteersHeard, RunLive,
     Guarded, Records, Steps
<1>15. ASSUME NEW j \in Job, Leaves(j) PROVE SteersHeard'
  BY <1>15, TypeParts DEF ControlType, MessagesType, CallsMatch, SteersHeard, RunLive,
     Guarded, Leaves, Steps, Shows, ReturnsSlot
<1>16. ASSUME NEW j \in Job, Dies(j) PROVE SteersHeard'
  BY <1>16, TypeParts DEF ControlType, MessagesType, CallsMatch, SteersHeard, RunLive,
     Guarded, Dies, Waiting, Shows, ReturnsSlot
<1>17. ASSUME NEW j \in Job, Cancels(j) PROVE SteersHeard'
  BY <1>17, TypeParts DEF ControlType, MessagesType, CallsMatch, SteersHeard, RunLive,
     Guarded, Cancels, Marks
<1>18. ASSUME NEW j \in Job, NEW s \in Steer, Steers(j, s) PROVE SteersHeard'
  <2>1. CASE entry[j].shown = "running"
    <3>1. queue[j] \in Seq(Steer \cup {Brief})
      BY TypeParts DEF MessagesType
    <3>2. ToSet(Append(queue[j], s)) = ToSet(queue[j]) \cup {s}
      BY <3>1, ToSetAppend
    <3>3. RunLive(j) \/ j \in broken
      BY <2>1 DEF RunsAreShown
    <3>4. /\ queue' = [queue EXCEPT ![j] = Append(queue[j], s)] /\ said' = said \cup {<<s, j>>}
          /\ UNCHANGED <<call, worker, heard, broken, aborted, late>>
      BY <1>18, <2>1 DEF Steers, Sends
    <3>5. queue'[j] = Append(queue[j], s) /\ \A i \in Job \ {j} : queue'[i] = queue[i]
      BY <3>4, TypeParts DEF MessagesType
    <3>6. \A i \in Job : RunLive(i)' <=> RunLive(i)
      BY <3>4 DEF RunLive
    <3> SUFFICES ASSUME NEW t \in Steer, NEW i \in Job, <<t, i>> \in said'
                 PROVE  \/ t \in heard'[i]
                        \/ t \in ToSet(queue'[i]) /\ RunLive(i)'
                        \/ i \in broken' \cup aborted' \cup late'
      BY DEF SteersHeard
    <3>7. CASE <<t, i>> \in said
      <4>1. \/ t \in heard[i]
            \/ t \in ToSet(queue[i]) /\ RunLive(i)
            \/ i \in broken \cup aborted \cup late
        BY <3>7 DEF SteersHeard
      <4> QED
        BY <3>2, <3>4, <3>5, <3>6, <4>1
    <3>8. CASE t = s /\ i = j
      BY <3>2, <3>3, <3>4, <3>5, <3>6, <3>8
    <3> QED
      BY <3>4, <3>7, <3>8
  <2>2. CASE entry[j].shown # "running"
    BY <1>18, <2>2, TypeParts DEF ControlType, MessagesType, CallsMatch, SteersHeard, RunLive,
       Guarded, Steers, Sends
  <2> QED
    BY <2>1, <2>2
<1>19. CASE ParentBegins
  BY <1>19, TypeParts DEF ControlType, MessagesType, CallsMatch, SteersHeard, RunLive,
     Guarded, ParentBegins, ParentGoes
<1>20. CASE ParentRound
  BY <1>20, TypeParts DEF ControlType, MessagesType, CallsMatch, SteersHeard, RunLive,
     Guarded, ParentRound, Folds, Landed
<1>21. CASE ParentCallsTools
  BY <1>21, TypeParts DEF ControlType, MessagesType, CallsMatch, SteersHeard, RunLive,
     Guarded, ParentCallsTools, ParentGoes
<1>22. CASE ParentAnswers
  BY <1>22, TypeParts DEF ControlType, MessagesType, CallsMatch, SteersHeard, RunLive,
     Guarded, ParentAnswers, ParentGoes, Absent, Unfinished
<1>23. CASE ParentFinishesTools
  BY <1>23, TypeParts DEF ControlType, MessagesType, CallsMatch, SteersHeard, RunLive,
     Guarded, ParentFinishesTools, ParentGoes
<1>24. CASE Cancelled
  BY <1>24, TypeParts DEF ControlType, MessagesType, CallsMatch, SteersHeard, RunLive,
     Guarded, Cancelled, Marks
<1>25. CASE Interrupts
  BY <1>25, TypeParts DEF ControlType, MessagesType, CallsMatch, SteersHeard, RunLive,
     Guarded, Interrupts
<1>26. CASE ClearAborts
  BY <1>26, TypeParts DEF ControlType, MessagesType, CallsMatch, SteersHeard, RunLive,
     Guarded, ClearAborts
<1>27. CASE ClearForgets
  BY <1>27, TypeParts DEF ControlType, MessagesType, CallsMatch, SteersHeard, RunLive,
     Guarded, ClearForgets, Absent
<1> QED
  BY <1>1, <1>2, <1>3, <1>4, <1>5, <1>6, <1>7, <1>8, <1>9, <1>10, <1>11, <1>12, <1>13, <1>14,
     <1>15, <1>16, <1>17, <1>18, <1>19, <1>20, <1>21, <1>22, <1>23, <1>24, <1>25, <1>26, <1>27
     DEF Next, ParentStep, CallStep, WorkerStep

-----------------------------------------------------------------------------
(* The theorems.                                                           *)

LEMMA IndStep == Ind /\ [Next]_vars => Ind'
<1> SUFFICES ASSUME Ind, [Next]_vars PROVE Ind'
  OBVIOUS
<1>1. TypeOK'
  BY TypeStep DEF Ind
<1>2. SlotsBound'
  BY SlotsStep DEF Ind
<1>3. OvershootBounded'
  BY <1>1, <1>2, BudgetStep DEF Ind
<1>4. CallsMatch' /\ CallsAreBatched' /\ HandlesKept' /\ ClearFinds' /\ OldOnes'
  BY CallsStep, BatchStep, HandlesStep, ClearStep, OldStep DEF Ind
<1>5. RunsAreShown' /\ UnpolledIsOwed' /\ RowsTell'
  BY ShownStep, UnpolledStep, RowsStep DEF Ind
<1>6. SteersHeard'
  BY SteersStep DEF Ind
<1> QED
  BY <1>1, <1>2, <1>3, <1>4, <1>5, <1>6 DEF Ind

LEMMA Inductive == Spec => []Ind
BY InitInd, IndStep, PTL DEF Spec

LEMMA IndAccounts == Ind => ResultsAccounted
<1> SUFFICES ASSUME Ind, NEW j \in Job
             PROVE  /\ told[j] <= 1
                    /\ worker[j] = "gone" /\ j \notin old =>
                          \/ told[j] = 1 \/ row[j] = "done" \/ clearing
                          \/ j \in silenced \cup cut \cup {cancelling}
                    /\ told[j] > 0 => j \notin silenced /\ (j \notin old \ late \/ clearing)
  BY DEF ResultsAccounted
<1>1. told[j] \in Nat /\ row[j] \in {"none", "running", "done", "cancelled", "gone"}
  BY DEF Ind, TypeOK
<1>2. told[j] <= 1
  BY DEF Ind, RowsTell
<1>3. ASSUME worker[j] = "gone", j \notin old
      PROVE  told[j] = 1 \/ row[j] = "done" \/ j \in silenced \cup cut \cup {cancelling}
  <2>1. row[j] # "none"
    BY <1>3 DEF Ind, CallsMatch
  <2> QED
    BY <1>1, <1>3, <2>1 DEF Ind, RowsTell
<1>4. ASSUME told[j] > 0
      PROVE  j \notin silenced /\ (j \notin old \ late \/ clearing)
  BY <1>1, <1>4 DEF Ind, RowsTell, OldOnes
<1> QED
  BY <1>2, <1>3, <1>4

LEMMA IndReal == Ind => RunningIsReal
<1> SUFFICES ASSUME Ind, NEW j \in Job, entry[j].shown = "running"
             PROVE  Underway(j) \/ Alive(j) \/ clearing \/ j \in cut \cup {cancelling}
  BY DEF RunningIsReal
<1>1. RunLive(j) \/ clearing \/ j \in cut \cup {cancelling}
  BY DEF Ind, RunsAreShown
<1> QED
  BY <1>1 DEF RunLive, Guarded, Underway, Alive

\* The variables keep their types (SubagentSlots's counter never falls below zero).
THEOREM Types == Spec => []TypeOK
<1>1. Ind => TypeOK
  BY DEF Ind
<1> QED
  BY <1>1, Inductive, PTL

\* No more sub-agents of a kind run at once than its limit, and a slot is taken
\* exactly as long as the call or the worker it was taken for lives (SubagentSlots).
THEOREM SlotsAreCounted == Spec => []SlotsBound
<1>1. Ind => SlotsBound
  BY DEF Ind
<1> QED
  BY <1>1, Inductive, PTL

\* However many agents check the budget before any of them spends, it is exceeded by
\* no more calls than may run at once (budget_preflight, account_usage).
THEOREM OvershootIsBounded == Spec => []OvershootBounded
<1>1. Ind => OvershootBounded
  BY DEF Ind
<1> QED
  BY <1>1, Inductive, PTL

\* A message reported as steered is heard, or waits where its run will find it,
\* unless the run broke or was aborted (send_prompt, continue_or_finish).
THEOREM SteersAreHeard == Spec => []SteersHeard
<1>1. Ind => SteersHeard
  BY DEF Ind
<1> QED
  BY <1>1, Inductive, PTL

\* A worker that is gone has left one result, or was cancelled; a cancelled one is
\* not heard of again (spawn_background, drain_background, task_cancel, clear).
THEOREM ResultsAreAccounted == Spec => []ResultsAccounted
BY IndAccounts, Inductive, PTL

\* What is shown as running has a worker, or a call that is about to start it
\* (RunGuard, task_cancel, clear).
THEOREM RunningAreReal == Spec => []RunningIsReal
BY IndReal, Inductive, PTL

=============================================================================
