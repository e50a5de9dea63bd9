--------------------------- MODULE Handoff_proofs ---------------------------
(***************************************************************************)
(* The safety of a handoff, for every number of processes and every bound. *)
(*                                                                         *)
(* A lock file is created only when there is none, and removed by the      *)
(* process it names or by one that has judged it.  So OneHolder is lost in *)
(* one kind of step only, a removal that meets a lock somebody holds by    *)
(* then (LostOnlyByReap, for every instance).  Where "reapRace" is not     *)
(* allowed nobody holds the lock while somebody is about to remove it      *)
(* (ReapersAlone), and the two are inductive beside the types.             *)
(*                                                                         *)
(* OneWorker is not, since a source that is leaving works on a session     *)
(* whose lock it has let go of.  What keeps others out is the journal: the *)
(* last frame is the source's own commit, nobody may claim it while the    *)
(* source lives, and nobody may open the session past it.  JournalFollows  *)
(* says what the last frame is in each place that matters, and LeavesAlone *)
(* that nobody past the check of a claim is there beside a leaving source. *)
(* ClaimedOnce and CommittedSnapshotKept follow the same journal.          *)
(***************************************************************************)
EXTENDS Handoff, TLAPS

\* A process whose claim has been checked, or that works on the session.
Claiming == {"append"} \cup Working

\* It works on the session, and has not committed it.
Uncommitted == {"running", "saved", "prepared", "aborting"}

Places == Holding \cup Working \cup Acquiring \cup
          {"unborn", "discover", "ready", "recover", "dead"}

FrameType == [state : State, src : Proc, hash : Nat]

CommittedLast(p) == LastState = "Commit" /\ Last(frames).src = p

\* Where the last frame is known: a claim follows a commit; a source that has
\* committed finds its own commit; and while nothing fails, whoever works on the
\* session has no commit behind it.
JournalFollows ==
    /\ \A p \in Proc : pc[p] = "append" => LastState = "Commit"
    /\ \A p \in Proc : pc[p] \in {"committed", "leaving"} => CommittedLast(p)
    /\ fails = 0 => \A p \in Proc : pc[p] \in Uncommitted => LastState # "Commit"

LeavesAlone ==
    \A p, q \in Proc : pc[p] = "leaving" /\ pc[q] \in Claiming => p = q

JournalOK == JournalFollows /\ ClaimedOnce /\ CommittedSnapshotKept

\* Nobody holds the lock that somebody is about to remove.
ReapersAlone == reaping # {} => \A p \in Proc : pc[p] \notin Holding

IInv == TypeOK /\ OneHolder /\ ReapersAlone /\ LeavesAlone /\ JournalOK

-----------------------------------------------------------------------------
(* Who holds the open-lock.                                                *)

\* A move by which nobody comes to hold the lock: it stays, or goes with its holder.
Calm(p) ==
    /\ reaping' \subseteq reaping
    /\ \E to \in Places :
          /\ Moves(p, to)
          /\ \/ UNCHANGED lock /\ (to \in Holding => pc[p] \in Holding)
             \/ Releases(p) /\ to \notin Holding

\* A step that takes or breaks a lock is one of three; any other is calm.
LEMMA NextCalm ==
    ASSUME TypeOK, [Next]_vars
    PROVE  \/ UNCHANGED <<pc, lock, reaping>>
           \/ \E p \in Proc : Calm(p) \/ CreateLock(p) \/ JudgeLock(p) \/ ReapLock(p)
<1> USE DEF Calm, Places, Holding, Working, Acquiring, lockFile
<1>1. CASE UNCHANGED vars
  BY <1>1 DEF vars
<1>2. ASSUME NEW p \in Proc, Acquisition(p)
      PROVE  Calm(p) \/ CreateLock(p) \/ JudgeLock(p) \/ ReapLock(p)
  <2>1. ASSUME pc[p] \in Acquiring
        PROVE  Refused(p) \in {"dead", "recover", "ready"}
    BY <2>1 DEF Refused
  <2>2. CASE ReapFails(p)
    <3>1. pc[p] \in Acquiring
      BY <2>2 DEF ReapFails, TypeOK
    <3> QED BY <2>1, <2>2, <3>1 DEF ReapFails
  <2>3. CASE RefuseLock(p)
    BY <2>1, <2>3 DEF RefuseLock
  <2> QED BY <1>2, <2>2, <2>3 DEF Acquisition
<1>3. ASSUME NEW p \in Proc, Startup(p)
      PROVE  Calm(p)
  BY <1>3 DEF Startup, Start, Discover, DiscoverCheck
<1>4. ASSUME NEW p \in Proc, Recovery(p)
      PROVE  Calm(p)
  BY <1>4 DEF Recovery, Recover, CheckClaim, AppendClaim
<1>5. ASSUME NEW p \in Proc, Session(p)
      PROVE  Calm(p) \/ UNCHANGED <<pc, lock, reaping>>
  BY <1>5 DEF Session, Open, OpenCheck, Save, Leave, Quit
<1>6. ASSUME NEW p \in Proc, Update(p)
      PROVE  Calm(p)
  BY <1>6 DEF Update, CommitSave, AppendPrepare, AppendCommit, AppendAbort, Launch,
              LaunchFails, ExitSource
<1>7. ASSUME NEW p \in Proc, CoordinatorFails(p)
      PROVE  UNCHANGED <<pc, lock, reaping>>
  BY <1>7 DEF CoordinatorFails
<1>8. ASSUME NEW p \in Proc, Crash(p) \/ Forget(p)
      PROVE  Calm(p)
  BY <1>8 DEF Crash, Forget
<1>9. ASSUME NEW p \in Proc, NEW q \in Proc, CoordinatorLaunch(p, q)
      PROVE  Calm(q)
  BY <1>9 DEF CoordinatorLaunch
<1>10. CASE Ages
  BY <1>10 DEF Ages
<1> QED BY <1>1, <1>2, <1>3, <1>4, <1>5, <1>6, <1>7, <1>8, <1>9, <1>10 DEF Next

\* Taking the lock leads to a place that holds it.
LEMMA EntersHolding ==
    ASSUME NEW p \in Proc, pc[p] \in Acquiring
    PROVE  Entered(p) \in {"discoverCheck", "claim", "opening"}
BY DEF Acquiring, Entered

\* A removal that meets the lock of a process that holds the session: nobody held it
\* when it was judged (ReapersKept), so that lock was created since.
ReapsHeld == \E p \in Proc : ReapLock(p) /\ \E q \in Proc : pc[q] \in Holding

\* Any other step leaves the holder of the lock the process its file names.
LEMMA HolderKept ==
    ASSUME TypeOK, OneHolder, [Next]_vars, ~ReapsHeld
    PROVE  OneHolder'
<1>1. SUFFICES ASSUME NEW q \in Proc, pc'[q] \in Holding PROVE lock' = q
  BY DEF OneHolder, Holding
<1>2. pc \in [Proc -> Places]
  BY DEF TypeOK, Places
<1>3. CASE UNCHANGED <<pc, lock, reaping>>
  BY <1>1, <1>3 DEF OneHolder
<1>4. ASSUME NEW p \in Proc, Calm(p)
      PROVE  lock' = q
  <2>1. PICK to \in Places :
          /\ Moves(p, to)
          /\ \/ UNCHANGED lock /\ (to \in Holding => pc[p] \in Holding)
             \/ Releases(p) /\ to \notin Holding
    BY <1>4 DEF Calm
  <2>2. pc'[p] = to /\ (q # p => pc'[q] = pc[q])
    BY <1>2, <2>1 DEF Moves
  <2>3. CASE UNCHANGED lock /\ (to \in Holding => pc[p] \in Holding)
    BY <1>1, <2>2, <2>3 DEF OneHolder
  <2>4. CASE Releases(p) /\ to \notin Holding
    <3>1. q # p /\ lock = q
      BY <1>1, <2>2, <2>4 DEF OneHolder
    <3> QED BY <2>4, <3>1 DEF Releases, lockFile
  <2> QED BY <2>1, <2>3, <2>4
<1>5. ASSUME NEW p \in Proc, CreateLock(p)
      PROVE  lock' = q
  <2>1. pc' = [pc EXCEPT ![p] = Entered(p)] /\ lock = NoProc /\ lock' = p
    BY <1>5 DEF CreateLock, Moves, Takes
  <2>2. q # p => pc[q] \in Holding
    BY <1>1, <1>2, <2>1
  <2>3. q # p => lock = q
    BY <2>2 DEF OneHolder
  <2> QED BY <2>1, <2>3, NamesAssumption
<1>6. ASSUME NEW p \in Proc, JudgeLock(p)
      PROVE  lock' = q
  BY <1>1, <1>6 DEF JudgeLock, OneHolder, lockFile
<1>7. ASSUME NEW p \in Proc, ReapLock(p)
      PROVE  lock' = q
  BY <1>1, <1>7 DEF ReapLock, ReapsHeld
<1> QED BY <1>3, <1>4, <1>5, <1>6, <1>7, NextCalm

\* Nobody takes the lock while somebody is about to remove it, and a lock is judged
\* only when its holder is gone.
LEMMA ReapersKept ==
    ASSUME TypeOK, OneHolder, ReapersAlone, [Next]_vars, "reapRace" \notin Allowed
    PROVE  ReapersAlone'
<1>1. SUFFICES ASSUME reaping' # {}, NEW q \in Proc PROVE pc'[q] \notin Holding
  BY DEF ReapersAlone
<1>2. pc \in [Proc -> Places]
  BY DEF TypeOK, Places
<1>3. CASE UNCHANGED <<pc, lock, reaping>>
  BY <1>1, <1>3 DEF ReapersAlone
<1>4. ASSUME NEW p \in Proc, Calm(p)
      PROVE  pc'[q] \notin Holding
  <2>1. PICK to \in Places : Moves(p, to) /\ (to \in Holding => pc[p] \in Holding)
    BY <1>4 DEF Calm
  <2>2. reaping # {}
    BY <1>1, <1>4 DEF Calm
  <2> QED BY <1>2, <2>1, <2>2 DEF Moves, ReapersAlone
<1>5. ASSUME NEW p \in Proc, CreateLock(p)
      PROVE  FALSE
  BY <1>1, <1>5 DEF CreateLock
<1>6. ASSUME NEW p \in Proc, JudgeLock(p)
      PROVE  pc'[q] \notin Holding
  <2>1. lock # q \/ Gone(q)
    BY <1>6 DEF JudgeLock, MayReap
  <2>2. pc' = pc
    BY <1>6 DEF JudgeLock
  <2> QED BY <2>1, <2>2 DEF OneHolder, Gone, Holding
<1>7. ASSUME NEW p \in Proc, ReapLock(p)
      PROVE  pc'[q] \notin Holding
  BY <1>7 DEF ReapLock, ReapersAlone
<1> QED BY <1>3, <1>4, <1>5, <1>6, <1>7, NextCalm

\* So no removal meets a lock that is held.
LEMMA ReapsNobody ==
    ASSUME ReapersAlone
    PROVE  ~ReapsHeld
BY DEF ReapersAlone, ReapsHeld, ReapLock

-----------------------------------------------------------------------------
(* One process moves: what its move may do to each part of the invariant.  *)

\* Nobody joins a leaving source, and a source leaves from under the lock.
LEMMA LeavesAloneKept ==
    ASSUME TypeOK, OneHolder, LeavesAlone, NEW p \in Proc, NEW to, Moves(p, to),
           \/ to \notin Claiming
           \/ pc[p] \in Claiming /\ to # "leaving"
           \/ pc[p] = "committed" /\ to = "leaving"
           \/ to # "leaving" /\ \A q \in Proc : pc[q] # "leaving"
    PROVE  LeavesAlone'
<1>1. SUFFICES ASSUME NEW q \in Proc, NEW r \in Proc,
                      pc'[q] = "leaving", pc'[r] \in Claiming, q # r
               PROVE  FALSE
  BY DEF LeavesAlone, Claiming, Working
<1>2. pc \in [Proc -> Places]
  BY DEF TypeOK, Places
<1>3. pc'[p] = to /\ \A s \in Proc : s # p => pc'[s] = pc[s]
  BY <1>2 DEF Moves
<1>4. "leaving" \in Claiming /\ "committed" \in Claiming /\ "committed" \in Holding
  BY DEF Claiming, Working, Holding
<1>5. CASE to \notin Claiming
  BY <1>1, <1>3, <1>4, <1>5 DEF LeavesAlone
<1>6. CASE pc[p] \in Claiming /\ to # "leaving"
  BY <1>1, <1>3, <1>6 DEF LeavesAlone
<1>7. CASE pc[p] = "committed" /\ to = "leaving"
  <2>1. PICK s \in {q, r} : s # p
    BY <1>1
  <2>2. pc[s] \in Claiming
    BY <1>1, <1>3, <1>4, <2>1
  <2>3. pc[s] # "leaving"
    BY <1>4, <1>7, <2>1 DEF LeavesAlone
  <2>4. pc[s] \in Holding
    BY <2>2, <2>3 DEF Claiming, Working, Holding
  <2> QED BY <1>4, <1>7, <2>1, <2>4 DEF OneHolder
<1>8. CASE to # "leaving" /\ \A s \in Proc : pc[s] # "leaving"
  BY <1>1, <1>3, <1>8
<1> QED BY <1>5, <1>6, <1>7, <1>8

\* A move that leaves the journal and the snapshot alone.
LEMMA JournalKept ==
    ASSUME TypeOK, JournalOK, NEW p \in Proc, NEW to, Moves(p, to),
           UNCHANGED <<frames, json>>, fails' = 0 => fails = 0,
           to = "append" => LastState = "Commit",
           to \in {"committed", "leaving"} => CommittedLast(p),
           fails' = 0 /\ to \in Uncommitted => LastState # "Commit"
    PROVE  JournalOK'
<1>1. pc \in [Proc -> Places]
  BY DEF TypeOK, Places
<1>2. pc'[p] = to /\ \A q \in Proc : q # p => pc'[q] = pc[q]
  BY <1>1 DEF Moves
<1>3. LastState' = LastState /\ \A q : CommittedLast(q)' = CommittedLast(q)
  BY DEF LastState, CommittedLast
<1>4. JournalFollows'
  <2>1. \A q \in Proc : pc'[q] = "append" => LastState' = "Commit"
    BY <1>2, <1>3 DEF JournalOK, JournalFollows
  <2>2. \A q \in Proc : pc'[q] \in {"committed", "leaving"} => CommittedLast(q)'
    BY <1>2, <1>3 DEF JournalOK, JournalFollows
  <2>3. fails' = 0 => \A q \in Proc : pc'[q] \in Uncommitted => LastState' # "Commit"
    BY <1>2, <1>3 DEF JournalOK, JournalFollows
  <2> QED BY <2>1, <2>2, <2>3 DEF JournalFollows
<1>5. ClaimedOnce'
  BY DEF JournalOK, ClaimedOnce
<1>6. CommittedSnapshotKept'
  BY <1>3 DEF JournalOK, CommittedSnapshotKept
<1> QED BY <1>4, <1>5, <1>6 DEF JournalOK

\* The places from which a process writes the journal or the snapshot.
Writing == {"append", "running", "saved", "prepared", "aborting", "committed"}

\* While one process writes, the others are not in a place JournalFollows speaks
\* of.
LEMMA WriterAlone ==
    ASSUME OneHolder, LeavesAlone,
           NEW p \in Proc, pc[p] \in Writing, NEW q \in Proc, q # p
    PROVE  pc[q] \notin Claiming
<1>1. pc[p] \in Holding /\ pc[p] \in Claiming
  BY DEF Writing, Holding, Claiming, Working
<1>2. pc[q] # "leaving"
  BY <1>1 DEF LeavesAlone
<1>3. pc[q] \notin Holding
  BY <1>1 DEF OneHolder
<1> QED BY <1>2, <1>3 DEF Claiming, Working, Holding

\* A writer that appends a frame: a Claim only after a commit, a Commit only to
\* stand behind it or after a failure.
LEMMA JournalExtended ==
    ASSUME TypeOK, OneHolder, LeavesAlone, JournalOK, NEW p \in Proc, NEW to, NEW s \in State,
           Moves(p, to), pc[p] \in Writing,
           frames' = Append(frames, Frame(p, s)), json' = json, fails' = 0 => fails = 0,
           s = "Claim" => LastState = "Commit",
           to # "append",
           to \in {"committed", "leaving"} => s = "Commit",
           fails' = 0 /\ to \in Uncommitted => s # "Commit"
    PROVE  JournalOK'
<1>1. pc \in [Proc -> Places] /\ frames \in Seq(FrameType)
  BY DEF TypeOK, Places, FrameType
<1>2. pc'[p] = to /\ \A q \in Proc : q # p => pc'[q] = pc[q]
  BY <1>1 DEF Moves
<1>3. /\ Len(frames') = Len(frames) + 1
      /\ frames'[Len(frames) + 1] = Frame(p, s)
      /\ \A i \in 1..Len(frames) : frames'[i] = frames[i]
      /\ Len(frames) \in Nat /\ frames' # << >>
      /\ DOMAIN frames = 1..Len(frames) /\ DOMAIN frames' = 1..Len(frames) + 1
  BY <1>1 DEF Frame, FrameType
<1>4. LastState' = s /\ Last(frames)' = Frame(p, s)
  BY <1>3 DEF LastState, Last, Frame
<1>5. JournalFollows'
  <2>1. \A q \in Proc : q # p => pc'[q] \notin Claiming
    BY <1>2, WriterAlone
  <2>2. \A q \in Proc : pc'[q] = "append" => LastState' = "Commit"
    BY <1>2, <2>1 DEF Claiming
  <2>3. \A q \in Proc : pc'[q] \in {"committed", "leaving"} => CommittedLast(q)'
    BY <1>2, <1>4, <2>1 DEF Claiming, Working, CommittedLast, Frame
  <2>4. fails' = 0 => \A q \in Proc : pc'[q] \in Uncommitted => LastState' # "Commit"
    BY <1>2, <1>4, <2>1 DEF Claiming, Working, Uncommitted
  <2> QED BY <2>2, <2>3, <2>4 DEF JournalFollows
<1>6. ClaimedOnce'
  <2>1. SUFFICES ASSUME NEW i \in DOMAIN frames', NEW j \in DOMAIN frames', i < j,
                        frames'[i].state = "Claim", frames'[j].state = "Claim"
                 PROVE  \E k \in i..j : frames'[k].state = "Commit"
    BY DEF ClaimedOnce
  <2>2. CASE j <= Len(frames)
    <3>1. i \in DOMAIN frames /\ j \in DOMAIN frames
      BY <1>3, <2>1, <2>2
    <3>2. PICK k \in i..j : frames[k].state = "Commit"
      BY <1>3, <2>1, <3>1 DEF JournalOK, ClaimedOnce
    <3>3. frames'[k].state = "Commit"
      BY <1>3, <3>1, <3>2
    <3> QED BY <3>3
  <2>3. CASE j = Len(frames) + 1
    <3>1. s = "Claim"
      BY <1>3, <2>1, <2>3 DEF Frame
    <3>2. frames # << >> /\ frames[Len(frames)].state = "Commit"
      BY <3>1 DEF LastState, NoState, Last
    <3>3. Len(frames) \in i..j
      BY <1>3, <2>1, <2>3
    <3>4. Len(frames) \in 1..Len(frames)
      BY <1>3, <3>3, <2>1
    <3> QED BY <1>3, <3>2, <3>3, <3>4
  <2> QED BY <1>3, <2>2, <2>3
<1>7. CommittedSnapshotKept'
  BY <1>4 DEF CommittedSnapshotKept, Frame
<1> QED BY <1>5, <1>6, <1>7 DEF JournalOK

\* A working process writes a snapshot.
LEMMA SnapshotWritten ==
    ASSUME TypeOK, OneHolder, LeavesAlone, JournalOK, NEW p \in Proc,
           pc[p] = "running", pc' = pc \/ Moves(p, "saved"), UNCHANGED <<frames, fails>>
    PROVE  JournalOK'
<1>1. pc \in [Proc -> Places]
  BY DEF TypeOK, Places
<1>2. pc'[p] \in {"running", "saved"} /\ \A q \in Proc : q # p => pc'[q] = pc[q]
  BY <1>1 DEF Moves
<1>3. LastState' = LastState /\ Last(frames)' = Last(frames)
  BY DEF LastState
<1>4. fails = 0 => LastState # "Commit"
  BY DEF JournalOK, JournalFollows, Uncommitted
<1>5. JournalFollows'
  <2>1. \A q \in Proc : pc'[q] = "append" => LastState' = "Commit"
    BY <1>2, <1>3 DEF JournalOK, JournalFollows
  <2>2. \A q \in Proc : pc'[q] \in {"committed", "leaving"} => CommittedLast(q)'
    BY <1>2, <1>3 DEF JournalOK, JournalFollows, CommittedLast
  <2>3. fails' = 0 => \A q \in Proc : pc'[q] \in Uncommitted => LastState' # "Commit"
    BY <1>3, <1>4
  <2> QED BY <2>1, <2>2, <2>3 DEF JournalFollows
<1>6. ClaimedOnce' /\ CommittedSnapshotKept'
  BY <1>3, <1>4 DEF JournalOK, ClaimedOnce, CommittedSnapshotKept
<1> QED BY <1>5, <1>6 DEF JournalOK
-----------------------------------------------------------------------------
(* The types.                                                              *)

\* A frame written now is one.
LEMMA FrameTyped ==
    ASSUME TypeOK, NEW p \in Proc, NEW s \in State
    PROVE  Frame(p, s) \in FrameType
BY DEF TypeOK, Frame, FrameType

\* A counted failure stays within its bound.
LEMMA FailureTyped ==
    ASSUME TypeOK, MayFail \/ UNCHANGED fails
    PROVE  fails' \in 0..MaxFail
<1>1. fails \in 0..MaxFail /\ MaxFail \in Nat
  BY BoundsAssumption DEF TypeOK
<1> QED BY <1>1 DEF MayFail

\* Both ends of an append leave a well-formed journal and counter.
LEMMA AppendTyped ==
    ASSUME TypeOK, NEW p \in Proc, NEW s \in State,
           AppendFrame(p, s) \/ AppendFails(p, s)
    PROVE  frames' \in Seq(FrameType) /\ torn' \in BOOLEAN /\ fails' \in 0..MaxFail
<1>1. frames \in Seq(FrameType) /\ torn \in BOOLEAN /\ fails \in 0..MaxFail
  BY DEF TypeOK, FrameType
<1>2. Append(frames, Frame(p, s)) \in Seq(FrameType)
  BY <1>1, FrameTyped
<1>3. MayFail => fails' \in 0..MaxFail
  BY <1>1, BoundsAssumption DEF MayFail
<1> QED BY <1>1, <1>2, <1>3 DEF AppendFrame, AppendFails, journal

\* The last frame names its source, which is a process.
LEMMA LastTyped ==
    ASSUME TypeOK, frames # << >>
    PROVE  Last(frames) \in FrameType
<1>1. frames \in Seq(FrameType)
  BY DEF TypeOK, FrameType
<1>2. Len(frames) \in 1..Len(frames)
  BY <1>1
<1> QED BY <1>1, <1>2 DEF Last

\* What is claimable is a commit of some process.
LEMMA ClaimableTyped ==
    ASSUME TypeOK, NEW p, NEW as, Claimable(p, as)
    PROVE  /\ LastState = "Commit"
           /\ Last(frames).src \in Proc /\ Last(frames).src # NoProc
<1>1. LastState = "Commit" /\ frames # << >>
  BY DEF Claimable, ClaimableState, LastState, NoState
<1> QED BY <1>1, LastTyped, NamesAssumption DEF FrameType

\* Nobody has started and nothing is written.
LEMMA InitIInv == Init => IInv
<1> SUFFICES ASSUME Init PROVE IInv
  OBVIOUS
<1>1. TypeOK
  <2>1. /\ unix \in BOOLEAN /\ json \in 1..MaxSave + 1 /\ torn \in BOOLEAN
        /\ lock \in Proc \cup {NoProc} /\ old \in BOOLEAN /\ reaping = {}
        /\ opens \in 0..MaxOpen /\ fails \in 0..MaxFail /\ crashes \in 0..MaxCrash
    <3>1. MaxSave \in Nat /\ MaxOpen \in Nat /\ MaxFail \in Nat /\ MaxCrash \in Nat
      BY BoundsAssumption
    <3>2. /\ unix \in BOOLEAN /\ json = 1 /\ ~torn /\ lock = NoProc /\ ~old /\ reaping = {}
          /\ opens = 0 /\ fails = 0 /\ crashes = 0
          /\ torn \in BOOLEAN /\ old \in BOOLEAN
      BY DEF Init
    <3> QED BY <3>1, <3>2
  <2>2. frames \in Seq([state : State, src : Proc, hash : Nat])
    BY DEF Init
  <2>3. /\ pc \in [Proc -> Places]
        /\ claim \in [Proc -> {"discovered", "source", "successor"}]
        /\ source \in [Proc -> Proc \cup {NoProc}]
        /\ coord \in [Proc -> BOOLEAN]
    BY DEF Init, Places
  <2>4. \A p \in Proc : pc[p] = "unborn"
    BY DEF Init
  <2> QED BY <2>1, <2>2, <2>3, <2>4 DEF TypeOK, Places
<1>2. OneHolder /\ ReapersAlone /\ LeavesAlone
  BY DEF Init, OneHolder, ReapersAlone, LeavesAlone, Holding
<1>3. JournalOK
  BY DEF Init, JournalOK, JournalFollows, ClaimedOnce, CommittedSnapshotKept, LastState,
         NoState, Uncommitted
<1> QED BY <1>1, <1>2, <1>3 DEF IInv
-----------------------------------------------------------------------------
(* Moves that do several of these things at once.                          *)

Safe == LeavesAlone /\ JournalOK

\* Nobody moves, and neither the journal nor the snapshot changes.
LEMMA NobodyMoves ==
    ASSUME IInv, UNCHANGED <<pc, frames, json>>, fails' = 0 => fails = 0
    PROVE  Safe'
<1>1. LastState' = LastState /\ Last(frames)' = Last(frames)
  BY DEF LastState
<1>2. LeavesAlone'
  BY DEF IInv, LeavesAlone
<1>3. JournalOK'
  BY <1>1 DEF IInv, JournalOK, JournalFollows, CommittedLast, ClaimedOnce, CommittedSnapshotKept
<1> QED BY <1>2, <1>3 DEF Safe

\* One process moves, away from the session or about it; nothing is written.
LEMMA OutsiderMoves ==
    ASSUME IInv, NEW p \in Proc, NEW to, Moves(p, to), to \notin Claiming,
           UNCHANGED <<frames, json>>, fails' = 0 => fails = 0
    PROVE  Safe'
<1>1. to # "append" /\ to \notin {"committed", "leaving"} /\ to \notin Uncommitted
  BY DEF Claiming, Working, Uncommitted
<1>2. LeavesAlone'
  BY LeavesAloneKept DEF IInv
<1>3. JournalOK'
  BY <1>1, JournalKept DEF IInv
<1> QED BY <1>2, <1>3 DEF Safe

\* A failed append leaves the journal as it was, or appends the frame all the
\* same, which is then a failure counted.
LEMMA AppendFailsSafe ==
    ASSUME IInv, NEW p \in Proc, pc[p] \in Writing, NEW s \in State, AppendFails(p, s),
           NEW to, Moves(p, to), to \notin {"append", "committed", "leaving"}, UNCHANGED json,
           s = "Claim" => LastState = "Commit",
           fails = 0 /\ to \in Uncommitted => LastState # "Commit"
    PROVE  JournalOK'
<1>1. fails \in Nat
  BY BoundsAssumption DEF IInv, TypeOK
<1>2. CASE UNCHANGED <<frames, fails>>
  BY <1>2, JournalKept DEF IInv
<1>3. CASE UNCHANGED frames /\ MayFail
  <2>1. fails' # 0
    BY <1>1, <1>3 DEF MayFail
  <2> QED BY <1>3, <2>1, JournalKept DEF IInv
<1>4. CASE frames' = Append(frames, Frame(p, s)) /\ MayFail
  <2>1. fails' # 0
    BY <1>1, <1>4 DEF MayFail
  <2> QED BY <1>4, <2>1, JournalExtended DEF IInv
<1> QED BY <1>2, <1>3, <1>4 DEF AppendFails, journal

-----------------------------------------------------------------------------
(* Every action, in the order of Next.                                     *)

\* Taking the open-lock, or not (acquire_open_lock_mode).
LEMMA AcquisitionSafe ==
    ASSUME IInv, NEW p \in Proc, Acquisition(p)
    PROVE  Safe'
<1> USE DEF lockFile, journal, counters
<1>1. pc[p] \in Acquiring /\ fails \in Nat
  BY BoundsAssumption DEF Acquisition, CreateLock, JudgeLock, ReapLock, ReapFails, RefuseLock,
                          IInv, TypeOK
<1>2. Entered(p) \notin Claiming /\ Refused(p) \notin Claiming
  <2>1. Entered(p) \in {"discoverCheck", "claim", "opening"}
    BY <1>1, EntersHolding
  <2>2. Refused(p) \in {"dead", "recover", "ready"}
    BY <1>1 DEF Acquiring, Refused
  <2> QED BY <2>1, <2>2 DEF Claiming, Working
<1>3. CASE CreateLock(p)
  BY <1>2, <1>3, OutsiderMoves DEF CreateLock
<1>4. CASE JudgeLock(p) \/ ReapLock(p)
  BY <1>4, NobodyMoves DEF JudgeLock, ReapLock
<1>5. CASE ReapFails(p)
  <2>1. fails' # 0
    BY <1>1, <1>5 DEF ReapFails, MayFail
  <2> QED BY <1>2, <1>5, <2>1, OutsiderMoves DEF ReapFails
<1>6. CASE RefuseLock(p)
  BY <1>2, <1>6, OutsiderMoves DEF RefuseLock
<1> QED BY <1>3, <1>4, <1>5, <1>6 DEF Acquisition

\* Looking for a handoff at a start (discover_handoff).
LEMMA StartupSafe ==
    ASSUME IInv, NEW p \in Proc, Startup(p)
    PROVE  Safe'
<1> USE DEF lockFile, journal, counters, Holding, Claiming, Working
<1>1. CASE Start(p)
  BY <1>1, OutsiderMoves DEF Start
<1>2. CASE Discover(p)
  <2>1. PICK to \in {"discoverLock", "ready", "dead"} : Moves(p, to)
    BY <1>2 DEF Discover
  <2> QED BY <1>2, <2>1, OutsiderMoves DEF Discover
<1>3. CASE DiscoverCheck(p)
  <2>1. PICK to \in {"recover", "ready", "dead"} : Moves(p, to)
    BY <1>3 DEF DiscoverCheck
  <2> QED BY <1>3, <2>1, OutsiderMoves DEF DiscoverCheck
<1> QED BY <1>1, <1>2, <1>3 DEF Startup

\* A handoff is claimed only when its source does not live, or is the claimant.
LEMMA NobodyLeaving ==
    ASSUME IInv, NEW p \in Proc, pc[p] # "leaving", Claimable(p, claim[p])
    PROVE  \A q \in Proc : pc[q] # "leaving"
<1> SUFFICES ASSUME NEW q \in Proc, pc[q] = "leaving" PROVE FALSE
  OBVIOUS
<1>1. Last(frames).src = q
  BY DEF IInv, JournalOK, JournalFollows, CommittedLast
<1>2. q # p /\ ~Gone(q)
  BY DEF Gone
<1> QED BY <1>1, <1>2 DEF Claimable, SourceClaimableBy

\* Recovering and claiming one (recover_handoff, claim_locked_handoff).
LEMMA RecoverySafe ==
    ASSUME IInv, NEW p \in Proc, Recovery(p)
    PROVE  Safe'
<1> USE DEF lockFile, journal, counters
<1>1. CASE Recover(p)
  <2>1. PICK to \in {"recoverLock", "dead"} : Moves(p, to)
    BY <1>1 DEF Recover
  <2> QED BY <1>1, <2>1, OutsiderMoves DEF Recover, Holding, Claiming, Working
<1>2. CASE CheckClaim(p)
  <2>1. CASE Claimable(p, claim[p]) /\ Moves(p, "append") /\ UNCHANGED lockFile
    <3>1. LeavesAlone'
      BY <1>2, <2>1, NobodyLeaving, LeavesAloneKept DEF CheckClaim, IInv
    <3>2. JournalOK'
      BY <1>2, <2>1, ClaimableTyped, JournalKept DEF CheckClaim, IInv, Uncommitted
    <3> QED BY <3>1, <3>2 DEF Safe
  <2>2. CASE Moves(p, "dead") /\ Releases(p)
    BY <1>2, <2>2, OutsiderMoves DEF CheckClaim, Holding, Claiming, Working
  <2> QED BY <1>2, <2>1, <2>2 DEF CheckClaim
<1>3. CASE AppendClaim(p)
  <2>1. pc[p] \in Writing /\ pc[p] \in Claiming /\ LastState = "Commit" /\ "Claim" \in State
    BY <1>3 DEF AppendClaim, Writing, Claiming, State, IInv, JournalOK, JournalFollows
  <2>2. CASE AppendFrame(p, "Claim") /\ Moves(p, "running") /\ UNCHANGED lockFile
    <3>1. LeavesAlone'
      BY <2>1, <2>2, LeavesAloneKept DEF IInv
    <3>2. JournalOK'
      BY <1>3, <2>1, <2>2, JournalExtended DEF AppendClaim, AppendFrame, IInv
    <3> QED BY <3>1, <3>2 DEF Safe
  <2>3. CASE AppendFails(p, "Claim") /\ Moves(p, "dead") /\ Releases(p)
    <3>1. LeavesAlone'
      BY <2>3, LeavesAloneKept DEF IInv, Claiming, Working
    <3>2. JournalOK'
      BY <1>3, <2>1, <2>3, AppendFailsSafe DEF AppendClaim, Uncommitted
    <3> QED BY <3>1, <3>2 DEF Safe
  <2> QED BY <1>3, <2>2, <2>3 DEF AppendClaim
<1> QED BY <1>1, <1>2, <1>3 DEF Recovery

\* Resuming, saving and leaving by hand.
LEMMA SessionSafe ==
    ASSUME IInv, NEW p \in Proc, Session(p)
    PROVE  Safe'
<1> USE DEF lockFile, journal, counters
<1>1. CASE Open(p)
  BY <1>1, OutsiderMoves DEF Open, Claiming, Working
<1>2. CASE OpenCheck(p)
  <2>1. CASE ~RequiresRecovery(LastState) /\ Moves(p, "running") /\ UNCHANGED lockFile
    <3>1. LastState # "Commit"
      BY <2>1 DEF RequiresRecovery
    <3>2. \A q \in Proc : pc[q] # "leaving"
      BY <3>1 DEF IInv, JournalOK, JournalFollows, CommittedLast
    <3>3. LeavesAlone'
      BY <2>1, <3>2, LeavesAloneKept DEF IInv
    <3>4. JournalOK'
      BY <1>2, <2>1, <3>1, JournalKept DEF OpenCheck, IInv
    <3> QED BY <3>3, <3>4 DEF Safe
  <2>2. CASE Moves(p, "ready") /\ Releases(p)
    BY <1>2, <2>2, OutsiderMoves DEF OpenCheck, Holding, Claiming, Working
  <2> QED BY <1>2, <2>1, <2>2 DEF OpenCheck
<1>3. CASE Save(p)
  <2>1. LeavesAlone'
    BY <1>3 DEF Save, IInv, LeavesAlone
  <2>2. JournalOK'
    BY <1>3, SnapshotWritten DEF Save, IInv
  <2> QED BY <2>1, <2>2 DEF Safe
<1>4. CASE Leave(p)
  BY <1>4, OutsiderMoves DEF Leave, Holding, Claiming, Working
<1>5. CASE Quit(p)
  BY <1>5, OutsiderMoves DEF Quit, Holding, Claiming, Working
<1> QED BY <1>1, <1>2, <1>3, <1>4, <1>5 DEF Session

\* Without its journal the session is nobody's to recover.
LEMMA JournalRemoved ==
    ASSUME IInv, NEW p \in Proc, pc[p] = "committed", Moves(p, "running"), frames' = << >>
    PROVE  JournalOK'
<1>1. pc \in [Proc -> Places]
  BY DEF IInv, TypeOK, Places
<1>2. pc'[p] = "running" /\ \A q \in Proc : q # p => pc'[q] = pc[q]
  BY <1>1 DEF Moves
<1>3. \A q \in Proc : q # p => pc'[q] \notin Claiming
  BY <1>2, WriterAlone DEF IInv, Writing
<1>4. LastState' # "Commit"
  BY DEF LastState, NoState
<1>5. JournalFollows'
  BY <1>2, <1>3, <1>4 DEF JournalFollows, Claiming, Working
<1> QED BY <1>4, <1>5 DEF JournalOK, ClaimedOnce, CommittedSnapshotKept

\* A source appends a frame and goes on to one place, or fails to and goes on to
\* another; it keeps the lock.
LEMMA SourceAppends ==
    ASSUME IInv, NEW p \in Proc, pc[p] \in {"saved", "prepared", "aborting"},
           NEW s \in State \ {"Claim"}, NEW to \in {"prepared", "committed", "running"},
           NEW otherwise \in {"running", "aborting"},
           to = "committed" <=> s = "Commit",
           \/ AppendFrame(p, s) /\ Moves(p, to)
           \/ AppendFails(p, s) /\ Moves(p, otherwise),
           UNCHANGED <<lock, json>>
    PROVE  Safe'
<1>1. /\ pc[p] \in Writing /\ pc[p] \in Claiming /\ pc[p] \in Holding
      /\ to \in Holding /\ otherwise \in Holding
  BY DEF Writing, Claiming, Working, Holding
<1>2. fails = 0 => LastState # "Commit"
  BY DEF IInv, JournalOK, JournalFollows, Uncommitted
<1>3. PICK next \in {to, otherwise} : Moves(p, next)
  OBVIOUS
<1>4. LeavesAlone'
  BY <1>1, <1>3, LeavesAloneKept DEF IInv
<1>5. CASE AppendFrame(p, s) /\ Moves(p, to)
  <2>1. JournalOK'
    BY <1>1, <1>5, JournalExtended DEF AppendFrame, IInv, Uncommitted
  <2> QED BY <1>4, <2>1 DEF Safe
<1>6. CASE AppendFails(p, s) /\ Moves(p, otherwise)
  <2>1. JournalOK'
    BY <1>1, <1>2, <1>6, AppendFailsSafe
  <2> QED BY <1>4, <2>1 DEF Safe
<1> QED BY <1>5, <1>6

\* Committing an update and leaving the session to the successor
\* (commit_stored_admitted_update).
LEMMA UpdateSafe ==
    ASSUME IInv, NEW p \in Proc, Update(p)
    PROVE  Safe'
<1> USE DEF lockFile, journal, counters
<1>1. CASE CommitSave(p)
  <2>1. LeavesAlone'
    BY <1>1, LeavesAloneKept DEF CommitSave, IInv, Claiming, Working
  <2>2. JournalOK'
    BY <1>1, SnapshotWritten DEF CommitSave, IInv
  <2> QED BY <2>1, <2>2 DEF Safe
<1>2. CASE AppendPrepare(p)
  BY <1>2, SourceAppends DEF AppendPrepare, State
<1>3. CASE AppendCommit(p)
  BY <1>3, SourceAppends DEF AppendCommit, State
<1>4. CASE AppendAbort(p)
  BY <1>4, SourceAppends DEF AppendAbort, State
<1>5. CASE Launch(p)
  <2>1. LeavesAlone'
    BY <1>5, LeavesAloneKept DEF Launch, IInv
  <2>2. CommittedLast(p)
    BY <1>5 DEF Launch, IInv, JournalOK, JournalFollows
  <2>3. JournalOK'
    BY <1>5, <2>2, JournalKept DEF Launch, IInv, Uncommitted
  <2> QED BY <2>1, <2>3 DEF Safe
<1>6. CASE LaunchFails(p)
  <2>1. LeavesAlone'
    BY <1>6, LeavesAloneKept DEF LaunchFails, IInv, Claiming, Working
  <2>2. CASE frames' = << >>
    BY <1>6, <2>1, <2>2, JournalRemoved DEF LaunchFails, Safe
  <2>3. CASE MayFail /\ UNCHANGED journal
    <3>1. fails' # 0
      BY <2>3, BoundsAssumption DEF MayFail, IInv, TypeOK
    <3>2. JournalOK'
      BY <1>6, <2>3, <3>1, JournalKept DEF LaunchFails, IInv
    <3> QED BY <2>1, <3>2 DEF Safe
  <2> QED BY <1>6, <2>2, <2>3 DEF LaunchFails
<1>7. CASE ExitSource(p)
  <2>1. PICK to \in {"recover", "dead"} : Moves(p, to)
    BY <1>7 DEF ExitSource
  <2>2. fails' = 0 => fails = 0
    BY <1>7, BoundsAssumption DEF ExitSource, MayFail, IInv, TypeOK
  <2> QED BY <1>7, <2>1, <2>2, OutsiderMoves DEF ExitSource, Holding, Claiming, Working
<1> QED BY <1>1, <1>2, <1>3, <1>4, <1>5, <1>6, <1>7 DEF Update

\* Every step: what is left are coordinators, crashes and the clock.
LEMMA NextSafe ==
    ASSUME IInv, [Next]_vars
    PROVE  Safe'
<1> USE DEF lockFile, journal, counters
<1>1. CASE UNCHANGED vars
  BY <1>1, NobodyMoves DEF vars
<1>2. ASSUME NEW p \in Proc, CoordinatorFails(p)
      PROVE  Safe'
  <2>1. fails' = 0 => fails = 0
    BY <1>2, BoundsAssumption DEF CoordinatorFails, MayFail, IInv, TypeOK
  <2> QED BY <1>2, <2>1, NobodyMoves DEF CoordinatorFails
<1>3. ASSUME NEW p \in Proc, Crash(p)
      PROVE  Safe'
  BY <1>3, OutsiderMoves DEF Crash, Holding, Claiming, Working
<1>4. ASSUME NEW p \in Proc, Forget(p)
      PROVE  Safe'
  BY <1>4, OutsiderMoves DEF Forget, Holding, Claiming, Working
<1>5. ASSUME NEW p \in Proc, NEW q \in Proc, CoordinatorLaunch(p, q)
      PROVE  Safe'
  BY <1>5, OutsiderMoves DEF CoordinatorLaunch, Holding, Claiming, Working
<1>6. CASE Ages
  BY <1>6, NobodyMoves DEF Ages
<1> QED BY <1>1, <1>2, <1>3, <1>4, <1>5, <1>6, AcquisitionSafe,
           StartupSafe, RecoverySafe, SessionSafe, UpdateSafe DEF Next
-----------------------------------------------------------------------------
\* A lock taken, let go of or left alone is well typed.
LEMMA LockTyped ==
    ASSUME TypeOK, NEW p \in Proc, Takes(p) \/ Releases(p) \/ UNCHANGED lockFile
    PROVE  lock' \in Proc \cup {NoProc} /\ old' \in BOOLEAN
BY DEF TypeOK, Takes, Releases, lockFile

\* Taking the open-lock keeps the types.
LEMMA AcquisitionTyped ==
    ASSUME TypeOK, NEW p \in Proc, Acquisition(p)
    PROVE  TypeOK'
<1> USE DEF TypeOK, Moves, lockFile, journal, counters
<1>1. pc[p] \in Acquiring
  BY DEF Acquisition, CreateLock, JudgeLock, ReapLock, ReapFails, RefuseLock
<1>2. Entered(p) \in {"discoverCheck", "claim", "opening"}
  BY <1>1, EntersHolding
<1>3. Refused(p) \in {"dead", "recover", "ready"}
  BY <1>1 DEF Acquiring, Refused
<1>4. CASE CreateLock(p)
  <2>1. source[p] # NoProc \/ Entered(p) # "discoverCheck"
    BY <1>4 DEF CreateLock, Entered, Acquiring
  <2> QED BY <1>2, <1>4, <2>1 DEF CreateLock, Takes, Holding, Working, Acquiring
<1>5. CASE JudgeLock(p)
  BY <1>1, <1>5 DEF JudgeLock
<1>6. CASE ReapLock(p)
  BY <1>6 DEF ReapLock
<1>7. CASE ReapFails(p)
  <2>1. fails' \in 0..MaxFail
    BY <1>7, FailureTyped DEF ReapFails
  <2> QED BY <1>3, <1>7, <2>1 DEF ReapFails
<1>8. CASE RefuseLock(p)
  BY <1>3, <1>8 DEF RefuseLock
<1> QED BY <1>4, <1>5, <1>6, <1>7, <1>8 DEF Acquisition

\* The types survive every step.  One leaf per action.
LEMMA NextTyped ==
    ASSUME TypeOK, [Next]_vars
    PROVE  TypeOK'
<1> USE BoundsAssumption DEF TypeOK, Moves, Holding, Working, Acquiring, Takes, Releases, MayFail,
        NewSnapshot, lockFile, journal, counters
<1>1. CASE UNCHANGED vars
  BY <1>1 DEF vars
<1>2. ASSUME NEW p \in Proc, Start(p)
      PROVE  TypeOK'
  BY <1>2 DEF Start
<1>3. ASSUME NEW p \in Proc, Discover(p)
      PROVE  TypeOK'
  BY <1>3, ClaimableTyped DEF Discover
<1>4. ASSUME NEW p \in Proc, Acquisition(p)
      PROVE  TypeOK'
  BY <1>4, AcquisitionTyped
<1>5. ASSUME NEW p \in Proc, DiscoverCheck(p)
      PROVE  TypeOK'
  <2>1. lock' \in Proc \cup {NoProc} /\ old' \in BOOLEAN
    BY <1>5, LockTyped DEF DiscoverCheck
  <2>2. PICK to \in {"recover", "ready", "dead"} :
            Moves(p, to) /\ (claim' = claim \/ claim' = [claim EXCEPT ![p] = "discovered"])
    BY <1>5 DEF DiscoverCheck
  <2>3. /\ pc[p] = "discoverCheck"
        /\ UNCHANGED <<unix, reaping, json, frames, torn, source, coord, opens, fails, crashes>>
    BY <1>5 DEF DiscoverCheck
  <2> QED BY <2>1, <2>2, <2>3
<1>6. ASSUME NEW p \in Proc, Recover(p)
      PROVE  TypeOK'
  BY <1>6, ClaimableTyped DEF Recover
<1>7. CASE Ages
  BY <1>7 DEF Ages
<1>8. ASSUME NEW p \in Proc, CheckClaim(p)
      PROVE  TypeOK'
  BY <1>8 DEF CheckClaim
<1>9. ASSUME NEW p \in Proc, AppendClaim(p)
      PROVE  TypeOK'
  BY <1>9, AppendTyped DEF AppendClaim, State, FrameType
<1>10. ASSUME NEW p \in Proc, Open(p)
      PROVE  TypeOK'
  BY <1>10 DEF Open
<1>11. ASSUME NEW p \in Proc, OpenCheck(p)
      PROVE  TypeOK'
  BY <1>11 DEF OpenCheck
<1>12. ASSUME NEW p \in Proc, Save(p)
      PROVE  TypeOK'
  BY <1>12 DEF Save
<1>13. ASSUME NEW p \in Proc, Leave(p)
      PROVE  TypeOK'
  <2>1. lock' \in Proc \cup {NoProc} /\ old' \in BOOLEAN
    BY <1>13, LockTyped DEF Leave
  <2>2. opens' \in 0..MaxOpen
    BY <1>13 DEF Leave
  <2>3. /\ pc[p] = "running" /\ Moves(p, "ready")
        /\ UNCHANGED <<unix, reaping, json, journal, claim, source, coord, fails, crashes>>
    BY <1>13 DEF Leave
  <2> QED BY <2>1, <2>2, <2>3
<1>14. ASSUME NEW p \in Proc, Quit(p)
      PROVE  TypeOK'
  BY <1>14 DEF Quit
<1>15. ASSUME NEW p \in Proc, CommitSave(p)
      PROVE  TypeOK'
  BY <1>15 DEF CommitSave
<1>16. ASSUME NEW p \in Proc, AppendPrepare(p)
      PROVE  TypeOK'
  BY <1>16, AppendTyped DEF AppendPrepare, State, FrameType
<1>17. ASSUME NEW p \in Proc, AppendCommit(p)
      PROVE  TypeOK'
  BY <1>17, AppendTyped DEF AppendCommit, State, FrameType
<1>18. ASSUME NEW p \in Proc, AppendAbort(p)
      PROVE  TypeOK'
  BY <1>18, AppendTyped DEF AppendAbort, State, FrameType
<1>19. ASSUME NEW p \in Proc, Launch(p)
      PROVE  TypeOK'
  BY <1>19 DEF Launch
<1>20. ASSUME NEW p \in Proc, LaunchFails(p)
      PROVE  TypeOK'
  <2>1. frames' \in Seq(FrameType) /\ torn' \in BOOLEAN
    <3>1. frames \in Seq(FrameType) /\ << >> \in Seq(FrameType)
      BY DEF FrameType
    <3>2. (frames' = << >> /\ torn' = FALSE) \/ UNCHANGED <<frames, torn>>
      BY <1>20 DEF LaunchFails
    <3> QED BY <3>1, <3>2
  <2>2. /\ pc[p] = "committed" /\ Moves(p, "running")
        /\ UNCHANGED <<unix, reaping, json, lockFile, claim, source, coord, opens, crashes>>
    BY <1>20 DEF LaunchFails
  <2>3. fails' \in 0..MaxFail
    BY <1>20, FailureTyped DEF LaunchFails
  <2> QED BY <2>1, <2>2, <2>3 DEF FrameType
<1>21. ASSUME NEW p \in Proc, ExitSource(p)
      PROVE  TypeOK'
  <2>1. PICK to \in {"recover", "dead"} : Moves(p, to)
    BY <1>21 DEF ExitSource
  <2>2. claim' \in [Proc -> {"discovered", "source", "successor"}]
    BY <1>21 DEF ExitSource
  <2>3. fails' \in 0..MaxFail
    BY <1>21, FailureTyped DEF ExitSource
  <2>4. /\ pc[p] = "leaving"
        /\ UNCHANGED <<unix, reaping, json, journal, lockFile, source, coord, opens, crashes>>
    BY <1>21 DEF ExitSource
  <2> QED BY <2>1, <2>2, <2>3, <2>4
<1>22. ASSUME NEW p \in Proc, CoordinatorFails(p)
      PROVE  TypeOK'
  BY <1>22 DEF CoordinatorFails
<1>23. ASSUME NEW p \in Proc, Crash(p)
      PROVE  TypeOK'
  BY <1>23 DEF Crash
<1>24. ASSUME NEW p \in Proc, Forget(p)
      PROVE  TypeOK'
  BY <1>24 DEF Forget, Forgotten
<1>25. ASSUME NEW p \in Proc, NEW q \in Proc, CoordinatorLaunch(p, q)
      PROVE  TypeOK'
  BY <1>25 DEF CoordinatorLaunch
<1> QED BY <1>1, <1>2, <1>3, <1>4, <1>5, <1>6, <1>7, <1>8, <1>9, <1>10, <1>11, <1>12,
           <1>13, <1>14, <1>15, <1>16, <1>17, <1>18, <1>19, <1>20, <1>21, <1>22,
           <1>23, <1>24, <1>25
        DEF Next, Startup, Recovery, Session, Update

-----------------------------------------------------------------------------
(* The theorems.                                                           *)

\* The inductive invariant, if "reapRace" is not allowed: types, one holder of the
\* open-lock, nobody beside a leaving source, and a journal that follows its writer.
THEOREM SpecIInv ==
    ASSUME "reapRace" \notin Allowed
    PROVE  Spec => []IInv
<1>1. IInv /\ [Next]_vars => IInv'
  BY NextTyped, ReapsNobody, HolderKept, ReapersKept, NextSafe DEF IInv, Safe
<1> QED BY InitIInv, <1>1, PTL DEF Spec

\* The types of the variables; a recovery knows whose lock it may reclaim
\* (acquire_open_lock_mode).
THEOREM TypeCorrect == Spec => []TypeOK
<1>1. Init => TypeOK
  BY InitIInv DEF IInv
<1>2. TypeOK /\ [Next]_vars => TypeOK'
  BY NextTyped
<1> QED BY <1>1, <1>2, PTL DEF Spec

\* Whatever races are allowed, the open-lock file stops naming whoever holds the
\* session open in one kind of step only: a process that judged the file before
\* removes, by its path, the lock of the process that holds the session by now
\* (acquire_open_lock_mode).
THEOREM LostOnlyByReap == Spec => [][OneHolder => OneHolder' \/ ReapsHeld]_vars
<1>1. TypeOK /\ [Next]_vars => [OneHolder => OneHolder' \/ ReapsHeld]_vars
  BY HolderKept
<1> QED BY TypeCorrect, <1>1, PTL DEF Spec

\* If no lock file is created while another process, which judged the one before it,
\* has yet to remove it, the open-lock names whoever holds the session open, however
\* processes judge, remove, create, crash and start again (SessionLock).
THEOREM OneLockHolder ==
    ASSUME "reapRace" \notin Allowed
    PROVE  Spec => []OneHolder
<1>1. IInv => OneHolder
  BY DEF IInv
<1> QED BY <1>1, SpecIInv, PTL

\* Under the same condition two processes never work on the session at once, a source
\* that is leaving included (claim_locked_handoff, and the refusal of an ordinary resume).
THEOREM OneSessionWorker ==
    ASSUME "reapRace" \notin Allowed
    PROVE  Spec => []OneWorker
<1>1. IInv => OneWorker
  <2> SUFFICES ASSUME IInv, NEW p \in Proc, NEW q \in Proc,
                      pc[p] \in Working, pc[q] \in Working
               PROVE  p = q
    BY DEF OneWorker
  <2>1. CASE pc[p] = "leaving" \/ pc[q] = "leaving"
    BY <2>1 DEF IInv, LeavesAlone, Claiming
  <2>2. CASE pc[p] \in Holding /\ pc[q] \in Holding
    BY <2>2 DEF IInv, OneHolder
  <2> QED BY <2>1, <2>2 DEF Working, Holding
<1> QED BY <1>1, SpecIInv, PTL

\* Between two claims there is a commit, under the same condition, whatever appends fail or tear
\* (claim_locked_handoff).
THEOREM CommitClaimedOnce ==
    ASSUME "reapRace" \notin Allowed
    PROVE  Spec => []ClaimedOnce
<1>1. IInv => ClaimedOnce
  BY DEF IInv, JournalOK
<1> QED BY <1>1, SpecIInv, PTL

\* While nothing fails, under the same condition, no snapshot is written between a
\* commit and its claim
\* (commit_stored_admitted_update keeps the input frozen).
THEOREM CommittedKept ==
    ASSUME "reapRace" \notin Allowed
    PROVE  Spec => []CommittedSnapshotKept
<1>1. IInv => CommittedSnapshotKept
  BY DEF IInv, JournalOK
<1> QED BY <1>1, SpecIInv, PTL
=============================================================================
