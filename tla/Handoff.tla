------------------------------ MODULE Handoff ------------------------------
(***************************************************************************)
(* Handing one saved session from a running hrdr to the successor that     *)
(* continues it after a self-update.                                       *)
(*                                                                         *)
(* The source saves the session, appends Prepare and Commit to the handoff *)
(* journal (crates/hrdr-agent/src/handoff_journal.rs), lets go of the      *)
(* open-lock and exits.  On unix it execs its successor, under the same    *)
(* process lease; on Windows a coordinator waits for it to be gone and     *)
(* starts one.  Any other hrdr started in the directory looks for a        *)
(* committed handoff whose source is gone and recovers it too.  Whoever    *)
(* claims the handoff first, under the open-lock, appends Claim.           *)
(*                                                                         *)
(* A process stands for one process lease (pid and start time), and the    *)
(* steps of different processes interleave.  The open-lock is taken as the *)
(* code takes it: a lock file is created if there is none; one that is     *)
(* there is judged in one step and removed by its path in a later one.     *)
(* Creating the file and writing its owner into it are one step, and so is *)
(* each read, append or removal of another file.                           *)
(***************************************************************************)
EXTENDS Naturals, Sequences, SequencesExt

CONSTANTS
    Proc,      \* process leases
    NoProc,    \* nobody
    MaxSave,   \* bound: snapshots ever written
    MaxOpen,   \* bound: times a user resumes or leaves the session by hand
    MaxFail,   \* bound: failing file operations and launches
    MaxCrash,  \* bound: crashes
    Allowed    \* the races this instance lets happen: a subset of Races

\* "reapRace": a lock file is created while another process, which has judged the
\* one before it, has yet to remove it.
Races == {"reapRace"}

ASSUME BoundsAssumption ==
    {MaxSave, MaxOpen, MaxFail, MaxCrash} \subseteq Nat /\ Allowed \subseteq Races

ASSUME NamesAssumption == NoProc \notin Proc

VARIABLES
    unix,      \* the platform: exec, or a coordinator
    json,      \* the saved snapshot: a number drawn at every save, its hash
    frames,    \* the handoff journal's complete frames
    torn,      \* its last frame is incomplete
    lock,      \* the process the open-lock file names, or NoProc for no file
    old,       \* the open-lock file is past the stale age
    reaping,   \* the processes about to remove a lock file they may take over
    pc,        \* [Proc -> where the process stands]
    claim,     \* [Proc -> as whom it recovers: "discovered", "source", "successor"]
    source,    \* [Proc -> the process whose handoff it recovers]
    coord,     \* [Proc -> a coordinator waits for the process to be gone]
    opens, fails, crashes    \* counters

journal == <<frames, torn>>
lockFile == <<lock, old>>
counters == <<opens, fails, crashes>>
vars == <<unix, json, frames, torn, lock, old, reaping, pc, claim, source, coord,
          opens, fails, crashes>>

-----------------------------------------------------------------------------
(* Processes and the journal.                                              *)

\* The process lease is certainly over.
Gone(p) == pc[p] \in {"unborn", "dead"}

Moves(p, to) == pc' = [pc EXCEPT ![p] = to]

MayFail == fails < MaxFail /\ fails' = fails + 1

\* A scan refuses a journal any frame of which is bound to another snapshot; an
\* incomplete last frame is passed over.
Scans == \A i \in DOMAIN frames : frames[i].hash = json

NoState == "None"
LastState == IF frames = << >> THEN NoState ELSE Last(frames).state

\* Mutant: a claimed handoff may be claimed again.
ClaimableStateAgain(s) == s \in {"Commit", "Claim"}

ClaimableState(s) == s = "Commit"

RequiresRecovery(s) == s \in {"Commit", "OwnedAbandon"}

\* Process p, recovering as this, may claim what process s committed.
SourceClaimableBy(s, p, as) == IF as = "successor" THEN s = p ELSE Gone(s)

\* The journal holds a handoff that p may claim.
Claimable(p, as) ==
    /\ Scans
    /\ ClaimableState(LastState)
    /\ SourceClaimableBy(Last(frames).src, p, as)

Frame(p, s) == [state |-> s, src |-> p, hash |-> json]

\* One frame is appended, in place of an incomplete one, or the append fails: with
\* nothing written, with part of the frame, or with all of it.
AppendFrame(p, s) ==
    /\ Scans
    /\ frames' = Append(frames, Frame(p, s)) /\ torn' = FALSE
    /\ UNCHANGED fails

AppendFails(p, s) ==
    \/ ~Scans /\ UNCHANGED <<frames, torn, fails>>
    \/ /\ Scans /\ MayFail
       /\ \/ UNCHANGED journal
          \/ UNCHANGED frames /\ torn' = TRUE
          \/ frames' = Append(frames, Frame(p, s)) /\ torn' = FALSE

-----------------------------------------------------------------------------
(* The open-lock, as acquire_open_lock_mode takes it.                      *)

\* The source whose lock p may take over however young it is, and whether p
\* insists on that lock; a resume by hand and an exec'ed successor know of none.
Handed(p) ==
    IF pc[p] = "openLock" \/ (pc[p] = "recoverLock" /\ claim[p] = "successor")
    THEN NoProc ELSE source[p]

Insists(p) == pc[p] = "discoverLock" \/ (pc[p] = "recoverLock" /\ claim[p] = "discovered")

\* Mutant: only its age makes a lock reclaimable.
MayReapByAge(p) == lock # NoProc /\ Gone(lock) /\ ~Insists(p) /\ old

\* The lock file p finds names its handoff's source, which is gone, or a process
\* gone for long enough.
MayReap(p) ==
    /\ lock # NoProc /\ Gone(lock)
    /\ lock = Handed(p) \/ (~Insists(p) /\ old)

Takes(p) == lock' = p /\ old' = FALSE

\* Where the lock is taken, where it leads, and where a refusal does: only the
\* recovery a coordinator started waits for a busy lock.
Acquiring == {"discoverLock", "recoverLock", "openLock"}

Entered(p) ==
    CASE pc[p] = "discoverLock" -> "discoverCheck"
      [] pc[p] = "recoverLock"  -> "claim"
      [] pc[p] = "openLock"     -> "opening"

Refused(p) ==
    CASE pc[p] = "discoverLock" -> "dead"
      [] pc[p] = "recoverLock"  -> IF claim[p] = "source" /\ Claimable(p, "source")
                                   THEN "recover" ELSE "dead"
      [] pc[p] = "openLock"     -> "ready"

\* There is no lock file, and one is created.
CreateLock(p) ==
    /\ pc[p] \in Acquiring /\ p \notin reaping
    /\ lock = NoProc
    /\ "reapRace" \in Allowed \/ reaping = {}
    /\ Takes(p) /\ Moves(p, Entered(p))
    /\ UNCHANGED <<unix, reaping, json, journal, claim, source, coord, counters>>

\* There is one, and it may be taken over ...
JudgeLock(p) ==
    /\ pc[p] \in Acquiring /\ p \notin reaping
    /\ MayReap(p)
    /\ reaping' = reaping \cup {p}
    /\ UNCHANGED <<unix, json, journal, lockFile, pc, claim, source, coord, counters>>

\* ... so whatever the path names by now is removed, and it is tried again.
ReapLock(p) ==
    /\ p \in reaping
    /\ reaping' = reaping \ {p}
    /\ lock' = NoProc /\ old' = FALSE
    /\ UNCHANGED <<unix, json, journal, pc, claim, source, coord, counters>>

\* The removal is denied until the attempts are spent.
ReapFails(p) ==
    /\ p \in reaping
    /\ MayFail
    /\ reaping' = reaping \ {p}
    /\ Moves(p, Refused(p))
    /\ UNCHANGED <<unix, json, journal, lockFile, claim, source, coord, opens, crashes>>

\* There is one, and it is somebody's.
RefuseLock(p) ==
    /\ pc[p] \in Acquiring /\ p \notin reaping
    /\ lock # NoProc /\ ~MayReap(p)
    /\ Moves(p, Refused(p))
    /\ UNCHANGED <<unix, reaping, json, journal, lockFile, claim, source, coord, counters>>

Acquisition(p) ==
    CreateLock(p) \/ JudgeLock(p) \/ ReapLock(p) \/ ReapFails(p) \/ RefuseLock(p)

\* A lock file is removed only by the process it names.
Releases(p) == IF lock = p THEN lock' = NoProc /\ old' = FALSE ELSE UNCHANGED lockFile

\* The lock file passes the stale age.
Ages ==
    /\ lock # NoProc /\ ~old
    /\ old' = TRUE
    /\ UNCHANGED <<unix, reaping, json, journal, lock, pc, claim, source, coord, counters>>

-----------------------------------------------------------------------------
(* Starting: a committed handoff is looked for first.                      *)

Start(p) ==
    /\ pc[p] = "unborn"
    /\ Moves(p, "discover")
    /\ UNCHANGED <<unix, reaping, json, journal, lockFile, claim, source, coord, counters>>

\* Mutant: the source whose lock may be reclaimed is not noted.
DiscoverUnnoted(p) ==
    /\ pc[p] = "discover"
    /\ \/ Claimable(p, "discovered") /\ Moves(p, "discoverLock")
       \/ Scans /\ ~ClaimableState(LastState) /\ Moves(p, "ready")
    /\ UNCHANGED <<unix, reaping, json, journal, lockFile, claim, source, coord, counters>>

\* A first look, without the lock.  What cannot be read or cannot be claimed yet
\* ends the start.
Discover(p) ==
    /\ pc[p] = "discover"
    /\ \/ /\ Claimable(p, "discovered")
          /\ Moves(p, "discoverLock")
          /\ source' = [source EXCEPT ![p] = Last(frames).src]
       \/ /\ Scans /\ ~ClaimableState(LastState)
          /\ Moves(p, "ready") /\ UNCHANGED source
       \/ /\ ~Scans \/ (ClaimableState(LastState) /\ ~Claimable(p, "discovered"))
          /\ Moves(p, "dead") /\ UNCHANGED source
    /\ UNCHANGED <<unix, reaping, json, journal, lockFile, claim, coord, counters>>

\* The second look, under the lock, which is let go of again.
DiscoverCheck(p) ==
    /\ pc[p] = "discoverCheck"
    /\ Releases(p)
    /\ \/ /\ Claimable(p, "discovered")
          /\ Moves(p, "recover")
          /\ claim' = [claim EXCEPT ![p] = "discovered"]
       \/ /\ Scans /\ ~ClaimableState(LastState)
          /\ Moves(p, "ready") /\ UNCHANGED claim
       \/ /\ ~Scans \/ (ClaimableState(LastState) /\ ~Claimable(p, "discovered"))
          /\ Moves(p, "dead") /\ UNCHANGED claim
    /\ UNCHANGED <<unix, reaping, json, journal, source, coord, counters>>

-----------------------------------------------------------------------------
(* Recovering: the handoff is claimed under the lock.                      *)

\* What the recovery names must be claimable; a discovered one takes the newest.
Recover(p) ==
    /\ pc[p] = "recover"
    /\ LET found == /\ Claimable(p, claim[p])
                    /\ claim[p] = "source" => Last(frames).src = source[p]
       IN  \/ /\ found
              /\ Moves(p, "recoverLock")
              /\ source' = [source EXCEPT ![p] = Last(frames).src]
           \/ ~found /\ Moves(p, "dead") /\ UNCHANGED source
    /\ UNCHANGED <<unix, reaping, json, journal, lockFile, claim, coord, counters>>

\* Under the lock, the snapshot is loaded and the journal read again.
CheckClaim(p) ==
    /\ pc[p] = "claim"
    /\ \/ Claimable(p, claim[p]) /\ Moves(p, "append") /\ UNCHANGED lockFile
       \/ ~Claimable(p, claim[p]) /\ Moves(p, "dead") /\ Releases(p)
    /\ UNCHANGED <<unix, reaping, json, journal, claim, source, coord, counters>>

AppendClaim(p) ==
    /\ pc[p] = "append"
    /\ \/ AppendFrame(p, "Claim") /\ Moves(p, "running") /\ UNCHANGED lockFile
       \/ AppendFails(p, "Claim") /\ Moves(p, "dead") /\ Releases(p)
    /\ UNCHANGED <<unix, reaping, json, claim, source, coord, opens, crashes>>

-----------------------------------------------------------------------------
(* A running hrdr: resuming by hand, saving, leaving.                      *)

Open(p) ==
    /\ pc[p] = "ready"
    /\ opens < MaxOpen /\ opens' = opens + 1
    /\ Moves(p, "openLock")
    /\ UNCHANGED <<unix, reaping, json, journal, lockFile, claim, source, coord, fails, crashes>>

\* Mutant: a committed handoff does not stop a resume.
OpenCheckIgnoresHandoff(p) ==
    /\ pc[p] = "opening"
    /\ Moves(p, "running")
    /\ UNCHANGED <<unix, reaping, json, journal, lockFile, claim, source, coord, counters>>

\* A session under handoff, or whose journal cannot be read, is not opened.
OpenCheck(p) ==
    /\ pc[p] = "opening"
    /\ IF Scans /\ ~RequiresRecovery(LastState)
       THEN Moves(p, "running") /\ UNCHANGED lockFile
       ELSE Moves(p, "ready") /\ Releases(p)
    /\ UNCHANGED <<unix, reaping, json, journal, claim, source, coord, counters>>

NewSnapshot == json < MaxSave /\ json' = json + 1

Save(p) ==
    /\ pc[p] = "running"
    /\ NewSnapshot
    /\ UNCHANGED <<unix, reaping, journal, lockFile, pc, claim, source, coord, counters>>

\* /new: the session is left.
Leave(p) ==
    /\ pc[p] = "running"
    /\ opens < MaxOpen /\ opens' = opens + 1
    /\ Releases(p) /\ Moves(p, "ready")
    /\ UNCHANGED <<unix, reaping, json, journal, claim, source, coord, fails, crashes>>

Quit(p) ==
    /\ pc[p] \in {"ready", "running"}
    /\ Releases(p) /\ Moves(p, "dead")
    /\ UNCHANGED <<unix, reaping, json, journal, claim, source, coord, counters>>

-----------------------------------------------------------------------------
(* Committing an update (commit_stored_admitted_update).                   *)

CommitSave(p) ==
    /\ pc[p] = "running"
    /\ NewSnapshot
    /\ Moves(p, "saved")
    /\ UNCHANGED <<unix, reaping, journal, lockFile, claim, source, coord, counters>>

AppendPrepare(p) ==
    /\ pc[p] = "saved"
    /\ \/ AppendFrame(p, "Prepare") /\ Moves(p, "prepared")
       \/ AppendFails(p, "Prepare") /\ Moves(p, "running")
    /\ UNCHANGED <<unix, reaping, json, lockFile, claim, source, coord, opens, crashes>>

AppendCommit(p) ==
    /\ pc[p] = "prepared"
    /\ \/ AppendFrame(p, "Commit") /\ Moves(p, "committed")
       \/ AppendFails(p, "Commit") /\ Moves(p, "aborting")
    /\ UNCHANGED <<unix, reaping, json, lockFile, claim, source, coord, opens, crashes>>

\* The Abort that follows a failed Commit may fail unnoticed.
AppendAbort(p) ==
    /\ pc[p] = "aborting"
    /\ AppendFrame(p, "Abort") \/ AppendFails(p, "Abort")
    /\ Moves(p, "running")
    /\ UNCHANGED <<unix, reaping, json, lockFile, claim, source, coord, opens, crashes>>

\* The owner takes over: the lock is let go of and input stays frozen.
Launch(p) ==
    /\ pc[p] = "committed"
    /\ coord' = [coord EXCEPT ![p] = ~unix]
    /\ Releases(p) /\ Moves(p, "leaving")
    /\ UNCHANGED <<unix, reaping, json, journal, claim, source, counters>>

\* Mutant: the journal stays.
LaunchFailsKeepsJournal(p) ==
    /\ pc[p] = "committed"
    /\ ~unix
    /\ fails < MaxFail
    /\ Moves(p, "running")
    /\ UNCHANGED <<unix, reaping, json, journal, lockFile, claim, source, coord, counters>>

\* The coordinator cannot be started: the journal is removed, if it can be, and
\* the session goes on.
LaunchFails(p) ==
    /\ pc[p] = "committed"
    /\ ~unix
    /\ fails < MaxFail
    /\ Moves(p, "running")
    /\ \/ frames' = << >> /\ torn' = FALSE /\ UNCHANGED fails
       \/ MayFail /\ UNCHANGED journal
    /\ UNCHANGED <<unix, reaping, json, lockFile, claim, source, coord, opens, crashes>>

\* The source leaves its UI: it execs its successor, or is gone.
ExitSource(p) ==
    /\ pc[p] = "leaving"
    /\ \/ /\ unix
          /\ Moves(p, "recover")
          /\ claim' = [claim EXCEPT ![p] = "successor"]
          /\ UNCHANGED fails
       \/ unix /\ MayFail /\ Moves(p, "dead") /\ UNCHANGED claim
       \/ ~unix /\ Moves(p, "dead") /\ UNCHANGED <<claim, fails>>
    /\ UNCHANGED <<unix, reaping, json, journal, lockFile, source, coord, opens, crashes>>

\* The coordinator of p, once p is gone, starts the recovery of p's handoff.
CoordinatorLaunch(p, q) ==
    /\ coord[p] /\ Gone(p)
    /\ pc[q] = "unborn"
    /\ coord' = [coord EXCEPT ![p] = FALSE]
    /\ claim' = [claim EXCEPT ![q] = "source"]
    /\ source' = [source EXCEPT ![q] = p]
    /\ Moves(q, "recover")
    /\ UNCHANGED <<unix, reaping, json, journal, lockFile, counters>>

\* It stops waiting, or can start nothing.
CoordinatorFails(p) ==
    /\ coord[p]
    /\ MayFail
    /\ coord' = [coord EXCEPT ![p] = FALSE]
    /\ UNCHANGED <<unix, reaping, json, journal, lockFile, pc, claim, source, opens, crashes>>

-----------------------------------------------------------------------------
\* A crash leaves the open-lock file behind.
Crash(p) ==
    /\ ~Gone(p)
    /\ crashes < MaxCrash /\ crashes' = crashes + 1
    /\ Moves(p, "dead") /\ reaping' = reaping \ {p}
    /\ UNCHANGED <<unix, json, journal, lockFile, claim, source, coord, opens, fails>>

\* No file and no process names the dead process any more, so its element of Proc
\* can stand for a lease never seen before.
Forgotten(p) ==
    /\ pc[p] = "dead"
    /\ lock # p /\ ~coord[p]
    /\ \A i \in DOMAIN frames : frames[i].src # p
    /\ \A q \in Proc : source[q] = p => q = p

Forget(p) ==
    /\ Forgotten(p)
    /\ Moves(p, "unborn")
    /\ claim' = [claim EXCEPT ![p] = "discovered"]
    /\ source' = [source EXCEPT ![p] = NoProc]
    /\ UNCHANGED <<unix, reaping, json, journal, lockFile, coord, counters>>

Init ==
    /\ unix \in BOOLEAN
    /\ json = 1
    /\ frames = << >> /\ torn = FALSE
    /\ lock = NoProc /\ old = FALSE /\ reaping = {}
    /\ pc = [p \in Proc |-> "unborn"]
    /\ claim = [p \in Proc |-> "discovered"]
    /\ source = [p \in Proc |-> NoProc]
    /\ coord = [p \in Proc |-> FALSE]
    /\ opens = 0 /\ fails = 0 /\ crashes = 0

Startup(p) == Start(p) \/ Discover(p) \/ DiscoverCheck(p)

Recovery(p) == Recover(p) \/ CheckClaim(p) \/ AppendClaim(p)

Session(p) == Open(p) \/ OpenCheck(p) \/ Save(p) \/ Leave(p) \/ Quit(p)

Update(p) ==
    \/ CommitSave(p) \/ AppendPrepare(p) \/ AppendCommit(p) \/ AppendAbort(p)
    \/ Launch(p) \/ LaunchFails(p) \/ ExitSource(p)

Next ==
    \/ \E p \in Proc : \/ Acquisition(p) \/ Startup(p) \/ Recovery(p)
                       \/ Session(p) \/ Update(p)
                       \/ CoordinatorFails(p) \/ Crash(p) \/ Forget(p)
    \/ \E p, q \in Proc : CoordinatorLaunch(p, q)
    \/ Ages

Spec == Init /\ [][Next]_vars

TakesRecoveryLock(p) == pc[p] = "recoverLock" /\ CreateLock(p)

\* A process goes on, a coordinator polls, hrdr is started again and again in the
\* directory, two starts do not collide for ever, and a window without the session
\* is closed some day.
Fairness ==
    /\ SF_vars(lock = NoProc /\ \E p \in Proc : Recover(p))
    /\ SF_vars(\E p \in Proc : TakesRecoveryLock(p))
    /\ \A p \in Proc :
        /\ WF_vars(Acquisition(p)) /\ WF_vars(Startup(p)) /\ WF_vars(Recovery(p))
        /\ WF_vars(OpenCheck(p))
        /\ WF_vars(AppendCommit(p) \/ AppendAbort(p) \/ Launch(p) \/ LaunchFails(p))
        /\ WF_vars(ExitSource(p))
        /\ WF_vars(pc[p] = "ready" /\ Quit(p))
        /\ WF_vars(Forget(p))
        /\ WF_vars(\E q \in Proc : CoordinatorLaunch(p, q))

FairSpec == Spec /\ Fairness
-----------------------------------------------------------------------------
(* What a handoff promises.                                                *)

State == {"Prepare", "Commit", "OwnedAbandon", "Claim", "Abort"}

\* A process that holds the open-lock, and one that works on the session.
Holding == {"discoverCheck", "opening", "claim", "append", "running", "saved",
            "prepared", "aborting", "committed"}

Working == {"running", "saved", "prepared", "aborting", "committed", "leaving"}

\* The types of the variables; a recovery knows whose lock it may reclaim, and
\* who is about to remove a lock file still wants the lock.
TypeOK ==
    /\ unix \in BOOLEAN
    /\ json \in 1..MaxSave + 1
    /\ frames \in Seq([state : State, src : Proc, hash : Nat]) /\ torn \in BOOLEAN
    /\ lock \in Proc \cup {NoProc} /\ old \in BOOLEAN
    /\ reaping \subseteq {p \in Proc : pc[p] \in Acquiring}
    /\ pc \in [Proc -> Holding \cup Working \cup Acquiring \cup
                       {"unborn", "discover", "ready", "recover", "dead"}]
    /\ claim \in [Proc -> {"discovered", "source", "successor"}]
    /\ source \in [Proc -> Proc \cup {NoProc}]
    /\ \A p \in Proc : pc[p] \in {"discoverLock", "discoverCheck", "recoverLock"}
                          => source[p] # NoProc
    /\ coord \in [Proc -> BOOLEAN]
    /\ opens \in 0..MaxOpen /\ fails \in 0..MaxFail /\ crashes \in 0..MaxCrash

\* Whoever holds the open-lock is the process its file names, so there is one
\* (session.rs: "Only one hrdr instance may hold a given session open at a time"),
\* unless "reapRace" is allowed.
OneHolder == \A p \in Proc : pc[p] \in Holding => lock = p

\* Two processes never work on the session at once: a source that has committed
\* still does until it is gone or has become its own successor.
OneWorker == \A p, q \in Proc : pc[p] \in Working /\ pc[q] \in Working => p = q

\* A commit is claimed once: a second claim follows another commit.
ClaimedOnce ==
    \A i, j \in DOMAIN frames :
        i < j /\ frames[i].state = "Claim" /\ frames[j].state = "Claim"
        => \E k \in i..j : frames[k].state = "Commit"

\* While nothing fails, what was committed is what is claimed: no snapshot is
\* written between the two.
CommittedSnapshotKept ==
    fails = 0 /\ LastState = "Commit" => Last(frames).hash = json

\* The open-lock names a dead process that is not the source of the commit.
Stranded == lock # NoProc /\ Gone(lock) /\ lock # Last(frames).src

\* The source works on the session it has committed: its launch or the append of
\* its commit failed.
TakenBack == pc[Last(frames).src] \in {"aborting", "running"}

\* A committed handoff of the saved snapshot is recovered, in spite of failures and
\* of a crash of the source, unless its source takes the session back or another
\* process crashes and leaves its open-lock.
CommitIsRecovered ==
    (LastState = "Commit" /\ Scans)
        ~> (LastState # "Commit" \/ Stranded \/ TakenBack)

\* A resume of a session whose lock was free is refused only while a handoff owns
\* it (handoff_journal.rs, requires_recovery: "`Prepare` intentionally does not
\* block a resume").
OnlyHandoffBlocksResume ==
    [][\A p \in Proc :
          pc[p] = "opening" /\ pc'[p] = "ready" => RequiresRecovery(LastState)]_vars
=============================================================================
