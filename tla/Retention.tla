----------------------------- MODULE Retention -----------------------------
(***************************************************************************)
(* What keeps a directory of saved sessions small, beside the windows that *)
(* save into it: the sweep that compresses idle sessions and purges old    *)
(* ones (crates/hrdr-agent/src/session.rs), and the collector of the       *)
(* attachments no session names any more (attachment_store.rs), which      *)
(* takes the store lock (store_lock.rs) the saves take as well.            *)
(*                                                                         *)
(* A task is a window with its save task, or a sweep; each is taken for a  *)
(* process of its own.  Each file operation is one step.  The store lock   *)
(* is modelled as it is built, from a file created, judged and removed; a  *)
(* session's open-lock is taken and let go of in one step.                 *)
(***************************************************************************)
EXTENDS Naturals, FiniteSets

CONSTANTS
    Task,        \* windows, each with its sweep
    Sweeper,     \* those whose retention is not switched off
    NoTask,      \* nobody
    Session,     \* the sessions of the directory
    UserNamed,   \* those a user gave a name to
    Blob,        \* attachments, by digest
    MaxSave,     \* bound: saves
    MaxFault,    \* bound: crashes and failing file operations
    Allowed      \* the races this instance lets happen: a subset of Races

\* "reapRace": two waiters judge one store lock.  "unguarded": a save goes on
\* without the store lock.  "reuse": such a save names attachments already
\* stored.  "staleAge": a session is written between the sweep's look at its age
\* and its taking of the open-lock.  "lazyList": the collector, reading the
\* directory while a session's file is replaced by its other form, is given neither.
Races == {"reapRace", "unguarded", "reuse", "staleAge", "lazyList"}

ASSUME BoundsAssumption ==
    /\ {MaxSave, MaxFault} \subseteq Nat
    /\ UserNamed \subseteq Session /\ Sweeper \subseteq Task
    /\ Allowed \subseteq Races

ASSUME NamesAssumption == NoTask \notin Task

VARIABLES
    plain,     \* [Session -> file]: <id>.json
    packed,    \* [Session -> file]: <id>.json.zst
    blob,      \* [Blob -> "none", "fresh" or "old"]: past its grace or not
    lock,      \* the store lock's file
    opened,    \* [Session -> Task or NoTask]: who holds the open-lock
    task,      \* [Task -> where it stands]
    saves, faults    \* counters

vars == <<plain, packed, blob, lock, opened, task, saves, faults>>
sessions == <<plain, packed>>
counters == <<saves, faults>>

-----------------------------------------------------------------------------
(* Files.                                                                  *)

\* A session file: which save wrote it, the attachments it names, and its age:
\* "fresh", old enough to compress ("idle") or to purge ("old").
File(n, refs) == [save |-> n, refs |-> refs, age |-> "fresh"]
NoFile == [save |-> 0, refs |-> {}, age |-> "fresh"]
IsFile(f) == f # NoFile

\* What a load reads: the plain file if there is one.
Loaded(s) == IF IsFile(plain[s]) THEN plain[s] ELSE packed[s]

Path == Session \X {"plain", "packed"}
At(path) == IF path[2] = "plain" THEN plain[path[1]] ELSE packed[path[1]]
Listing == {path \in Path : IsFile(At(path))}

\* The store lock's file: who created it, whether its owner has been written into
\* it, and whether it is past the stale age.
LockFile(t) == [owner |-> t, stamped |-> FALSE, old |-> FALSE]
NoLock == LockFile(NoTask)

Idle == [pc |-> "idle", goal |-> "save", sess |-> {}, refs |-> {}, guarded |-> FALSE,
         todo |-> {}, at |-> {}, keep |-> {}, purged |-> FALSE]

Dead(t) == task[t].pc = "dead"

\* The task goes on as this.
Becomes(t, r) == task' = [task EXCEPT ![t] = r]

Goes(t, pc) == Becomes(t, [task[t] EXCEPT !.pc = pc])

\* The session a task holds or handles, kept as a set of at most one.
Handles(t, s) == s \in task[t].sess

-----------------------------------------------------------------------------
(* The store lock: StoreLock::acquire and its drop.                        *)

CreateLock(t) ==
    /\ task[t].pc = "acquire"
    /\ lock = NoLock
    /\ lock' = LockFile(t)
    /\ Goes(t, "stamp")
    /\ UNCHANGED <<sessions, blob, opened, counters>>

\* The owner is written into the file that was created, wherever it is now.
StampLock(t) ==
    /\ task[t].pc = "stamp"
    /\ lock' = IF lock.owner = t THEN [lock EXCEPT !.stamped = TRUE] ELSE lock
    /\ Becomes(t, IF task[t].goal = "save"
                  THEN [task[t] EXCEPT !.pc = "blobs", !.guarded = TRUE, !.todo = task[t].refs]
                  ELSE [task[t] EXCEPT !.pc = "list", !.guarded = TRUE])
    /\ UNCHANGED <<sessions, blob, opened, counters>>

\* Mutant: age alone makes a lock stale.
IsStaleByAge(l) == l.old

\* Old, and its owner, if it can be read, is gone.
IsStale(l) == l.old /\ (l.stamped => Dead(l.owner))

\* A waiter finds the lock stale ...
JudgeLock(t) ==
    /\ task[t].pc = "acquire"
    /\ lock # NoLock /\ IsStale(lock)
    /\ "reapRace" \in Allowed \/ \A u \in Task : task[u].pc # "reap"
    /\ Goes(t, "reap")
    /\ UNCHANGED <<sessions, blob, lock, opened, counters>>

\* ... and removes whatever the path names now.
ReapLock(t) ==
    /\ task[t].pc = "reap"
    /\ lock' = NoLock
    /\ Goes(t, "acquire")
    /\ UNCHANGED <<sessions, blob, opened, counters>>

\* A save whose attempts are spent, or that cannot create the file, goes on
\* without the lock.
SaveUnguarded(t) ==
    /\ task[t].pc = "acquire" /\ task[t].goal = "save"
    /\ "unguarded" \in Allowed
    /\ "reuse" \in Allowed \/ \A b \in task[t].refs : blob[b] = "none"
    /\ Becomes(t, [task[t] EXCEPT !.pc = "blobs", !.todo = task[t].refs])
    /\ UNCHANGED <<sessions, blob, lock, opened, counters>>

\* A collection that does not get it is left to the next sweep.
SkipCollection(t) ==
    /\ task[t].pc = "acquire" /\ task[t].goal = "collect"
    /\ Becomes(t, Idle)
    /\ UNCHANGED <<sessions, blob, lock, opened, counters>>

\* The guard is dropped: the file goes if it names the task.
Unlocked(t) == IF lock.owner = t /\ lock.stamped THEN NoLock ELSE lock

Acquisition(t) ==
    CreateLock(t) \/ StampLock(t) \/ JudgeLock(t) \/ ReapLock(t)
        \/ SaveUnguarded(t) \/ SkipCollection(t)

-----------------------------------------------------------------------------
(* A window: Session::save between opening a session and leaving it.       *)

Open(t, s) ==
    /\ task[t].pc = "idle"
    /\ opened[s] = NoTask
    /\ opened' = [opened EXCEPT ![s] = t]
    /\ Becomes(t, [Idle EXCEPT !.pc = "open", !.sess = {s}])
    /\ UNCHANGED <<sessions, blob, lock, counters>>

Close(t) ==
    /\ task[t].pc = "open"
    /\ opened' = [s \in Session |-> IF opened[s] = t THEN NoTask ELSE opened[s]]
    /\ Becomes(t, Idle)
    /\ UNCHANGED <<sessions, blob, lock, counters>>

\* A save without attachments takes no lock.
BeginSave(t, refs) ==
    /\ task[t].pc = "open"
    /\ saves < MaxSave /\ saves' = saves + 1
    /\ Becomes(t, [task[t] EXCEPT !.pc = IF refs = {} THEN "blobs" ELSE "acquire",
                                  !.goal = "save", !.refs = refs, !.guarded = FALSE,
                                  !.todo = {}])
    /\ UNCHANGED <<sessions, blob, lock, opened, faults>>

\* A blob that is not there is written; one that is there is to be refreshed.
LookForBlob(t) ==
    /\ task[t].pc = "blobs"
    /\ \E b \in task[t].todo :
          IF blob[b] = "none"
          THEN /\ blob' = [blob EXCEPT ![b] = "fresh"]
               /\ Becomes(t, [task[t] EXCEPT !.todo = @ \ {b}])
          ELSE /\ Becomes(t, [task[t] EXCEPT !.pc = "touch", !.at = {b}])
               /\ UNCHANGED blob
    /\ UNCHANGED <<sessions, lock, opened, counters>>

\* A failure to refresh it is ignored.
TouchBlob(t) ==
    /\ task[t].pc = "touch"
    /\ blob' = [b \in Blob |-> IF b \in task[t].at /\ blob[b] # "none" THEN "fresh" ELSE blob[b]]
    /\ Becomes(t, [task[t] EXCEPT !.pc = "blobs", !.todo = @ \ task[t].at, !.at = {}])
    /\ UNCHANGED <<sessions, lock, opened, counters>>

WriteSession(t) ==
    /\ task[t].pc = "blobs" /\ task[t].todo = {}
    /\ plain' = [s \in Session |-> IF Handles(t, s) THEN File(saves, task[t].refs) ELSE plain[s]]
    /\ Becomes(t, [task[t] EXCEPT !.pc = "unpack", !.refs = {}, !.todo = {}])
    /\ UNCHANGED <<packed, blob, lock, opened, counters>>

\* The compressed copy is removed, if it can be, and the save is over.
EndSave(t) ==
    /\ task[t].pc = "unpack"
    /\ \/ /\ packed' = [s \in Session |-> IF Handles(t, s) THEN NoFile ELSE packed[s]]
          /\ UNCHANGED faults
       \/ /\ faults < MaxFault /\ faults' = faults + 1
          /\ UNCHANGED packed
    /\ lock' = Unlocked(t)
    /\ Becomes(t, [Idle EXCEPT !.pc = "open", !.sess = task[t].sess])
    /\ UNCHANGED <<plain, blob, opened, saves>>

\* A blob or the session file cannot be written.
SaveFails(t) ==
    /\ task[t].pc = "blobs"
    /\ faults < MaxFault /\ faults' = faults + 1
    /\ lock' = Unlocked(t)
    /\ Becomes(t, [Idle EXCEPT !.pc = "open", !.sess = task[t].sess])
    /\ UNCHANGED <<sessions, blob, opened, saves>>

Window(t) ==
    \/ \E s \in Session : Open(t, s)
    \/ \E refs \in SUBSET Blob : BeginSave(t, refs)
    \/ LookForBlob(t) \/ TouchBlob(t) \/ WriteSession(t) \/ EndSave(t) \/ SaveFails(t)
    \/ Close(t)

-----------------------------------------------------------------------------
(* A sweep: sweep_dir.                                                     *)

BeginSweep(t) ==
    /\ t \in Sweeper
    /\ task[t].pc = "idle"
    /\ Becomes(t, [Idle EXCEPT !.pc = "look", !.todo = Listing])
    /\ UNCHANGED <<sessions, blob, lock, opened, counters>>

WantPurge(f) == f.age = "old"
WantCompress(path, f) == path[2] = "plain" /\ f.age \in {"idle", "old"}

\* The age of the next entry is read; a file that is gone or young is passed over.
Look(t) ==
    /\ task[t].pc = "look"
    /\ \E path \in task[t].todo :
          LET f == At(path)
              rest == [task[t] EXCEPT !.todo = @ \ {path}]
          IN  Becomes(t, IF IsFile(f) /\ (WantPurge(f) \/ WantCompress(path, f))
                         THEN [rest EXCEPT !.pc = "claim", !.sess = {path[1]}, !.at = {path},
                                           !.goal = IF WantPurge(f) THEN "purge" ELSE "compress"]
                         ELSE rest)
    /\ UNCHANGED <<sessions, blob, lock, opened, counters>>

\* On to the next entry.
Passes(t) == Becomes(t, [task[t] EXCEPT !.pc = "look", !.goal = "save", !.sess = {}, !.at = {}])

\* What the look at the age of an entry to purge found still holds.
StillOld(t) ==
    \A path \in task[t].at :
        task[t].goal = "purge" /\ IsFile(At(path)) => At(path).age = "old"

\* Mutant: a session that is open is handled all the same.
ClaimOpened(t) ==
    /\ task[t].pc = "claim"
    /\ "staleAge" \in Allowed \/ StillOld(t)
    /\ Goes(t, "handle")
    /\ UNCHANGED <<sessions, blob, lock, opened, counters>>

\* The session's open-lock is taken; a busy one is passed over.
Claim(t) ==
    /\ task[t].pc = "claim"
    /\ "staleAge" \in Allowed \/ StillOld(t)
    /\ \E s \in task[t].sess :
          IF opened[s] = NoTask
          THEN opened' = [opened EXCEPT ![s] = t] /\ Goes(t, "handle")
          ELSE UNCHANGED opened /\ Passes(t)
    /\ UNCHANGED <<sessions, blob, lock, counters>>

LetsGo(t) == opened' = [s \in Session |-> IF opened[s] = t THEN NoTask ELSE opened[s]]

\* An old session no user named is removed.
Purge(t) ==
    /\ task[t].pc = "handle" /\ task[t].goal = "purge"
    /\ \E path \in task[t].at :
          /\ IsFile(At(path)) /\ path[1] \notin UserNamed
          /\ IF path[2] = "plain"
             THEN plain' = [plain EXCEPT ![path[1]] = NoFile] /\ UNCHANGED packed
             ELSE packed' = [packed EXCEPT ![path[1]] = NoFile] /\ UNCHANGED plain
    /\ LetsGo(t)
    /\ Becomes(t, [task[t] EXCEPT !.pc = "look", !.goal = "save", !.sess = {}, !.at = {},
                               !.purged = TRUE])
    /\ UNCHANGED <<blob, lock, counters>>

\* What is not purged is compressed, if it is a plain file: a copy is written ...
Pack(t) ==
    /\ task[t].pc = "handle"
    /\ \E path \in task[t].at :
          /\ path[2] = "plain" /\ IsFile(plain[path[1]])
          /\ task[t].goal = "purge" => path[1] \in UserNamed
          /\ packed' = [packed EXCEPT ![path[1]] = plain[path[1]]]
    /\ Goes(t, "drop")
    /\ UNCHANGED <<plain, blob, lock, opened, counters>>

\* ... and the plain file is dropped.
DropPlain(t) ==
    /\ task[t].pc = "drop"
    /\ plain' = [s \in Session |-> IF Handles(t, s) THEN NoFile ELSE plain[s]]
    /\ LetsGo(t)
    /\ Passes(t)
    /\ UNCHANGED <<packed, blob, lock, counters>>

\* The file is gone or cannot be read or copied, or a named session's copy is
\* compressed already.
LeaveAlone(t) ==
    /\ task[t].pc = "handle"
    /\ \/ /\ \E path \in task[t].at :
                ~IsFile(At(path)) \/ (path[2] = "packed" /\ path[1] \in UserNamed)
          /\ UNCHANGED faults
       \/ /\ faults < MaxFault /\ faults' = faults + 1
    /\ LetsGo(t)
    /\ Passes(t)
    /\ UNCHANGED <<sessions, blob, lock, saves>>

\* After the last entry the attachments are collected, if a session was purged.
EndSweep(t) ==
    /\ task[t].pc = "look" /\ task[t].todo = {}
    /\ Becomes(t, IF task[t].purged
                  THEN [Idle EXCEPT !.pc = "acquire", !.goal = "collect"]
                  ELSE Idle)
    /\ UNCHANGED <<sessions, blob, lock, opened, counters>>

Sweep(t) ==
    \/ BeginSweep(t) \/ Look(t) \/ Claim(t) \/ Purge(t)
    \/ Pack(t) \/ DropPlain(t) \/ LeaveAlone(t) \/ EndSweep(t)

-----------------------------------------------------------------------------
(* The collector: collect_blob_garbage and sweep_blobs.                    *)

\* The directory is opened, to be read entry by entry while others change it.
List(t) ==
    /\ task[t].pc = "list"
    /\ Becomes(t, [task[t] EXCEPT !.pc = "mark", !.todo = Listing])
    /\ UNCHANGED <<sessions, blob, lock, opened, counters>>

\* A file that appears, or takes another's place, may be returned as well.  (What a
\* sweep is not given its next pass finds.)
LateEntry(t) ==
    /\ task[t].pc = "mark"
    /\ \E path \in Listing \ task[t].todo :
          Becomes(t, [task[t] EXCEPT !.todo = @ \cup {path}])
    /\ UNCHANGED <<sessions, blob, lock, opened, counters>>

\* A file that is gone before its turn may be left out.  (A sweep passes it over.)
LostEntry(t) ==
    /\ task[t].pc = "mark"
    /\ \E path \in task[t].todo \ Listing :
          /\ "lazyList" \in Allowed \/ ~IsFile(Loaded(path[1]))
          /\ Becomes(t, [task[t] EXCEPT !.todo = @ \ {path}])
    /\ UNCHANGED <<sessions, blob, lock, opened, counters>>

Reading(t) == LateEntry(t) \/ LostEntry(t)

\* Mutant: a session that cannot be read is passed over.
MarkUnreadable(t) ==
    /\ task[t].pc = "mark"
    /\ \E path \in task[t].todo :
          Becomes(t, [task[t] EXCEPT !.todo = @ \ {path}, !.keep = @ \cup At(path).refs])
    /\ UNCHANGED <<sessions, blob, lock, opened, counters>>

\* What a session names is kept; a session that cannot be read ends the
\* collection.
Mark(t) ==
    /\ task[t].pc = "mark"
    /\ \E path \in task[t].todo :
          IF IsFile(At(path))
          THEN /\ Becomes(t, [task[t] EXCEPT !.todo = @ \ {path}, !.keep = @ \cup At(path).refs])
               /\ UNCHANGED lock
          ELSE Becomes(t, Idle) /\ lock' = Unlocked(t)
    /\ UNCHANGED <<sessions, blob, opened, counters>>

Marked(t) ==
    /\ task[t].pc = "mark" /\ task[t].todo = {}
    /\ Becomes(t, [task[t] EXCEPT !.pc = "sweep",
                                  !.todo = {b \in Blob : blob[b] # "none"} \ task[t].keep,
                                  !.keep = {}])
    /\ UNCHANGED <<sessions, blob, lock, opened, counters>>

\* The age of a blob nobody names is read ...
LookAtBlob(t) ==
    /\ task[t].pc = "sweep"
    /\ \E b \in task[t].todo :
          Becomes(t, [task[t] EXCEPT !.todo = @ \ {b}, !.at = {b},
                                     !.pc = IF blob[b] = "old" THEN "unlink" ELSE "sweep"])
    /\ UNCHANGED <<sessions, blob, lock, opened, counters>>

\* ... and one past its grace is removed.
Unlink(t) ==
    /\ task[t].pc = "unlink"
    /\ blob' = [b \in Blob |-> IF b \in task[t].at THEN "none" ELSE blob[b]]
    /\ Goes(t, "sweep")
    /\ UNCHANGED <<sessions, lock, opened, counters>>

EndCollection(t) ==
    /\ task[t].pc = "sweep" /\ task[t].todo = {}
    /\ lock' = Unlocked(t)
    /\ Becomes(t, Idle)
    /\ UNCHANGED <<sessions, blob, opened, counters>>

Collect(t) ==
    \/ List(t) \/ Reading(t) \/ Mark(t) \/ Marked(t)
    \/ LookAtBlob(t) \/ Unlink(t) \/ EndCollection(t)

-----------------------------------------------------------------------------
(* Time, crashes.                                                          *)

Older(age) == IF age = "fresh" THEN "idle" ELSE "old"

Aged(f) == IF IsFile(f) THEN [f EXCEPT !.age = Older(@)] ELSE f

Collecting == {"list", "mark", "sweep", "unlink"}

\* Two copies of one save have one age, and a stale compressed copy is the older.
\* The ages a sweep looks for are days: a collection is over before one is reached.
AgeSession(s) ==
    /\ \A t \in Task : task[t].pc \notin Collecting
    /\ \E f \in {plain[s], packed[s]} : IsFile(f) /\ f.age # "old"
    /\ packed' = [packed EXCEPT ![s] = Aged(@)]
    /\ \/ plain' = [plain EXCEPT ![s] = Aged(@)]
       \/ UNCHANGED plain /\ IsFile(packed[s]) /\ packed[s].save # plain[s].save
    /\ UNCHANGED <<blob, lock, opened, task, counters>>

\* The grace of a blob outlasts a save that refers to it without the lock, and a
\* collection.
AgeBlob(b) ==
    /\ blob[b] = "fresh"
    /\ \A t \in Task : /\ task[t].pc \in {"blobs", "touch"} => b \notin task[t].refs
                       /\ task[t].pc \notin Collecting
    /\ blob' = [blob EXCEPT ![b] = "old"]
    /\ UNCHANGED <<sessions, lock, opened, task, counters>>

\* The stale age outlasts the moment between the creation of a lock and the
\* writing of its owner.
AgeLock ==
    /\ lock # NoLock /\ ~lock.old
    /\ lock.stamped \/ Dead(lock.owner)
    /\ lock' = [lock EXCEPT !.old = TRUE]
    /\ UNCHANGED <<sessions, blob, opened, task, counters>>

\* A crashed task's store lock stays, and the task is gone for whoever judges it.  (A
\* crash between saves is a Close.)
Crash(t) ==
    /\ task[t].pc \notin {"idle", "open", "dead"}
    /\ faults < MaxFault /\ faults' = faults + 1
    /\ Becomes(t, IF lock.owner = t THEN [Idle EXCEPT !.pc = "dead"] ELSE Idle)
    /\ LetsGo(t)
    /\ UNCHANGED <<sessions, blob, lock, saves>>

\* A new task takes the name, once no lock has it.
Restart(t) ==
    /\ Dead(t) /\ lock.owner # t
    /\ Becomes(t, Idle)
    /\ UNCHANGED <<sessions, blob, lock, opened, counters>>

Init ==
    /\ plain = [s \in Session |-> NoFile]
    /\ packed = [s \in Session |-> NoFile]
    /\ blob = [b \in Blob |-> "none"]
    /\ lock = NoLock
    /\ opened = [s \in Session |-> NoTask]
    /\ task = [t \in Task |-> Idle]
    /\ saves = 0 /\ faults = 0

Next ==
    \/ \E t \in Task : Acquisition(t) \/ Window(t) \/ Sweep(t) \/ Collect(t)
                         \/ Crash(t) \/ Restart(t)
    \/ \E s \in Session : AgeSession(s)
    \/ \E b \in Blob : AgeBlob(b)
    \/ AgeLock

Spec == Init /\ [][Next]_vars
-----------------------------------------------------------------------------
(* What retention promises.                                                *)

FileType == [save : 0..MaxSave, refs : SUBSET Blob, age : {"fresh", "idle", "old"}]

TaskType ==
    [pc : {"idle", "open", "acquire", "stamp", "reap", "blobs", "touch", "unpack", "look",
           "claim", "handle", "drop", "list", "mark", "sweep", "unlink", "dead"},
     goal : {"save", "purge", "compress", "collect"},
     sess : SUBSET Session, refs : SUBSET Blob, guarded : BOOLEAN,
     todo : SUBSET (Path \cup Blob), at : SUBSET (Path \cup Blob), keep : SUBSET Blob,
     purged : BOOLEAN]

\* The types of the variables; whoever handles a session's files holds its
\* open-lock.
TypeOK ==
    /\ plain \in [Session -> FileType] /\ packed \in [Session -> FileType]
    /\ blob \in [Blob -> {"none", "fresh", "old"}]
    /\ lock \in [owner : Task \cup {NoTask}, stamped : BOOLEAN, old : BOOLEAN]
    /\ opened \in [Session -> Task \cup {NoTask}]
    /\ task \in [Task -> TaskType]
    /\ \A t \in Task, s \in Session : Handles(t, s) /\ task[t].pc # "claim" => opened[s] = t
    /\ saves \in 0..MaxSave /\ faults \in 0..MaxFault

\* A task in the section the store lock guards.
Guarded(t) ==
    task[t].guarded /\ task[t].pc \in {"blobs", "touch", "unpack"} \cup Collecting

\* The store lock excludes: nobody collects while another collects or saves under
\* it, however often holders crash (store_lock.rs: "so exactly one process can
\* hold it").
StoreExclusion == \A t, u \in Task : Guarded(t) /\ Guarded(u) => t = u

\* An attachment is stored before a session that names it is, and stays as long as
\* a load returns that session, whatever is purged, compressed and collected
\* meanwhile (attachment_store.rs, lock_blob_store; session.rs,
\* collect_blob_garbage).  Only a purge that uncovers an earlier copy may bring back
\* a name whose attachment is gone.
NamedBlobsKept ==
    [][\A s \in Session : LET new == Loaded(s)' IN
          \A b \in new.refs : \/ blob'[b] # "none"
                              \/ new.save < Loaded(s).save
                              \/ new.save = Loaded(s).save /\ blob[b] = "none"]_vars

\* A session that is not old, or that a user named, never vanishes, and what a load
\* returns never goes back to an earlier save (session.rs, sweep_dir and
\* compress_session_file).
SessionsKept ==
    [][\A s \in Session :
          IsFile(Loaded(s)) /\ (Loaded(s).age # "old" \/ s \in UserNamed)
          => IsFile(Loaded(s)') /\ Loaded(s)'.save >= Loaded(s).save]_vars
=============================================================================
