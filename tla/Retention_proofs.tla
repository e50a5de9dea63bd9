-------------------------- MODULE Retention_proofs --------------------------
(* Proofs about Retention, for any number of windows, sessions and attachments. *)
EXTENDS Retention, TLAPS

-----------------------------------------------------------------------------
(* The inductive invariants.                                               *)

\* What a task has in hand fits where it stands.
Shape(r) ==
    /\ r.pc \in {"look", "claim", "handle", "drop", "mark"} => r.todo \subseteq Path
    /\ r.pc \in {"claim", "handle", "drop"} =>
           \E path \in Path : r.at = {path} /\ r.sess = {path[1]}
    /\ r.pc = "drop" => \A path \in r.at : path[2] = "plain"
    /\ r.pc \in {"blobs", "touch"} => r.todo \subseteq r.refs
    /\ r.pc = "touch" => \E b \in r.todo : r.at = {b}
    /\ r.pc \in {"sweep", "unlink"} => r.todo \subseteq Blob /\ r.at \subseteq Blob
    /\ r.pc \notin {"claim", "handle", "drop", "touch", "sweep", "unlink"} => r.at = {}

Typed == TypeOK /\ \A t \in Task : Shape(task[t])

\* The store lock's file names whoever is in the section it guards; the owner of one
\* that is being reaped is gone.
LockKept ==
    /\ lock.owner = NoTask => lock = NoLock
    /\ lock.old => lock.stamped \/ Dead(lock.owner)
    /\ \A t \in Task :
          /\ task[t].pc = "stamp" => lock.owner = t /\ ~lock.stamped
          /\ task[t].guarded => /\ lock.owner = t /\ lock.stamped
                                /\ task[t].pc \in {"blobs", "touch", "unpack"} \cup Collecting
          /\ task[t].pc \in Collecting => task[t].guarded
          /\ task[t].pc = "reap" => lock.owner \in Task /\ Dead(lock.owner)
    /\ \A t, u \in Task : task[t].pc = "reap" /\ task[u].pc = "reap" => t = u

\* A file is a save's, and a compressed copy is none of a later save than the plain one.
FilesOrdered ==
    \A s \in Session :
        /\ IsFile(plain[s]) => plain[s].save \in 1..saves
        /\ IsFile(packed[s]) => packed[s].save \in 1..saves
        /\ IsFile(plain[s]) /\ IsFile(packed[s]) => packed[s].save <= plain[s].save

\* A save is newer than the files it replaces; between the write and the removal of
\* the other copy both of a save's and of a compression's files are there.
InHand(t, s) ==
    /\ task[t].pc \in {"acquire", "stamp", "reap", "blobs", "touch"} =>
           plain[s].save < saves /\ packed[s].save < saves
    /\ task[t].pc = "unpack" => IsFile(plain[s])
    /\ task[t].pc = "drop" => IsFile(plain[s]) /\ packed[s] = plain[s]

Handled == \A t \in Task, s \in Session : Handles(t, s) => InHand(t, s)

\* What is about to be purged is old.
PurgesOld ==
    \A t \in Task : \A path \in task[t].at :
        task[t].pc = "handle" /\ task[t].goal = "purge" /\ IsFile(At(path)) => At(path).age = "old"

\* What a save has dealt with is stored, and so is what it is about to refresh; what one
\* without the store lock names is too young to be collected, and what is about to be
\* removed is not.
Stored(t) ==
    /\ task[t].pc \in {"blobs", "touch"} =>
          /\ \A b \in task[t].refs \ task[t].todo : blob[b] # "none"
          /\ ~task[t].guarded => \A b \in task[t].refs : blob[b] # "old"
    /\ task[t].pc = "touch" => \A b \in task[t].at : blob[b] # "none"
    /\ task[t].pc = "unlink" => \A b \in task[t].at : blob[b] = "old"

BlobsStored == \A t \in Task : Stored(t)

\* A compressed copy behind a plain file that was written during the collection.
Covered(s) ==
    IsFile(plain[s]) /\ plain[s].age = "fresh" /\ packed[s].save < plain[s].save

\* A compressed copy of a plain file that is listed and not read yet, or was.
CopyOfListed(t, s) ==
    /\ <<s, "plain">> \in task[t].todo
    /\ IsFile(plain[s]) => plain[s].refs = packed[s].refs /\ plain[s].save = packed[s].save

\* A collection spares what a session's file names: it knows the name, will read it,
\* or the attachment or what hides the file is too young.
Spared(t, path, b) ==
    \/ blob[b] = "fresh"
    \/ path[2] = "packed" /\ Covered(path[1])
    \/ task[t].pc = "mark" /\ (b \in task[t].keep \/ path \in task[t].todo)
    \/ task[t].pc = "mark" /\ path[2] = "packed" /\ CopyOfListed(t, path[1])
    \/ task[t].pc \in {"sweep", "unlink"} /\ b \notin task[t].todo \cup task[t].at

NamedSpared ==
    \A t \in Task : task[t].pc \in {"mark", "sweep", "unlink"} =>
        \A path \in Listing : \A b \in At(path).refs : Spared(t, path, b)

-----------------------------------------------------------------------------
(* Types.                                                                  *)

LockType == [owner : Task \cup {NoTask}, stamped : BOOLEAN, old : BOOLEAN]

\* The files and the counters are of their types.
Filed ==
    /\ plain \in [Session -> FileType] /\ packed \in [Session -> FileType]
    /\ blob \in [Blob -> {"none", "fresh", "old"}]
    /\ lock \in LockType
    /\ saves \in 0..MaxSave /\ faults \in 0..MaxFault

PcType == {"idle", "open", "acquire", "stamp", "reap", "blobs", "touch", "unpack", "look",
           "claim", "handle", "drop", "list", "mark", "sweep", "unlink", "dead"}
\* A task whose fields are replaced by others of their types is of its type.
LEMMA TaskFields ==
    ASSUME NEW r \in TaskType
    PROVE  /\ \A pc \in PcType, at \in SUBSET (Path \cup Blob) :
                 /\ [r EXCEPT !.pc = pc, !.at = at] \in TaskType
                 /\ \A todo \in SUBSET (Path \cup Blob) :
                        [r EXCEPT !.todo = todo, !.at = at, !.pc = pc] \in TaskType
           /\ \A pc \in PcType, refs \in SUBSET Blob :
                 [r EXCEPT !.pc = pc, !.goal = "save", !.refs = refs, !.guarded = FALSE, !.todo = {}]
                     \in TaskType
           /\ \A pc \in PcType :
                 /\ [r EXCEPT !.pc = pc, !.goal = "save", !.sess = {}, !.at = {}] \in TaskType
                 /\ [r EXCEPT !.pc = pc, !.goal = "save", !.sess = {}, !.at = {}, !.purged = TRUE]
                        \in TaskType
           /\ \A todo \in SUBSET (Path \cup Blob), keep \in SUBSET Blob :
                 [r EXCEPT !.todo = todo, !.keep = keep] \in TaskType
<1>1. ASSUME NEW pc \in PcType, NEW at \in SUBSET (Path \cup Blob)
      PROVE  [r EXCEPT !.pc = pc, !.at = at] \in TaskType
  BY DEF TaskType, PcType
<1>2. ASSUME NEW pc \in PcType, NEW at \in SUBSET (Path \cup Blob),
             NEW todo \in SUBSET (Path \cup Blob)
      PROVE  [r EXCEPT !.todo = todo, !.at = at, !.pc = pc] \in TaskType
  BY DEF TaskType, PcType
<1>3. ASSUME NEW pc \in PcType, NEW refs \in SUBSET Blob
      PROVE  [r EXCEPT !.pc = pc, !.goal = "save", !.refs = refs, !.guarded = FALSE, !.todo = {}]
                 \in TaskType
  BY DEF TaskType, PcType
<1>4. ASSUME NEW pc \in PcType, NEW goal \in {"save"}, NEW sess \in SUBSET Session,
             NEW at \in SUBSET (Path \cup Blob)
      PROVE  /\ [r EXCEPT !.pc = pc, !.goal = goal, !.sess = sess, !.at = at] \in TaskType
             /\ [r EXCEPT !.pc = pc, !.goal = goal, !.sess = sess, !.at = at, !.purged = TRUE]
                    \in TaskType
  BY DEF TaskType, PcType
<1>5. ASSUME NEW todo \in SUBSET (Path \cup Blob), NEW keep \in SUBSET Blob
      PROVE  [r EXCEPT !.todo = todo, !.keep = keep] \in TaskType
  BY DEF TaskType
<1>. QED
  BY <1>1, <1>2, <1>3, <1>4, <1>5

\* One task goes on as r, and takes or lets go of open-locks of its own.
LEMMA OneTask ==
    ASSUME Typed, NEW t \in Task, NEW r \in TaskType, Shape(r), Becomes(t, r),
           Filed', opened' \in [Session -> Task \cup {NoTask}],
           \A s \in Session : s \in r.sess /\ r.pc # "claim" => opened'[s] = t,
           \A s \in Session : \A u \in Task \ {t} : opened[s] = u => opened'[s] = u
    PROVE  Typed'
<1>1. /\ task' \in [Task -> TaskType] /\ task'[t] = r
      /\ \A u \in Task \ {t} : task'[u] = task[u]
  BY DEF Typed, TypeOK, Becomes
<1>2. \A u \in Task : Shape(task'[u])
  BY <1>1 DEF Typed
<1>3. \A u \in Task, s \in Session : s \in task'[u].sess /\ task'[u].pc # "claim" => opened'[s] = u
  <2>. SUFFICES ASSUME NEW u \in Task, NEW s \in Session, s \in task'[u].sess, task'[u].pc # "claim"
                PROVE  opened'[s] = u
    OBVIOUS
  <2>1. CASE u = t
    BY <1>1, <2>1
  <2>2. CASE u # t
    <3>1. task'[u] = task[u]
      BY <1>1, <2>2
    <3>2. opened[s] = u
      BY <3>1 DEF Typed, TypeOK, Handles
    <3>. QED  BY <3>2, <2>2
  <2>. QED  BY <2>1, <2>2
<1>. QED  BY <1>1, <1>2, <1>3 DEF Typed, TypeOK, Handles, Filed, LockType

\* A task that goes on as r handles no session it did not hold.
HandlesNoMore(t, r) ==
    r.pc = "claim" \/ r.sess = {} \/ (r.sess = task[t].sess /\ task[t].pc # "claim")

\* It goes on as r and touches nothing else.
LEMMA OneTaskAlone ==
    ASSUME Typed, NEW t \in Task, NEW r \in TaskType, Shape(r), Becomes(t, r),
           Filed', opened' = opened, HandlesNoMore(t, r)
    PROVE  Typed'
<1>1. \A s \in Session : s \in r.sess /\ r.pc # "claim" => opened[s] = t
  BY DEF Typed, TypeOK, Handles, HandlesNoMore
<1>. QED  BY <1>1, OneTask DEF Typed, TypeOK

\* A directory that is read on changes what is left to be read, and nothing else.
LEMMA ReadingMoves ==
    ASSUME Typed, NEW t \in Task, Reading(t)
    PROVE  \E todo \in SUBSET Path :
              LET r == [task[t] EXCEPT !.todo = todo] IN
              /\ Becomes(t, r) /\ r \in TaskType /\ Shape(r)
              /\ task[t].pc = "mark" /\ task[t].at = {}
              /\ task'[t] = r /\ \A u \in Task \ {t} : task'[u] = task[u]
              /\ \/ todo = task[t].todo \cup (todo \cap Listing)
                 \/ \E path \in task[t].todo \ Listing :
                        /\ todo = task[t].todo \ {path}
                        /\ "lazyList" \in Allowed \/ ~IsFile(Loaded(path[1]))
              /\ plain' = plain /\ packed' = packed /\ blob' = blob /\ lock' = lock
              /\ opened' = opened /\ saves' = saves /\ faults' = faults
<1>a. /\ task \in [Task -> TaskType] /\ task[t].pc = "mark"
      /\ task[t].todo \subseteq Path /\ task[t].at = {} /\ Listing \subseteq Path
  BY DEF Typed, TypeOK, Shape, Reading, LateEntry, LostEntry, Listing
<1>b. /\ plain' = plain /\ packed' = packed /\ blob' = blob /\ lock' = lock
      /\ opened' = opened /\ saves' = saves /\ faults' = faults
  BY DEF Reading, LateEntry, LostEntry, sessions, counters
<1>c. ASSUME NEW todo \in SUBSET Path, Becomes(t, [task[t] EXCEPT !.todo = todo])
      PROVE  LET r == [task[t] EXCEPT !.todo = todo] IN
             /\ r \in TaskType /\ Shape(r)
             /\ task'[t] = r /\ \A u \in Task \ {t} : task'[u] = task[u]
  <2>. DEFINE r == [task[t] EXCEPT !.todo = todo]
  <2>1. r \in TaskType /\ r.pc = "mark" /\ r.at = {} /\ r.todo \subseteq Path
    BY <1>a DEF TaskType
  <2>2. Shape(r)
    BY <2>1 DEF Shape
  <2>3. task'[t] = r /\ \A u \in Task \ {t} : task'[u] = task[u]
    BY <1>a, <1>c DEF Becomes
  <2>. QED  BY <2>1, <2>2, <2>3
<1>1. CASE LateEntry(t)
  <2>1. PICK path \in Listing : Becomes(t, [task[t] EXCEPT !.todo = task[t].todo \cup {path}])
    BY <1>1 DEF LateEntry
  <2>. DEFINE todo == task[t].todo \cup {path}
  <2>2. todo \in SUBSET Path /\ todo = task[t].todo \cup (todo \cap Listing)
    BY <1>a
  <2>. QED  BY <1>a, <1>b, <1>c, <2>1, <2>2
<1>2. CASE LostEntry(t)
  <2>1. PICK path \in task[t].todo \ Listing :
            /\ "lazyList" \in Allowed \/ ~IsFile(Loaded(path[1]))
            /\ Becomes(t, [task[t] EXCEPT !.todo = task[t].todo \ {path}])
    BY <1>2 DEF LostEntry
  <2>. DEFINE todo == task[t].todo \ {path}
  <2>2. todo \in SUBSET Path
    BY <1>a
  <2>. QED  BY <1>a, <1>b, <1>c, <2>1, <2>2
<1>. QED  BY <1>1, <1>2 DEF Reading

\* The files a task writes are of the right type.
LEMMA FileTypes ==
    ASSUME Typed
    PROVE  /\ NoFile \in FileType /\ NoLock \in LockType
           /\ \A t \in Task : /\ LockFile(t) \in LockType
                              /\ Unlocked(t) \in LockType
           /\ \A refs \in SUBSET Blob : File(saves, refs) \in FileType
           /\ \A path \in Path : At(path) \in FileType
           /\ \A f \in FileType : Aged(f) \in FileType
           /\ Idle \in TaskType /\ Shape(Idle) /\ Listing \subseteq Path
<1>1. NoFile \in FileType /\ NoLock \in LockType
  BY BoundsAssumption DEF FileType, NoFile, NoLock, LockFile, LockType
<1>2. \A t \in Task : LockFile(t) \in LockType /\ Unlocked(t) \in LockType
  BY <1>1 DEF LockFile, Unlocked, LockType, Typed, TypeOK
<1>3. \A refs \in SUBSET Blob : File(saves, refs) \in FileType
  BY DEF Typed, TypeOK, File, FileType
<1>4. \A path \in Path : At(path) \in FileType
  BY DEF Typed, TypeOK, At, Path
<1>5. \A f \in FileType : Aged(f) \in FileType
  BY DEF FileType, Aged, Older
<1>6. Idle \in TaskType /\ Shape(Idle)
  BY DEF Idle, TaskType, Shape
<1>7. Listing \subseteq Path
  BY DEF Listing
<1>. QED  BY <1>1, <1>2, <1>3, <1>4, <1>5, <1>6, <1>7

\* No task moves.
LEMMA NoTaskMoves ==
    ASSUME Typed, Filed', task' = task, opened' = opened
    PROVE  Typed'
BY DEF Typed, TypeOK, Filed, LockType, Handles

\* Every step keeps the types and the shapes.
LEMMA TypedStep == Typed /\ [Next]_vars => Typed'
<1>. SUFFICES ASSUME Typed, [Next]_vars PROVE Typed'
  OBVIOUS
<1>a. /\ plain \in [Session -> FileType] /\ packed \in [Session -> FileType]
      /\ blob \in [Blob -> {"none", "fresh", "old"}] /\ lock \in LockType
      /\ opened \in [Session -> Task \cup {NoTask}]
      /\ task \in [Task -> TaskType] /\ saves \in 0..MaxSave /\ faults \in 0..MaxFault
      /\ MaxSave \in Nat /\ MaxFault \in Nat
  BY BoundsAssumption DEF Typed, TypeOK, LockType
<1>1. ASSUME NEW t \in Task, CreateLock(t)
      PROVE  Typed'
  <2>. DEFINE r == [task[t] EXCEPT !.pc = "stamp"]
  <2>1. r \in TaskType /\ Shape(r)
    BY <1>1, <1>a, FileTypes DEF CreateLock, Typed, Shape, TaskType, Idle
  <2>2. Becomes(t, r)
    BY <1>1 DEF CreateLock, Goes
  <2>3. opened' = opened /\ HandlesNoMore(t, r)
    BY <1>1, <1>a DEF HandlesNoMore, CreateLock, Idle, sessions, counters, Goes
  <2>4. Filed'
    BY <1>1, <1>a, FileTypes DEF Filed, CreateLock, sessions, counters, TaskType, LockType
  <2>. HIDE DEF r
  <2>. QED  BY <2>1, <2>2, <2>3, <2>4, OneTaskAlone
<1>2. ASSUME NEW t \in Task, StampLock(t)
      PROVE  Typed'
  <2>. DEFINE r == IF task[t].goal = "save"
                    THEN [task[t] EXCEPT !.pc = "blobs", !.guarded = TRUE, !.todo = task[t].refs]
                    ELSE [task[t] EXCEPT !.pc = "list", !.guarded = TRUE]
  <2>1. r \in TaskType /\ Shape(r)
    <3>1. task[t] \in TaskType /\ Shape(task[t]) /\ task[t].pc = "stamp"
      BY <1>2, <1>a DEF StampLock, Typed
    <3>2. r \in TaskType
      BY <3>1 DEF TaskType
    <3>. QED  BY <3>1, <3>2 DEF Shape, TaskType
  <2>2. Becomes(t, r)
    BY <1>2 DEF StampLock
  <2>3. opened' = opened /\ HandlesNoMore(t, r)
    BY <1>2, <1>a DEF HandlesNoMore, StampLock, Idle, sessions, counters
  <2>4. Filed'
    BY <1>2, <1>a, FileTypes DEF Filed, StampLock, sessions, counters, TaskType, LockType
  <2>. HIDE DEF r
  <2>. QED  BY <2>1, <2>2, <2>3, <2>4, OneTaskAlone
<1>3. ASSUME NEW t \in Task, JudgeLock(t)
      PROVE  Typed'
  <2>. DEFINE r == [task[t] EXCEPT !.pc = "reap"]
  <2>1. r \in TaskType /\ Shape(r)
    BY <1>3, <1>a, FileTypes DEF JudgeLock, Typed, Shape, TaskType, Idle
  <2>2. Becomes(t, r)
    BY <1>3 DEF JudgeLock, Goes
  <2>3. opened' = opened /\ HandlesNoMore(t, r)
    BY <1>3, <1>a DEF HandlesNoMore, JudgeLock, Idle, sessions, counters, Goes
  <2>4. Filed'
    BY <1>3, <1>a, FileTypes DEF Filed, JudgeLock, sessions, counters, TaskType, LockType
  <2>. HIDE DEF r
  <2>. QED  BY <2>1, <2>2, <2>3, <2>4, OneTaskAlone
<1>4. ASSUME NEW t \in Task, ReapLock(t)
      PROVE  Typed'
  <2>. DEFINE r == [task[t] EXCEPT !.pc = "acquire"]
  <2>1. r \in TaskType /\ Shape(r)
    BY <1>4, <1>a, FileTypes DEF ReapLock, Typed, Shape, TaskType, Idle
  <2>2. Becomes(t, r)
    BY <1>4 DEF ReapLock, Goes
  <2>3. opened' = opened /\ HandlesNoMore(t, r)
    BY <1>4, <1>a DEF HandlesNoMore, ReapLock, Idle, sessions, counters, Goes
  <2>4. Filed'
    BY <1>4, <1>a, FileTypes DEF Filed, ReapLock, sessions, counters, TaskType, LockType
  <2>. HIDE DEF r
  <2>. QED  BY <2>1, <2>2, <2>3, <2>4, OneTaskAlone
<1>5. ASSUME NEW t \in Task, SaveUnguarded(t)
      PROVE  Typed'
  <2>. DEFINE r == [task[t] EXCEPT !.pc = "blobs", !.todo = task[t].refs]
  <2>1. r \in TaskType /\ Shape(r)
    <3>1. task[t] \in TaskType /\ Shape(task[t]) /\ task[t].pc = "acquire"
      BY <1>5, <1>a DEF SaveUnguarded, Typed
    <3>2. r \in TaskType
      BY <3>1 DEF TaskType
    <3>. QED  BY <3>1, <3>2 DEF Shape, TaskType
  <2>2. Becomes(t, r)
    BY <1>5 DEF SaveUnguarded
  <2>3. opened' = opened /\ HandlesNoMore(t, r)
    BY <1>5, <1>a DEF HandlesNoMore, SaveUnguarded, Idle, sessions, counters
  <2>4. Filed'
    BY <1>5, <1>a, FileTypes DEF Filed, SaveUnguarded, sessions, counters, TaskType, LockType
  <2>. HIDE DEF r
  <2>. QED  BY <2>1, <2>2, <2>3, <2>4, OneTaskAlone
<1>6. ASSUME NEW t \in Task, SkipCollection(t)
      PROVE  Typed'
  <2>. DEFINE r == Idle
  <2>1. r \in TaskType /\ Shape(r)
    BY <1>6, <1>a, FileTypes DEF SkipCollection, Typed, Shape, TaskType, Idle
  <2>2. Becomes(t, r)
    BY <1>6 DEF SkipCollection
  <2>3. opened' = opened /\ HandlesNoMore(t, r)
    BY <1>6, <1>a DEF HandlesNoMore, SkipCollection, Idle, sessions, counters
  <2>4. Filed'
    BY <1>6, <1>a, FileTypes DEF Filed, SkipCollection, sessions, counters, TaskType, LockType
  <2>. HIDE DEF r
  <2>. QED  BY <2>1, <2>2, <2>3, <2>4, OneTaskAlone
<1>7. ASSUME NEW t \in Task, NEW s \in Session, Open(t, s)
      PROVE  Typed'
  <2>. DEFINE r == [Idle EXCEPT !.pc = "open", !.sess = {s}]
  <2>1. r \in TaskType /\ Shape(r)
    BY <1>7, <1>a, FileTypes DEF Open, Typed, Shape, TaskType, Idle
  <2>2. Becomes(t, r)
    BY <1>7 DEF Open
  <2>3. /\ opened' \in [Session -> Task \cup {NoTask}]
        /\ \A s_1 \in Session : s_1 \in r.sess /\ r.pc # "claim" => opened'[s_1] = t
        /\ \A s_1 \in Session : \A u \in Task \ {t} : opened[s_1] = u => opened'[s_1] = u
    BY <1>7, <1>a, NamesAssumption DEF Open, Idle
  <2>4. Filed'
    BY <1>7, <1>a, FileTypes DEF Filed, Open, sessions, counters, TaskType, LockType
  <2>. HIDE DEF r
  <2>. QED  BY <2>1, <2>2, <2>3, <2>4, OneTask
<1>8. ASSUME NEW t \in Task, Close(t)
      PROVE  Typed'
  <2>. DEFINE r == Idle
  <2>1. r \in TaskType /\ Shape(r)
    BY <1>8, <1>a, FileTypes DEF Close, Typed, Shape, TaskType, Idle
  <2>2. Becomes(t, r)
    BY <1>8 DEF Close
  <2>3. /\ opened' \in [Session -> Task \cup {NoTask}]
        /\ \A s_1 \in Session : s_1 \in r.sess /\ r.pc # "claim" => opened'[s_1] = t
        /\ \A s_1 \in Session : \A u \in Task \ {t} : opened[s_1] = u => opened'[s_1] = u
    BY <1>8, <1>a, NamesAssumption DEF Close, Idle
  <2>4. Filed'
    BY <1>8, <1>a, FileTypes DEF Filed, Close, sessions, counters, TaskType, LockType
  <2>. HIDE DEF r
  <2>. QED  BY <2>1, <2>2, <2>3, <2>4, OneTask
<1>9. ASSUME NEW t \in Task, NEW refs \in SUBSET Blob, BeginSave(t, refs)
      PROVE  Typed'
  <2>. DEFINE r == [task[t] EXCEPT !.pc = IF refs = {} THEN "blobs" ELSE "acquire",
                                 !.goal = "save", !.refs = refs, !.guarded = FALSE, !.todo = {}]
  <2>0. (IF refs = {} THEN "blobs" ELSE "acquire") \in {"blobs", "acquire"}
    OBVIOUS
  <2>1. r \in TaskType
    <3>1. task[t] \in TaskType /\ {} \in SUBSET (Path \cup Blob)
      BY <1>a
    <3>2. (IF refs = {} THEN "blobs" ELSE "acquire") \in PcType
      BY DEF PcType
    <3>. QED  BY <3>1, <3>2, TaskFields
  <2>2. Shape(r)
    BY <1>9, <1>a DEF BeginSave, Typed, Shape, TaskType
  <2>3. Becomes(t, r)
    BY <1>9 DEF BeginSave
  <2>4. opened' = opened /\ r.sess = task[t].sess /\ task[t].pc # "claim"
    BY <1>9, <1>a DEF BeginSave, sessions, TaskType
  <2>5. Filed'
    BY <1>9, <1>a DEF Filed, BeginSave, sessions
  <2>. HIDE DEF r
  <2>. QED  BY <2>1, <2>2, <2>3, <2>4, <2>5, OneTaskAlone DEF HandlesNoMore
<1>10. ASSUME NEW t \in Task, LookForBlob(t)
      PROVE  Typed'
  <2>1. PICK b \in task[t].todo :
            IF blob[b] = "none"
            THEN /\ blob' = [blob EXCEPT ![b] = "fresh"]
                 /\ Becomes(t, [task[t] EXCEPT !.todo = @ \ {b}])
            ELSE /\ Becomes(t, [task[t] EXCEPT !.pc = "touch", !.at = {b}])
                 /\ UNCHANGED blob
    BY <1>10 DEF LookForBlob
  <2>2. b \in task[t].refs /\ b \in Blob
    BY <1>10, <1>a DEF LookForBlob, Typed, Shape, TaskType
  <2>3. Filed' /\ opened' = opened
    BY <1>10, <1>a, <2>1, <2>2 DEF Filed, LookForBlob, sessions, counters
  <2>4. CASE blob[b] = "none"
    <3>. DEFINE r == [task[t] EXCEPT !.todo = @ \ {b}]
    <3>1. r \in TaskType /\ Shape(r) /\ r.sess = task[t].sess /\ task[t].pc # "claim"
      BY <1>10, <1>a, <2>2 DEF LookForBlob, Typed, Shape, TaskType
    <3>2. Becomes(t, r)
      BY <2>1, <2>4
    <3>. HIDE DEF r
    <3>. QED  BY <3>1, <3>2, <2>3, OneTaskAlone DEF HandlesNoMore
  <2>5. CASE blob[b] # "none"
    <3>. DEFINE r == [task[t] EXCEPT !.pc = "touch", !.at = {b}]
    <3>1. r \in TaskType
      <4>1. task[t] \in TaskType /\ {b} \in SUBSET (Path \cup Blob)
        BY <1>a, <2>2
      <4>2. "touch" \in PcType
        BY DEF PcType
      <4>. QED  BY <4>1, <4>2, TaskFields
    <3>2. Shape(r) /\ r.sess = task[t].sess /\ task[t].pc # "claim"
      BY <1>10, <1>a, <2>2 DEF LookForBlob, Typed, Shape, TaskType
    <3>3. Becomes(t, r)
      BY <2>1, <2>5
    <3>. HIDE DEF r
    <3>. QED  BY <3>1, <3>2, <3>3, <2>3, OneTaskAlone DEF HandlesNoMore
  <2>. QED  BY <2>4, <2>5
<1>11. ASSUME NEW t \in Task, TouchBlob(t)
      PROVE  Typed'
  <2>. DEFINE r == [task[t] EXCEPT !.pc = "blobs", !.todo = @ \ task[t].at, !.at = {}]
  <2>1. r \in TaskType /\ Shape(r)
    <3>1. task[t] \in TaskType /\ Shape(task[t]) /\ task[t].pc = "touch"
      BY <1>11, <1>a DEF TouchBlob, Typed
    <3>2. r \in TaskType
      BY <3>1 DEF TaskType
    <3>. QED  BY <3>1, <3>2 DEF Shape, TaskType
  <2>2. Becomes(t, r)
    BY <1>11 DEF TouchBlob
  <2>3. opened' = opened /\ HandlesNoMore(t, r)
    BY <1>11, <1>a DEF HandlesNoMore, TouchBlob, Idle, sessions, counters
  <2>4. Filed'
    BY <1>11, <1>a, FileTypes DEF Filed, TouchBlob, sessions, counters, TaskType, LockType
  <2>. HIDE DEF r
  <2>. QED  BY <2>1, <2>2, <2>3, <2>4, OneTaskAlone
<1>12. ASSUME NEW t \in Task, WriteSession(t)
      PROVE  Typed'
  <2>. DEFINE r == [task[t] EXCEPT !.pc = "unpack", !.refs = {}, !.todo = {}]
  <2>1. r \in TaskType /\ Shape(r)
    BY <1>12, <1>a, FileTypes DEF WriteSession, Typed, Shape, TaskType, Idle
  <2>2. Becomes(t, r)
    BY <1>12 DEF WriteSession
  <2>3. opened' = opened /\ HandlesNoMore(t, r)
    BY <1>12, <1>a DEF HandlesNoMore, WriteSession, Idle, counters
  <2>4. Filed'
    BY <1>12, <1>a, FileTypes DEF Filed, WriteSession, counters, TaskType, LockType
  <2>. HIDE DEF r
  <2>. QED  BY <2>1, <2>2, <2>3, <2>4, OneTaskAlone
<1>13. ASSUME NEW t \in Task, EndSave(t)
      PROVE  Typed'
  <2>. DEFINE r == [Idle EXCEPT !.pc = "open", !.sess = task[t].sess]
  <2>1. r \in TaskType /\ Shape(r)
    BY <1>13, <1>a, FileTypes DEF EndSave, Typed, Shape, TaskType, Idle
  <2>2. Becomes(t, r)
    BY <1>13 DEF EndSave
  <2>3. opened' = opened /\ HandlesNoMore(t, r)
    BY <1>13, <1>a DEF HandlesNoMore, EndSave, Idle
  <2>4. Filed'
    BY <1>13, <1>a, FileTypes DEF Filed, EndSave, TaskType, LockType
  <2>. HIDE DEF r
  <2>. QED  BY <2>1, <2>2, <2>3, <2>4, OneTaskAlone
<1>14. ASSUME NEW t \in Task, SaveFails(t)
      PROVE  Typed'
  <2>. DEFINE r == [Idle EXCEPT !.pc = "open", !.sess = task[t].sess]
  <2>1. r \in TaskType /\ Shape(r)
    BY <1>14, <1>a, FileTypes DEF SaveFails, Typed, Shape, TaskType, Idle
  <2>2. Becomes(t, r)
    BY <1>14 DEF SaveFails
  <2>3. opened' = opened /\ HandlesNoMore(t, r)
    BY <1>14, <1>a DEF HandlesNoMore, SaveFails, Idle, sessions
  <2>4. Filed'
    BY <1>14, <1>a, FileTypes DEF Filed, SaveFails, sessions, TaskType, LockType
  <2>. HIDE DEF r
  <2>. QED  BY <2>1, <2>2, <2>3, <2>4, OneTaskAlone
<1>15. ASSUME NEW t \in Task, BeginSweep(t)
      PROVE  Typed'
  <2>. DEFINE r == [Idle EXCEPT !.pc = "look", !.todo = Listing]
  <2>1. r \in TaskType /\ Shape(r)
    BY <1>15, <1>a, FileTypes DEF BeginSweep, Typed, Shape, TaskType, Idle
  <2>2. Becomes(t, r)
    BY <1>15 DEF BeginSweep
  <2>3. opened' = opened /\ HandlesNoMore(t, r)
    BY <1>15, <1>a DEF HandlesNoMore, BeginSweep, Idle, Listing, sessions, counters
  <2>4. Filed'
    BY <1>15, <1>a, FileTypes DEF Filed, BeginSweep, sessions, counters, TaskType, LockType
  <2>. HIDE DEF r
  <2>. QED  BY <2>1, <2>2, <2>3, <2>4, OneTaskAlone
<1>16. ASSUME NEW t \in Task, Look(t)
      PROVE  Typed'
  <2>. DEFINE rest(path) == [task[t] EXCEPT !.todo = @ \ {path}]
              r(path) == IF IsFile(At(path)) /\ (WantPurge(At(path)) \/ WantCompress(path, At(path)))
                         THEN [rest(path) EXCEPT !.pc = "claim", !.sess = {path[1]}, !.at = {path},
                                   !.goal = IF WantPurge(At(path)) THEN "purge" ELSE "compress"]
                         ELSE rest(path)
  <2>1. PICK path \in task[t].todo : Becomes(t, r(path))
    BY <1>16 DEF Look
  <2>2. path \in Path /\ path[1] \in Session
    BY <1>16, <1>a DEF Look, Typed, Shape, TaskType, Path
  <2>a. task[t] \in TaskType /\ task[t].todo \subseteq Path /\ task[t].at = {} /\ task[t].pc = "look"
    BY <1>16, <1>a DEF Look, Typed, Shape
  <2>b. rest(path) \in TaskType /\ rest(path).at = {} /\ rest(path).pc = "look"
        /\ rest(path).todo \subseteq Path
    BY <2>a DEF TaskType
  <2>c. Shape(rest(path))
    BY <2>b DEF Shape
  <2>d. ASSUME NEW g \in {"purge", "compress"}
        PROVE  LET q == [rest(path) EXCEPT !.pc = "claim", !.sess = {path[1]}, !.at = {path},
                                           !.goal = g]
               IN  q \in TaskType /\ Shape(q)
    <3>. DEFINE q == [rest(path) EXCEPT !.pc = "claim", !.sess = {path[1]}, !.at = {path},
                                        !.goal = g]
    <3>1. /\ q \in TaskType /\ q.pc = "claim" /\ q.at = {path} /\ q.sess = {path[1]}
          /\ q.todo \subseteq Path
      <4>. HIDE DEF rest
      <4>. QED  BY <2>b, <2>2 DEF TaskType
    <3>. HIDE DEF q
    <3>2. Shape(q)
      BY <3>1, <2>2 DEF Shape
    <3>. QED  BY <3>1, <3>2 DEF q
  <2>3. r(path) \in TaskType /\ Shape(r(path))
    <3>. HIDE DEF rest
    <3>. QED  BY <2>b, <2>c, <2>d
  <2>4. /\ opened' = opened
        /\ r(path).pc = "claim" \/ (r(path).sess = task[t].sess /\ task[t].pc # "claim")
    BY <1>16, <1>a DEF Look, TaskType
  <2>5. Filed'
    BY <1>16, <1>a DEF Filed, Look, sessions, counters
  <2>. HIDE DEF r
  <2>. QED  BY <2>1, <2>3, <2>4, <2>5, OneTaskAlone DEF HandlesNoMore
<1>17. ASSUME NEW t \in Task, Claim(t)
      PROVE  Typed'
  <2>1. PICK path \in Path : task[t].at = {path} /\ task[t].sess = {path[1]}
    BY <1>17 DEF Claim, Typed, Shape
  <2>2. path[1] \in Session
    BY DEF Path
  <2>3. Filed'
    BY <1>17, <1>a DEF Filed, Claim, sessions, counters
  <2>4. CASE opened[path[1]] = NoTask
    <3>. DEFINE r == [task[t] EXCEPT !.pc = "handle"]
    <3>1. Becomes(t, r) /\ opened' = [opened EXCEPT ![path[1]] = t]
      BY <1>17, <2>1, <2>4 DEF Claim, Goes
    <3>2. r \in TaskType /\ Shape(r) /\ r.sess = {path[1]}
      BY <1>17, <1>a, <2>1 DEF Claim, Typed, Shape, TaskType
    <3>3. /\ opened' \in [Session -> Task \cup {NoTask}]
          /\ \A s \in Session : s \in r.sess => opened'[s] = t
          /\ \A s \in Session : \A u \in Task \ {t} : opened[s] = u => opened'[s] = u
      BY <1>a, <2>2, <2>4, <3>1, <3>2, NamesAssumption
    <3>. HIDE DEF r
    <3>. QED  BY <3>1, <3>2, <3>3, <2>3, OneTask
  <2>5. CASE opened[path[1]] # NoTask
    <3>. DEFINE r == [task[t] EXCEPT !.pc = "look", !.goal = "save", !.sess = {}, !.at = {}]
    <3>1. Becomes(t, r) /\ opened' = opened
      BY <1>17, <2>1, <2>5 DEF Claim, Passes
    <3>2. r \in TaskType
      <4>1. task[t] \in TaskType
        BY <1>a
      <4>2. "look" \in PcType
        BY DEF PcType
      <4>. QED  BY <4>1, <4>2, TaskFields
    <3>3. r.sess = {} /\ r.at = {} /\ r.pc = "look" /\ r.todo \subseteq Path
      BY <1>17, <1>a DEF Claim, Typed, Shape, TaskType
    <3>. HIDE DEF r
    <3>4. Shape(r)
      BY <3>3 DEF Shape
    <3>. QED  BY <3>1, <3>2, <3>3, <3>4, <2>3, OneTaskAlone DEF HandlesNoMore
  <2>. QED  BY <2>4, <2>5
<1>18. ASSUME NEW t \in Task, Purge(t)
      PROVE  Typed'
  <2>. DEFINE r == [task[t] EXCEPT !.pc = "look", !.goal = "save", !.sess = {}, !.at = {},
                                 !.purged = TRUE]
  <2>0. r.sess = {} /\ r.at = {} /\ r.pc = "look" /\ r.todo \subseteq Path
    BY <1>18, <1>a DEF Purge, Typed, Shape, TaskType
  <2>1. r \in TaskType /\ Shape(r) /\ r.sess = {}
    <3>1. r \in TaskType
      <4>1. task[t] \in TaskType
        BY <1>a
      <4>2. "look" \in PcType
        BY DEF PcType
      <4>. QED  BY <4>1, <4>2, TaskFields
    <3>. HIDE DEF r
    <3>. QED  BY <2>0, <3>1 DEF Shape
  <2>2. Becomes(t, r)
    BY <1>18 DEF Purge
  <2>3. /\ opened' \in [Session -> Task \cup {NoTask}]
        /\ \A s \in Session : \A u \in Task \ {t} : opened[s] = u => opened'[s] = u
    BY <1>18, <1>a DEF Purge, LetsGo
  <2>4. PICK path \in Path : task[t].at = {path}
    BY <1>18 DEF Purge, Typed, Shape
  <2>5. plain' \in [Session -> FileType] /\ packed' \in [Session -> FileType]
    BY <1>18, <1>a, <2>4, FileTypes DEF Purge, Path
  <2>6. Filed'
    BY <1>18, <1>a, <2>5 DEF Filed, Purge, counters
  <2>. HIDE DEF r
  <2>. QED  BY <2>1, <2>2, <2>3, <2>6, OneTask
<1>19. ASSUME NEW t \in Task, Pack(t)
      PROVE  Typed'
  <2>. DEFINE r == [task[t] EXCEPT !.pc = "drop"]
  <2>1. PICK path \in Path : task[t].at = {path} /\ task[t].sess = {path[1]}
    BY <1>19 DEF Pack, Typed, Shape
  <2>2. path[2] = "plain" /\ packed' = [packed EXCEPT ![path[1]] = plain[path[1]]]
    BY <1>19, <2>1 DEF Pack
  <2>3. r \in TaskType /\ Shape(r) /\ r.sess = task[t].sess
    BY <1>19, <1>a, <2>1, <2>2 DEF Pack, Typed, Shape, TaskType
  <2>4. Becomes(t, r) /\ opened' = opened /\ task[t].pc # "claim"
    BY <1>19 DEF Pack, Goes
  <2>5. packed' \in [Session -> FileType]
    BY <1>a, <2>2 DEF Path
  <2>6. Filed'
    BY <1>19, <1>a, <2>5 DEF Filed, Pack, counters
  <2>. HIDE DEF r
  <2>. QED  BY <2>3, <2>4, <2>6, OneTaskAlone DEF HandlesNoMore
<1>20. ASSUME NEW t \in Task, DropPlain(t)
      PROVE  Typed'
  <2>. DEFINE r == [task[t] EXCEPT !.pc = "look", !.goal = "save", !.sess = {}, !.at = {}]
  <2>1. r \in TaskType /\ Shape(r)
    <3>1. task[t] \in TaskType /\ Shape(task[t]) /\ task[t].pc = "drop"
      BY <1>20, <1>a DEF DropPlain, Typed
    <3>2. r \in TaskType
      BY <3>1 DEF TaskType
    <3>. QED  BY <3>1, <3>2 DEF Shape, TaskType
  <2>2. Becomes(t, r)
    BY <1>20 DEF DropPlain, Passes
  <2>3. /\ opened' \in [Session -> Task \cup {NoTask}]
        /\ \A s_1 \in Session : s_1 \in r.sess /\ r.pc # "claim" => opened'[s_1] = t
        /\ \A s_1 \in Session : \A u \in Task \ {t} : opened[s_1] = u => opened'[s_1] = u
    BY <1>20, <1>a, NamesAssumption DEF DropPlain, LetsGo, Idle
  <2>4. Filed'
    BY <1>20, <1>a, FileTypes DEF Filed, DropPlain, counters, TaskType, LockType
  <2>. HIDE DEF r
  <2>. QED  BY <2>1, <2>2, <2>3, <2>4, OneTask
<1>21. ASSUME NEW t \in Task, LeaveAlone(t)
      PROVE  Typed'
  <2>. DEFINE r == [task[t] EXCEPT !.pc = "look", !.goal = "save", !.sess = {}, !.at = {}]
  <2>1. r \in TaskType /\ Shape(r)
    <3>1. task[t] \in TaskType /\ Shape(task[t]) /\ task[t].pc = "handle"
      BY <1>21, <1>a DEF LeaveAlone, Typed
    <3>2. r \in TaskType
      BY <3>1 DEF TaskType
    <3>. QED  BY <3>1, <3>2 DEF Shape, TaskType
  <2>2. Becomes(t, r)
    BY <1>21 DEF LeaveAlone, Passes
  <2>3. /\ opened' \in [Session -> Task \cup {NoTask}]
        /\ \A s_1 \in Session : s_1 \in r.sess /\ r.pc # "claim" => opened'[s_1] = t
        /\ \A s_1 \in Session : \A u \in Task \ {t} : opened[s_1] = u => opened'[s_1] = u
    BY <1>21, <1>a, NamesAssumption DEF LeaveAlone, LetsGo, Idle
  <2>4. Filed'
    BY <1>21, <1>a, FileTypes DEF Filed, LeaveAlone, sessions, TaskType, LockType
  <2>. HIDE DEF r
  <2>. QED  BY <2>1, <2>2, <2>3, <2>4, OneTask
<1>22. ASSUME NEW t \in Task, EndSweep(t)
      PROVE  Typed'
  <2>. DEFINE r == IF task[t].purged THEN [Idle EXCEPT !.pc = "acquire", !.goal = "collect"]
                                     ELSE Idle
  <2>1. r \in TaskType /\ Shape(r)
    BY <1>22, <1>a, FileTypes DEF EndSweep, Typed, Shape, TaskType, Idle
  <2>2. Becomes(t, r)
    BY <1>22 DEF EndSweep
  <2>3. opened' = opened /\ HandlesNoMore(t, r)
    BY <1>22, <1>a DEF HandlesNoMore, EndSweep, Idle, sessions, counters
  <2>4. Filed'
    BY <1>22, <1>a, FileTypes DEF Filed, EndSweep, sessions, counters, TaskType, LockType
  <2>. HIDE DEF r
  <2>. QED  BY <2>1, <2>2, <2>3, <2>4, OneTaskAlone
<1>23. ASSUME NEW t \in Task, List(t)
      PROVE  Typed'
  <2>. DEFINE r == [task[t] EXCEPT !.pc = "mark", !.todo = Listing]
  <2>1. r \in TaskType /\ Shape(r)
    BY <1>23, <1>a, FileTypes DEF List, Typed, Shape, TaskType, Idle
  <2>2. Becomes(t, r)
    BY <1>23 DEF List
  <2>3. opened' = opened /\ HandlesNoMore(t, r)
    BY <1>23, <1>a DEF HandlesNoMore, List, Idle, Listing, sessions, counters
  <2>4. Filed'
    BY <1>23, <1>a, FileTypes DEF Filed, List, sessions, counters, TaskType, LockType
  <2>. HIDE DEF r
  <2>. QED  BY <2>1, <2>2, <2>3, <2>4, OneTaskAlone
<1>24. ASSUME NEW t \in Task, Mark(t)
      PROVE  Typed'
  <2>1. PICK path \in task[t].todo :
            IF IsFile(At(path))
            THEN /\ Becomes(t, [task[t] EXCEPT !.todo = @ \ {path}, !.keep = @ \cup At(path).refs])
                 /\ UNCHANGED lock
            ELSE Becomes(t, Idle) /\ lock' = Unlocked(t)
    BY <1>24 DEF Mark
  <2>2. At(path) \in FileType
    BY <1>24, FileTypes DEF Mark, Typed, Shape
  <2>3. Filed' /\ opened' = opened
    BY <1>24, <1>a, <2>1, FileTypes DEF Filed, Mark, sessions, counters
  <2>4. CASE IsFile(At(path))
    <3>. DEFINE r == [task[t] EXCEPT !.todo = @ \ {path}, !.keep = @ \cup At(path).refs]
    <3>0. r \in TaskType
      <4>1. /\ task[t].todo \ {path} \in SUBSET (Path \cup Blob)
            /\ task[t].keep \cup At(path).refs \in SUBSET Blob
        BY <1>a, <2>2 DEF TaskType, FileType
      <4>2. task[t] \in TaskType
        BY <1>a
      <4>. QED  BY <4>1, <4>2, TaskFields
    <3>1. Shape(r) /\ r.sess = task[t].sess /\ task[t].pc # "claim"
      BY <1>24, <1>a DEF Mark, Typed, Shape, TaskType
    <3>2. Becomes(t, r)
      BY <2>1, <2>4
    <3>. HIDE DEF r
    <3>. QED  BY <3>0, <3>1, <3>2, <2>3, OneTaskAlone DEF HandlesNoMore
  <2>5. CASE ~IsFile(At(path))
    BY <2>1, <2>3, <2>5, FileTypes, OneTaskAlone DEF Idle, HandlesNoMore
  <2>. QED  BY <2>4, <2>5
<1>25. ASSUME NEW t \in Task, Marked(t)
      PROVE  Typed'
  <2>. DEFINE r == [task[t] EXCEPT !.pc = "sweep",
                                 !.todo = {b \in Blob : blob[b] # "none"} \ task[t].keep,
                                 !.keep = {}]
  <2>1. r \in TaskType /\ Shape(r)
    BY <1>25, <1>a, FileTypes DEF Marked, Typed, Shape, TaskType, Idle
  <2>2. Becomes(t, r)
    BY <1>25 DEF Marked
  <2>3. opened' = opened /\ HandlesNoMore(t, r)
    BY <1>25, <1>a DEF HandlesNoMore, Marked, Idle, sessions, counters
  <2>4. Filed'
    BY <1>25, <1>a, FileTypes DEF Filed, Marked, sessions, counters, TaskType, LockType
  <2>. HIDE DEF r
  <2>. QED  BY <2>1, <2>2, <2>3, <2>4, OneTaskAlone
<1>26. ASSUME NEW t \in Task, LookAtBlob(t)
      PROVE  Typed'
  <2>. DEFINE r(b) == [task[t] EXCEPT !.todo = @ \ {b}, !.at = {b},
                                    !.pc = IF blob[b] = "old" THEN "unlink" ELSE "sweep"]
  <2>1. PICK b \in task[t].todo : Becomes(t, r(b))
    BY <1>26 DEF LookAtBlob
  <2>2. ASSUME NEW pc \in {"unlink", "sweep"}
        PROVE  LET q == [task[t] EXCEPT !.todo = @ \ {b}, !.at = {b}, !.pc = pc]
               IN  q \in TaskType /\ Shape(q) /\ q.sess = task[t].sess
    <3>. DEFINE q == [task[t] EXCEPT !.todo = @ \ {b}, !.at = {b}, !.pc = pc]
    <3>0. task[t].todo \subseteq Blob
      BY <1>26 DEF LookAtBlob, Typed, Shape
    <3>1. q \in TaskType
      <4>1. /\ task[t] \in TaskType
            /\ {b} \in SUBSET (Path \cup Blob) /\ task[t].todo \ {b} \in SUBSET (Path \cup Blob)
        BY <1>a, <3>0
      <4>2. pc \in PcType
        BY DEF PcType
      <4>. QED  BY <4>1, <4>2, TaskFields
    <3>2. q.pc = pc /\ q.todo \subseteq Blob /\ q.at \subseteq Blob /\ q.sess = task[t].sess
      BY <1>a, <3>0 DEF TaskType
    <3>. HIDE DEF q
    <3>3. Shape(q)
      BY <3>2 DEF Shape
    <3>. QED  BY <3>1, <3>2, <3>3 DEF q
  <2>a. r(b) \in TaskType /\ Shape(r(b)) /\ r(b).sess = task[t].sess /\ task[t].pc # "claim"
    BY <2>2, <1>26 DEF LookAtBlob
  <2>3. Filed' /\ opened' = opened
    BY <1>26, <1>a DEF Filed, LookAtBlob, sessions, counters
  <2>. HIDE DEF r
  <2>. QED  BY <2>1, <2>a, <2>3, OneTaskAlone DEF HandlesNoMore
<1>27. ASSUME NEW t \in Task, Unlink(t)
      PROVE  Typed'
  <2>. DEFINE r == [task[t] EXCEPT !.pc = "sweep"]
  <2>1. r \in TaskType /\ Shape(r)
    BY <1>27, <1>a, FileTypes DEF Unlink, Typed, Shape, TaskType, Idle
  <2>2. Becomes(t, r)
    BY <1>27 DEF Unlink, Goes
  <2>3. opened' = opened /\ HandlesNoMore(t, r)
    BY <1>27, <1>a DEF HandlesNoMore, Unlink, Idle, sessions, counters, Goes
  <2>4. Filed'
    BY <1>27, <1>a, FileTypes DEF Filed, Unlink, sessions, counters, TaskType, LockType
  <2>. HIDE DEF r
  <2>. QED  BY <2>1, <2>2, <2>3, <2>4, OneTaskAlone
<1>28. ASSUME NEW t \in Task, EndCollection(t)
      PROVE  Typed'
  <2>. DEFINE r == Idle
  <2>1. r \in TaskType /\ Shape(r)
    BY <1>28, <1>a, FileTypes DEF EndCollection, Typed, Shape, TaskType, Idle
  <2>2. Becomes(t, r)
    BY <1>28 DEF EndCollection
  <2>3. opened' = opened /\ HandlesNoMore(t, r)
    BY <1>28, <1>a DEF HandlesNoMore, EndCollection, Idle, sessions, counters
  <2>4. Filed'
    BY <1>28, <1>a, FileTypes DEF Filed, EndCollection, sessions, counters, TaskType, LockType
  <2>. HIDE DEF r
  <2>. QED  BY <2>1, <2>2, <2>3, <2>4, OneTaskAlone
<1>29. ASSUME NEW t \in Task, Crash(t)
      PROVE  Typed'
  <2>. DEFINE r == IF lock.owner = t THEN [Idle EXCEPT !.pc = "dead"] ELSE Idle
  <2>1. r \in TaskType /\ Shape(r)
    BY <1>29, <1>a, FileTypes DEF Crash, Typed, Shape, TaskType, Idle
  <2>2. Becomes(t, r)
    BY <1>29 DEF Crash
  <2>3. /\ opened' \in [Session -> Task \cup {NoTask}]
        /\ \A s_1 \in Session : s_1 \in r.sess /\ r.pc # "claim" => opened'[s_1] = t
        /\ \A s_1 \in Session : \A u \in Task \ {t} : opened[s_1] = u => opened'[s_1] = u
    BY <1>29, <1>a, NamesAssumption DEF Crash, LetsGo, Idle
  <2>4. Filed'
    BY <1>29, <1>a, FileTypes DEF Filed, Crash, sessions, TaskType, LockType
  <2>. HIDE DEF r
  <2>. QED  BY <2>1, <2>2, <2>3, <2>4, OneTask
<1>30. ASSUME NEW t \in Task, Restart(t)
      PROVE  Typed'
  <2>. DEFINE r == Idle
  <2>1. r \in TaskType /\ Shape(r)
    BY <1>30, <1>a, FileTypes DEF Restart, Typed, Shape, TaskType, Idle
  <2>2. Becomes(t, r)
    BY <1>30 DEF Restart
  <2>3. opened' = opened /\ HandlesNoMore(t, r)
    BY <1>30, <1>a DEF HandlesNoMore, Restart, Idle, sessions, counters
  <2>4. Filed'
    BY <1>30, <1>a, FileTypes DEF Filed, Restart, sessions, counters, TaskType, LockType
  <2>. HIDE DEF r
  <2>. QED  BY <2>1, <2>2, <2>3, <2>4, OneTaskAlone
<1>31. ASSUME NEW s \in Session, AgeSession(s)
      PROVE  Typed'
  <2>1. /\ packed' = [packed EXCEPT ![s] = Aged(packed[s])]
        /\ plain' = [plain EXCEPT ![s] = Aged(plain[s])] \/ plain' = plain
    BY <1>31 DEF AgeSession
  <2>2. plain' \in [Session -> FileType] /\ packed' \in [Session -> FileType]
    BY <1>a, <2>1, FileTypes
  <2>. QED  BY <1>31, <1>a, <2>2, NoTaskMoves DEF AgeSession, Filed, counters
<1>32. ASSUME NEW b \in Blob, AgeBlob(b)
      PROVE  Typed'
  <2>1. Filed'
    BY <1>32, <1>a DEF AgeBlob, Filed, sessions, counters
  <2>. QED  BY <1>32, <2>1, NoTaskMoves DEF AgeBlob
<1>33. CASE AgeLock
  <2>1. Filed'
    BY <1>33, <1>a DEF AgeLock, Filed, LockType, sessions, counters
  <2>. QED  BY <1>33, <2>1, NoTaskMoves DEF AgeLock
<1>34. CASE UNCHANGED vars
  BY <1>34 DEF vars, Typed, TypeOK, Handles, Shape
<1>35. ASSUME NEW t \in Task, Reading(t)
      PROVE  Typed'
  <2>1. PICK todo \in SUBSET Path :
            LET r == [task[t] EXCEPT !.todo = todo] IN
            /\ Becomes(t, r) /\ r \in TaskType /\ Shape(r)
            /\ task[t].pc = "mark" /\ opened' = opened
            /\ plain' = plain /\ packed' = packed /\ blob' = blob /\ lock' = lock
            /\ saves' = saves /\ faults' = faults
    BY <1>35, ReadingMoves
  <2>. DEFINE r == [task[t] EXCEPT !.todo = todo]
  <2>2. HandlesNoMore(t, r)
    BY <1>a, <2>1 DEF HandlesNoMore, TaskType
  <2>3. Filed'
    BY <1>a, <2>1 DEF Filed
  <2>. HIDE DEF r
  <2>. QED  BY <2>1, <2>2, <2>3, OneTaskAlone DEF r
<1>. QED
  BY <1>1, <1>2, <1>3, <1>4, <1>5, <1>6, <1>7, <1>8, <1>9, <1>10, <1>11, <1>12, <1>13, <1>14,
     <1>15, <1>16, <1>17, <1>18, <1>19, <1>20, <1>21, <1>22, <1>23, <1>24, <1>25, <1>26, <1>27,
     <1>28, <1>29, <1>30, <1>31, <1>32, <1>33, <1>34, <1>35
     DEF Next, Acquisition, Window, Sweep, Collect

-----------------------------------------------------------------------------
(* Where the actions that choose lead.                                     *)

\* A save that looks for an attachment goes on, or is to refresh it.
LEMMA LookMoves ==
    ASSUME Typed, NEW t \in Task, LookForBlob(t)
    PROVE  /\ task[t].pc = "blobs" /\ task'[t].pc \in {"blobs", "touch"}
           /\ task'[t].sess = task[t].sess /\ task'[t].guarded = task[t].guarded
<1>a. task \in [Task -> TaskType] /\ task[t].pc = "blobs"
  BY DEF Typed, TypeOK, LookForBlob
<1>1. PICK b \in task[t].todo :
          \/ Becomes(t, [task[t] EXCEPT !.todo = @ \ {b}])
          \/ Becomes(t, [task[t] EXCEPT !.pc = "touch", !.at = {b}])
  BY DEF LookForBlob
<1>2. CASE Becomes(t, [task[t] EXCEPT !.todo = @ \ {b}])
  BY <1>a, <1>2 DEF Becomes, TaskType
<1>3. CASE Becomes(t, [task[t] EXCEPT !.pc = "touch", !.at = {b}])
  BY <1>a, <1>3 DEF Becomes, TaskType
<1>. QED  BY <1>1, <1>2, <1>3

\* A sweep that claims a session handles it or passes it over.
LEMMA ClaimMoves ==
    ASSUME Typed, NEW t \in Task, Claim(t)
    PROVE  /\ task[t].pc = "claim" /\ task'[t].pc \in {"handle", "look"}
           /\ task'[t].guarded = task[t].guarded
<1>a. task \in [Task -> TaskType] /\ task[t].pc = "claim"
  BY DEF Typed, TypeOK, Claim
<1>1. Goes(t, "handle") \/ Passes(t)
  BY DEF Claim
<1>2. CASE Goes(t, "handle")
  BY <1>a, <1>2 DEF Goes, Becomes, TaskType
<1>3. CASE Passes(t)
  BY <1>a, <1>3 DEF Passes, Becomes, TaskType
<1>. QED  BY <1>1, <1>2, <1>3

\* A collection that reads a session goes on or ends.
LEMMA MarkMoves ==
    ASSUME Typed, NEW t \in Task, Mark(t)
    PROVE  task[t].pc = "mark" /\ task'[t].pc \in {"mark", "idle"}
<1>a. task \in [Task -> TaskType] /\ task[t].pc = "mark"
  BY DEF Typed, TypeOK, Mark
<1>1. PICK path \in task[t].todo :
          \/ Becomes(t, [task[t] EXCEPT !.todo = @ \ {path}, !.keep = @ \cup At(path).refs])
          \/ Becomes(t, Idle)
  BY DEF Mark
<1>2. CASE Becomes(t, [task[t] EXCEPT !.todo = @ \ {path}, !.keep = @ \cup At(path).refs])
  BY <1>a, <1>2 DEF Becomes, TaskType
<1>3. CASE Becomes(t, Idle)
  BY <1>a, <1>3 DEF Becomes, Idle
<1>. QED  BY <1>1, <1>2, <1>3

-----------------------------------------------------------------------------
(* The store lock.                                                         *)

\* A task that goes on as r is where the store lock's file allows it to be.
LockFits(t, r) ==
    /\ r.pc = "stamp" => lock.owner = t /\ ~lock.stamped
    /\ r.guarded => /\ lock.owner = t /\ lock.stamped
                    /\ r.pc \in {"blobs", "touch", "unpack"} \cup Collecting
    /\ r.pc \in Collecting => r.guarded
    /\ r.pc = "reap" => /\ lock.owner \in Task \ {t} /\ Dead(lock.owner)
                        /\ \A u \in Task \ {t} : task[u].pc # "reap"
    /\ Dead(t) => r.pc = "dead" \/ lock.owner # t

\* What a move of one task has to respect while the file stays as it is.
LEMMA LockStays ==
    ASSUME Typed, LockKept, NEW t \in Task, lock' = lock, LockFits(t, task'[t]),
           \A u \in Task \ {t} : task'[u] = task[u]
    PROVE  LockKept'
<1>1. \A u \in Task : Dead(u) /\ lock.owner = u => Dead(u)'
  BY DEF Dead, LockFits
<1>2. ASSUME NEW u \in Task
      PROVE  /\ task'[u].pc = "stamp" => lock.owner = u /\ ~lock.stamped
             /\ task'[u].guarded => /\ lock.owner = u /\ lock.stamped
                                    /\ task'[u].pc \in {"blobs", "touch", "unpack"} \cup Collecting
             /\ task'[u].pc \in Collecting => task'[u].guarded
             /\ task'[u].pc = "reap" => lock.owner \in Task /\ Dead(lock.owner)
  BY <1>2 DEF LockFits, LockKept
<1>3. lock.owner \in Task \cup {NoTask}
  BY DEF Typed, TypeOK
<1>4. lock.old => lock.stamped \/ Dead(lock.owner)'
  <2>1. CASE lock.owner = NoTask
    BY <2>1 DEF LockKept, NoLock, LockFile
  <2>2. CASE lock.owner \in Task
    BY <2>2, <1>1 DEF LockKept
  <2>. QED  BY <2>1, <2>2, <1>3
<1>5. \A u, v \in Task : task'[u].pc = "reap" /\ task'[v].pc = "reap" => u = v
  BY DEF LockFits, LockKept
<1>. QED  BY <1>1, <1>2, <1>4, <1>5 DEF LockKept

\* A guard that is dropped: nobody else is in the section, and no one reaps the lock of
\* a task that lives.
LEMMA LockDropped ==
    ASSUME Typed, LockKept, NEW t \in Task, lock' = Unlocked(t), ~Dead(t),
           task'[t].pc \in {"idle", "open"}, ~task'[t].guarded, task[t].pc # "stamp",
           \A u \in Task \ {t} : task'[u] = task[u]
    PROVE  LockKept'
<1>1. CASE lock' = lock
  <2>1. LockFits(t, task'[t])
    BY DEF LockFits, Collecting
  <2>. QED  BY <1>1, <2>1, LockStays
<1>2. CASE lock' # lock
  <2>1. lock' = NoLock /\ lock.owner = t /\ lock.stamped
    BY <1>2 DEF Unlocked
  <2>2. ASSUME NEW u \in Task
        PROVE  task'[u].pc \notin {"stamp", "reap"} \cup Collecting /\ ~task'[u].guarded
    <3>1. CASE u = t
      BY <3>1 DEF Collecting
    <3>2. CASE u # t
      BY <2>1, <3>2 DEF LockKept
    <3>. QED  BY <3>1, <3>2
  <2>. QED  BY <2>1, <2>2 DEF LockKept, NoLock, LockFile
<1>. QED  BY <1>1, <1>2

\* Every step keeps the lock's invariant, if two tasks never judge one lock.
LEMMA LockStep ==
    ASSUME "reapRace" \notin Allowed, Typed, LockKept, [Next]_vars
    PROVE  LockKept'
<1>a. task \in [Task -> TaskType] /\ lock \in LockType /\ NoTask \notin Task
  BY NamesAssumption DEF Typed, TypeOK, LockType
<1>1. ASSUME NEW t \in Task, CreateLock(t)
      PROVE  LockKept'
  <2>1. task' = [task EXCEPT ![t] = [task[t] EXCEPT !.pc = "stamp"]]
    BY <1>1 DEF CreateLock, Becomes, Goes
  <2>2. ~task[t].guarded /\ \A u \in Task : task[u].pc \notin {"stamp", "reap"} /\ ~task[u].guarded
    BY <1>1, <1>a DEF CreateLock, LockKept, NoLock, LockFile
  <2>3. task'[t].pc = "stamp" /\ ~task'[t].guarded /\ \A u \in Task \ {t} : task'[u] = task[u]
    BY <2>1, <2>2, <1>a DEF TaskType
  <2>4. lock' = LockFile(t)
    BY <1>1 DEF CreateLock
  <2>5. ASSUME NEW u \in Task
        PROVE  /\ task'[u].pc \notin {"reap"} \cup Collecting /\ ~task'[u].guarded
               /\ task'[u].pc = "stamp" => u = t
    BY <2>2, <2>3 DEF LockKept, Collecting
  <2>. QED  BY <2>4, <2>5, <1>a DEF LockKept, LockFile
<1>2. ASSUME NEW t \in Task, StampLock(t)
      PROVE  LockKept'
  <2>1. lock.owner = t /\ ~lock.stamped /\ lock' = [lock EXCEPT !.stamped = TRUE]
    BY <1>2 DEF StampLock, LockKept
  <2>2. /\ task'[t].pc \in {"blobs", "list"} /\ task'[t].guarded
        /\ \A u \in Task \ {t} : task'[u] = task[u]
    BY <1>2, <1>a DEF StampLock, Becomes, TaskType
  <2>3. \A u \in Task : task[u].pc # "reap"
    BY <1>2, <2>1 DEF StampLock, LockKept, Dead
  <2>4. lock'.owner = t /\ lock'.stamped
    BY <2>1, <1>a DEF LockType
  <2>5. ASSUME NEW u \in Task \ {t}
        PROVE  ~task'[u].guarded /\ task'[u].pc \notin {"stamp", "reap"} \cup Collecting
    BY <2>1, <2>2, <2>3 DEF LockKept
  <2>. QED  BY <2>2, <2>4, <2>5, <1>a DEF LockKept, Collecting
<1>3. ASSUME NEW t \in Task, JudgeLock(t)
      PROVE  LockKept'
  <2>1. lock' = lock /\ \A u \in Task \ {t} : task'[u] = task[u]
    BY <1>3, <1>a DEF JudgeLock, Becomes, Goes
  <2>2. lock.owner \in Task \ {t} /\ Dead(lock.owner)
    BY <1>3, <1>a DEF JudgeLock, IsStale, LockKept, LockType, Dead
  <2>3. task'[t].pc = "reap" /\ task'[t].guarded = task[t].guarded
    BY <1>3, <1>a DEF JudgeLock, Goes, Becomes, TaskType
  <2>4. LockFits(t, task'[t])
    BY <1>3, <2>2, <2>3 DEF JudgeLock, LockKept, LockFits, Dead, Collecting
  <2>. QED  BY <2>1, <2>4, LockStays
<1>4. ASSUME NEW t \in Task, ReapLock(t)
      PROVE  LockKept'
  <2>1. /\ lock' = NoLock /\ lock.owner \in Task /\ Dead(lock.owner)
        /\ \A u \in Task \ {t} : task[u].pc # "reap"
    BY <1>4 DEF ReapLock, LockKept
  <2>2. /\ task'[t].pc = "acquire" /\ task'[t].guarded = task[t].guarded
        /\ \A u \in Task \ {t} : task'[u] = task[u]
    BY <1>4, <1>a DEF ReapLock, Goes, Becomes, TaskType
  <2>3. \A u \in Task : ~task[u].guarded /\ task[u].pc \notin {"stamp"} \cup Collecting
    BY <2>1, <1>a DEF LockKept, Dead, Collecting, TaskType
  <2>4. \A u \in Task : ~task'[u].guarded /\ task'[u].pc \notin {"stamp", "reap"} \cup Collecting
    BY <2>1, <2>2, <2>3, <1>4 DEF Collecting
  <2>. QED  BY <2>1, <2>4 DEF LockKept, NoLock, LockFile
<1>5. ASSUME NEW t \in Task, SaveUnguarded(t)
      PROVE  LockKept'
  <2>1. lock' = lock /\ \A u \in Task \ {t} : task'[u] = task[u]
    BY <1>5, <1>a DEF SaveUnguarded, Becomes
  <2>2. LockFits(t, task'[t])
    BY <1>5, <1>a DEF SaveUnguarded, Becomes, LockKept, LockFits, Dead, Idle, Collecting, TaskType
  <2>. QED  BY <2>1, <2>2, LockStays
<1>6. ASSUME NEW t \in Task, SkipCollection(t)
      PROVE  LockKept'
  <2>1. lock' = lock /\ \A u \in Task \ {t} : task'[u] = task[u]
    BY <1>6, <1>a DEF SkipCollection, Becomes
  <2>2. LockFits(t, task'[t])
    BY <1>6, <1>a DEF SkipCollection, Becomes, LockKept, LockFits, Dead, Idle, Collecting, TaskType
  <2>. QED  BY <2>1, <2>2, LockStays
<1>7. ASSUME NEW t \in Task, NEW s \in Session, Open(t, s)
      PROVE  LockKept'
  <2>1. lock' = lock /\ \A u \in Task \ {t} : task'[u] = task[u]
    BY <1>7, <1>a DEF Open, Becomes
  <2>2. LockFits(t, task'[t])
    BY <1>7, <1>a DEF Open, Becomes, LockKept, LockFits, Dead, Idle, Collecting, TaskType
  <2>. QED  BY <2>1, <2>2, LockStays
<1>8. ASSUME NEW t \in Task, Close(t)
      PROVE  LockKept'
  <2>1. lock' = lock /\ \A u \in Task \ {t} : task'[u] = task[u]
    BY <1>8, <1>a DEF Close, Becomes
  <2>2. LockFits(t, task'[t])
    BY <1>8, <1>a DEF Close, Becomes, LockKept, LockFits, Dead, Idle, Collecting, TaskType
  <2>. QED  BY <2>1, <2>2, LockStays
<1>9. ASSUME NEW t \in Task, NEW refs \in SUBSET Blob, BeginSave(t, refs)
      PROVE  LockKept'
  <2>1. lock' = lock /\ \A u \in Task \ {t} : task'[u] = task[u]
    BY <1>9, <1>a DEF BeginSave, Becomes
  <2>2. LockFits(t, task'[t])
    BY <1>9, <1>a DEF BeginSave, Becomes, LockKept, LockFits, Dead, Idle, Collecting, TaskType
  <2>. QED  BY <2>1, <2>2, LockStays
<1>10. ASSUME NEW t \in Task, LookForBlob(t)
      PROVE  LockKept'
  <2>1. lock' = lock /\ \A u \in Task \ {t} : task'[u] = task[u]
    BY <1>10, <1>a DEF LookForBlob, Becomes
  <2>2. /\ task[t].pc = "blobs" /\ task'[t].pc \in {"blobs", "touch"}
        /\ task'[t].guarded = task[t].guarded
    BY <1>10, LookMoves
  <2>3. LockFits(t, task'[t])
    BY <2>2 DEF LockKept, LockFits, Dead, Collecting
  <2>. QED  BY <2>1, <2>3, LockStays
<1>11. ASSUME NEW t \in Task, TouchBlob(t)
      PROVE  LockKept'
  <2>1. lock' = lock /\ \A u \in Task \ {t} : task'[u] = task[u]
    BY <1>11, <1>a DEF TouchBlob, Becomes
  <2>2. LockFits(t, task'[t])
    BY <1>11, <1>a DEF TouchBlob, Becomes, LockKept, LockFits, Dead, Idle, Collecting, TaskType
  <2>. QED  BY <2>1, <2>2, LockStays
<1>12. ASSUME NEW t \in Task, WriteSession(t)
      PROVE  LockKept'
  <2>1. lock' = lock /\ \A u \in Task \ {t} : task'[u] = task[u]
    BY <1>12, <1>a DEF WriteSession, Becomes
  <2>2. LockFits(t, task'[t])
    BY <1>12, <1>a DEF WriteSession, Becomes, LockKept, LockFits, Dead, Idle, Collecting, TaskType
  <2>. QED  BY <2>1, <2>2, LockStays
<1>13. ASSUME NEW t \in Task, EndSave(t)
      PROVE  LockKept'
  <2>1. /\ lock' = Unlocked(t) /\ task'[t].pc \in {"idle", "open"} /\ ~task'[t].guarded
        /\ task[t].pc \notin {"stamp", "dead"} /\ \A u \in Task \ {t} : task'[u] = task[u]
    BY <1>13, <1>a DEF EndSave, Becomes, Idle
  <2>. QED  BY <2>1, LockDropped DEF Dead
<1>14. ASSUME NEW t \in Task, SaveFails(t)
      PROVE  LockKept'
  <2>1. /\ lock' = Unlocked(t) /\ task'[t].pc \in {"idle", "open"} /\ ~task'[t].guarded
        /\ task[t].pc \notin {"stamp", "dead"} /\ \A u \in Task \ {t} : task'[u] = task[u]
    BY <1>14, <1>a DEF SaveFails, Becomes, Idle
  <2>. QED  BY <2>1, LockDropped DEF Dead
<1>15. ASSUME NEW t \in Task, BeginSweep(t)
      PROVE  LockKept'
  <2>1. lock' = lock /\ \A u \in Task \ {t} : task'[u] = task[u]
    BY <1>15, <1>a DEF BeginSweep, Becomes
  <2>2. LockFits(t, task'[t])
    BY <1>15, <1>a DEF BeginSweep, Becomes, LockKept, LockFits, Dead, Idle, Collecting, TaskType
  <2>. QED  BY <2>1, <2>2, LockStays
<1>16. ASSUME NEW t \in Task, Look(t)
      PROVE  LockKept'
  <2>1. lock' = lock /\ \A u \in Task \ {t} : task'[u] = task[u]
    BY <1>16, <1>a DEF Look, Becomes
  <2>2. LockFits(t, task'[t])
    BY <1>16, <1>a DEF Look, Becomes, LockKept, LockFits, Dead, Idle, Collecting, TaskType
  <2>. QED  BY <2>1, <2>2, LockStays
<1>17. ASSUME NEW t \in Task, Claim(t)
      PROVE  LockKept'
  <2>1. lock' = lock /\ \A u \in Task \ {t} : task'[u] = task[u]
    BY <1>17, <1>a DEF Claim, Becomes, Goes, Passes
  <2>2. /\ task[t].pc = "claim" /\ task'[t].pc \in {"handle", "look"}
        /\ task'[t].guarded = task[t].guarded
    BY <1>17, ClaimMoves
  <2>3. LockFits(t, task'[t])
    BY <2>2 DEF LockKept, LockFits, Dead, Collecting
  <2>. QED  BY <2>1, <2>3, LockStays
<1>18. ASSUME NEW t \in Task, Purge(t)
      PROVE  LockKept'
  <2>1. lock' = lock /\ \A u \in Task \ {t} : task'[u] = task[u]
    BY <1>18, <1>a DEF Purge, Becomes
  <2>2. LockFits(t, task'[t])
    BY <1>18, <1>a DEF Purge, Becomes, LockKept, LockFits, Dead, Idle, Collecting, TaskType
  <2>. QED  BY <2>1, <2>2, LockStays
<1>19. ASSUME NEW t \in Task, Pack(t)
      PROVE  LockKept'
  <2>1. lock' = lock /\ \A u \in Task \ {t} : task'[u] = task[u]
    BY <1>19, <1>a DEF Pack, Becomes, Goes
  <2>2. LockFits(t, task'[t])
    BY <1>19, <1>a DEF Pack, Becomes, Goes, LockKept, LockFits, Dead, Idle, Collecting, TaskType
  <2>. QED  BY <2>1, <2>2, LockStays
<1>20. ASSUME NEW t \in Task, DropPlain(t)
      PROVE  LockKept'
  <2>1. lock' = lock /\ \A u \in Task \ {t} : task'[u] = task[u]
    BY <1>20, <1>a DEF DropPlain, Becomes, Passes
  <2>2. LockFits(t, task'[t])
    BY <1>20, <1>a DEF DropPlain, Becomes, Passes, LockKept, LockFits, Dead, Idle, Collecting,
       TaskType
  <2>. QED  BY <2>1, <2>2, LockStays
<1>21. ASSUME NEW t \in Task, LeaveAlone(t)
      PROVE  LockKept'
  <2>1. lock' = lock /\ \A u \in Task \ {t} : task'[u] = task[u]
    BY <1>21, <1>a DEF LeaveAlone, Becomes, Passes
  <2>2. LockFits(t, task'[t])
    BY <1>21, <1>a DEF LeaveAlone, Becomes, Passes, LockKept, LockFits, Dead, Idle, Collecting,
       TaskType
  <2>. QED  BY <2>1, <2>2, LockStays
<1>22. ASSUME NEW t \in Task, EndSweep(t)
      PROVE  LockKept'
  <2>1. lock' = lock /\ \A u \in Task \ {t} : task'[u] = task[u]
    BY <1>22, <1>a DEF EndSweep, Becomes
  <2>2. LockFits(t, task'[t])
    BY <1>22, <1>a DEF EndSweep, Becomes, LockKept, LockFits, Dead, Idle, Collecting, TaskType
  <2>. QED  BY <2>1, <2>2, LockStays
<1>23. ASSUME NEW t \in Task, List(t)
      PROVE  LockKept'
  <2>1. lock' = lock /\ \A u \in Task \ {t} : task'[u] = task[u]
    BY <1>23, <1>a DEF List, Becomes
  <2>2. LockFits(t, task'[t])
    BY <1>23, <1>a DEF List, Becomes, LockKept, LockFits, Dead, Idle, Collecting, TaskType
  <2>. QED  BY <2>1, <2>2, LockStays
<1>24. ASSUME NEW t \in Task, Mark(t)
      PROVE  LockKept'
  <2>1. PICK path \in task[t].todo :
            IF IsFile(At(path))
            THEN /\ Becomes(t, [task[t] EXCEPT !.todo = @ \ {path}, !.keep = @ \cup At(path).refs])
                 /\ UNCHANGED lock
            ELSE Becomes(t, Idle) /\ lock' = Unlocked(t)
    BY <1>24 DEF Mark
  <2>2. task[t].pc = "mark" /\ \A u \in Task \ {t} : task'[u] = task[u]
    BY <1>24, <1>a DEF Mark, Becomes
  <2>3. CASE IsFile(At(path))
    <3>1. lock' = lock /\ task'[t].pc = "mark" /\ task'[t].guarded = task[t].guarded
      BY <1>a, <2>1, <2>2, <2>3 DEF Becomes, TaskType
    <3>2. LockFits(t, task'[t])
      BY <2>2, <3>1 DEF LockKept, LockFits, Dead, Collecting
    <3>. QED  BY <2>2, <3>1, <3>2, LockStays
  <2>4. CASE ~IsFile(At(path))
    <3>1. lock' = Unlocked(t) /\ task'[t] = Idle
      BY <1>a, <2>1, <2>4 DEF Becomes
    <3>. QED  BY <2>2, <3>1, LockDropped DEF Idle, Dead
  <2>. QED  BY <2>3, <2>4
<1>25. ASSUME NEW t \in Task, Marked(t)
      PROVE  LockKept'
  <2>1. lock' = lock /\ \A u \in Task \ {t} : task'[u] = task[u]
    BY <1>25, <1>a DEF Marked, Becomes
  <2>2. LockFits(t, task'[t])
    BY <1>25, <1>a DEF Marked, Becomes, LockKept, LockFits, Dead, Idle, Collecting, TaskType
  <2>. QED  BY <2>1, <2>2, LockStays
<1>26. ASSUME NEW t \in Task, LookAtBlob(t)
      PROVE  LockKept'
  <2>1. lock' = lock /\ \A u \in Task \ {t} : task'[u] = task[u]
    BY <1>26, <1>a DEF LookAtBlob, Becomes
  <2>2. LockFits(t, task'[t])
    BY <1>26, <1>a DEF LookAtBlob, Becomes, LockKept, LockFits, Dead, Idle, Collecting, TaskType
  <2>. QED  BY <2>1, <2>2, LockStays
<1>27. ASSUME NEW t \in Task, Unlink(t)
      PROVE  LockKept'
  <2>1. lock' = lock /\ \A u \in Task \ {t} : task'[u] = task[u]
    BY <1>27, <1>a DEF Unlink, Becomes, Goes
  <2>2. LockFits(t, task'[t])
    BY <1>27, <1>a DEF Unlink, Becomes, Goes, LockKept, LockFits, Dead, Idle, Collecting, TaskType
  <2>. QED  BY <2>1, <2>2, LockStays
<1>28. ASSUME NEW t \in Task, EndCollection(t)
      PROVE  LockKept'
  <2>1. /\ lock' = Unlocked(t) /\ task'[t].pc \in {"idle", "open"} /\ ~task'[t].guarded
        /\ task[t].pc \notin {"stamp", "dead"} /\ \A u \in Task \ {t} : task'[u] = task[u]
    BY <1>28, <1>a DEF EndCollection, Becomes, Idle
  <2>. QED  BY <2>1, LockDropped DEF Dead
<1>29. ASSUME NEW t \in Task, Crash(t)
      PROVE  LockKept'
  <2>1. lock' = lock /\ \A u \in Task \ {t} : task'[u] = task[u]
    BY <1>29, <1>a DEF Crash, Becomes
  <2>2. LockFits(t, task'[t])
    BY <1>29, <1>a DEF Crash, Becomes, LockKept, LockFits, Dead, Idle, Collecting, TaskType
  <2>. QED  BY <2>1, <2>2, LockStays
<1>30. ASSUME NEW t \in Task, Restart(t)
      PROVE  LockKept'
  <2>1. lock' = lock /\ \A u \in Task \ {t} : task'[u] = task[u]
    BY <1>30, <1>a DEF Restart, Becomes
  <2>2. LockFits(t, task'[t])
    BY <1>30, <1>a DEF Restart, Becomes, LockKept, LockFits, Dead, Idle, Collecting, TaskType
  <2>. QED  BY <2>1, <2>2, LockStays
<1>31. ASSUME NEW s \in Session, AgeSession(s)
      PROVE  LockKept'
  BY <1>31 DEF AgeSession, LockKept, Dead
<1>32. ASSUME NEW b \in Blob, AgeBlob(b)
      PROVE  LockKept'
  BY <1>32 DEF AgeBlob, LockKept, Dead
<1>33. CASE AgeLock
  <2>1. task' = task /\ lock' = [lock EXCEPT !.old = TRUE]
    BY <1>33 DEF AgeLock
  <2>2. /\ lock'.owner = lock.owner /\ lock'.stamped = lock.stamped /\ lock # NoLock
        /\ lock.stamped \/ Dead(lock.owner)
    BY <1>33, <1>a, <2>1 DEF AgeLock, LockType
  <2>. QED  BY <2>1, <2>2 DEF LockKept, Dead
<1>34. CASE UNCHANGED vars
  BY <1>34 DEF vars, LockKept, Dead
<1>35. ASSUME NEW t \in Task, Reading(t)
      PROVE  LockKept'
  <2>1. PICK todo \in SUBSET Path :
              /\ task'[t] = [task[t] EXCEPT !.todo = todo]
              /\ task[t].pc = "mark"
              /\ \A u \in Task \ {t} : task'[u] = task[u]
              /\ plain' = plain /\ packed' = packed /\ blob' = blob /\ lock' = lock
              /\ saves' = saves
    BY <1>35, ReadingMoves
  <2>2. /\ task'[t].pc = "mark"
        /\ task'[t].guarded = task[t].guarded /\ task'[t].sess = task[t].sess
    BY <1>a, <2>1 DEF TaskType
  <2>3. LockFits(t, task'[t])
    BY <2>1, <2>2 DEF LockKept, LockFits, Dead, Collecting
  <2>. QED  BY <2>1, <2>3, LockStays
<1>. QED
  BY <1>1, <1>2, <1>3, <1>4, <1>5, <1>6, <1>7, <1>8, <1>9, <1>10, <1>11, <1>12, <1>13, <1>14,
     <1>15, <1>16, <1>17, <1>18, <1>19, <1>20, <1>21, <1>22, <1>23, <1>24, <1>25, <1>26, <1>27,
     <1>28, <1>29, <1>30, <1>31, <1>32, <1>33, <1>34, <1>35
     DEF Next, Acquisition, Window, Sweep, Collect

-----------------------------------------------------------------------------
(* The session files.                                                      *)

\* Of the tasks that handle a session only one is past its claim.
LEMMA Exclusive ==
    ASSUME Typed, NEW t \in Task, NEW u \in Task \ {t}, NEW s \in Session,
           Handles(t, s), Handles(u, s), task[t].pc # "claim"
    PROVE  task[u].pc = "claim"
BY DEF Typed, TypeOK

\* A task changes the files of sessions it holds, and no one else's hand is disturbed.
LEMMA HandledByOne ==
    ASSUME Typed, Handled, NEW t \in Task, saves' = saves,
           \A u \in Task \ {t} : task'[u] = task[u],
           \A s \in Session : \/ plain'[s] = plain[s] /\ packed'[s] = packed[s]
                              \/ Handles(t, s) /\ task[t].pc # "claim",
           \A s \in Session : Handles(t, s)' => InHand(t, s)'
    PROVE  Handled'
<1>. SUFFICES ASSUME NEW u \in Task \ {t}, NEW s \in Session, Handles(u, s)'
              PROVE  InHand(u, s)'
  BY DEF Handled
<1>1. task'[u] = task[u] /\ Handles(u, s)
  BY DEF Handles
<1>2. InHand(u, s)
  BY <1>1 DEF Handled
<1>3. CASE plain'[s] = plain[s] /\ packed'[s] = packed[s]
  BY <1>1, <1>2, <1>3 DEF InHand
<1>4. CASE Handles(t, s) /\ task[t].pc # "claim"
  BY <1>1, <1>4, Exclusive DEF InHand
<1>. QED  BY <1>3, <1>4

\* Before the session is written and after the other copy is dealt with.
LEMMA HandledAlone ==
    ASSUME Typed, Handled, NEW t \in Task, saves' = saves, plain' = plain, packed' = packed,
           \A u \in Task \ {t} : task'[u] = task[u],
           task'[t].pc \notin {"unpack", "drop"},
           task'[t].pc \in {"acquire", "stamp", "reap", "blobs", "touch"} =>
               \/ task'[t].sess = {}
               \/ /\ task[t].pc \in {"acquire", "stamp", "reap", "blobs", "touch"}
                  /\ task'[t].sess = task[t].sess
    PROVE  Handled'
<1>1. ASSUME NEW s \in Session, Handles(t, s)'
      PROVE  InHand(t, s)'
  BY <1>1 DEF Handles, InHand, Handled
<1>. QED  BY <1>1, HandledByOne

\* Every step keeps the order of a session's files.
LEMMA FilesStep ==
    ASSUME Typed, FilesOrdered, Handled, [Next]_vars
    PROVE  FilesOrdered' /\ Handled'
<1>a. /\ task \in [Task -> TaskType] /\ saves \in Nat
      /\ plain \in [Session -> FileType] /\ packed \in [Session -> FileType]
  BY BoundsAssumption DEF Typed, TypeOK
<1>b. ASSUME saves' = saves, plain' = plain, packed' = packed
      PROVE  FilesOrdered'
  BY <1>b DEF FilesOrdered
<1>1. ASSUME NEW t \in Task, CreateLock(t)
      PROVE  FilesOrdered' /\ Handled'
  <2>1. /\ saves' = saves /\ plain' = plain /\ packed' = packed
        /\ \A u \in Task \ {t} : task'[u] = task[u]
    BY <1>1, <1>a DEF CreateLock, Becomes, Goes, sessions, counters
  <2>2. /\ task'[t].pc \notin {"unpack", "drop"}
        /\ task'[t].pc \in {"acquire", "stamp", "reap", "blobs", "touch"} =>
               \/ task'[t].sess = {}
               \/ /\ task[t].pc \in {"acquire", "stamp", "reap", "blobs", "touch"}
                  /\ task'[t].sess = task[t].sess
    BY <1>1, <1>a DEF CreateLock, Becomes, Goes, Idle, TaskType
  <2>. QED  BY <1>b, <2>1, <2>2, HandledAlone
<1>2. ASSUME NEW t \in Task, StampLock(t)
      PROVE  FilesOrdered' /\ Handled'
  <2>1. /\ saves' = saves /\ plain' = plain /\ packed' = packed
        /\ \A u \in Task \ {t} : task'[u] = task[u]
    BY <1>2, <1>a DEF StampLock, Becomes, sessions, counters
  <2>2. /\ task'[t].pc \notin {"unpack", "drop"}
        /\ task'[t].pc \in {"acquire", "stamp", "reap", "blobs", "touch"} =>
               \/ task'[t].sess = {}
               \/ /\ task[t].pc \in {"acquire", "stamp", "reap", "blobs", "touch"}
                  /\ task'[t].sess = task[t].sess
    BY <1>2, <1>a DEF StampLock, Becomes, Idle, TaskType
  <2>. QED  BY <1>b, <2>1, <2>2, HandledAlone
<1>3. ASSUME NEW t \in Task, JudgeLock(t)
      PROVE  FilesOrdered' /\ Handled'
  <2>1. /\ saves' = saves /\ plain' = plain /\ packed' = packed
        /\ \A u \in Task \ {t} : task'[u] = task[u]
    BY <1>3, <1>a DEF JudgeLock, Becomes, Goes, sessions, counters
  <2>2. /\ task'[t].pc \notin {"unpack", "drop"}
        /\ task'[t].pc \in {"acquire", "stamp", "reap", "blobs", "touch"} =>
               \/ task'[t].sess = {}
               \/ /\ task[t].pc \in {"acquire", "stamp", "reap", "blobs", "touch"}
                  /\ task'[t].sess = task[t].sess
    BY <1>3, <1>a DEF JudgeLock, Becomes, Goes, Idle, TaskType
  <2>. QED  BY <1>b, <2>1, <2>2, HandledAlone
<1>4. ASSUME NEW t \in Task, ReapLock(t)
      PROVE  FilesOrdered' /\ Handled'
  <2>1. /\ saves' = saves /\ plain' = plain /\ packed' = packed
        /\ \A u \in Task \ {t} : task'[u] = task[u]
    BY <1>4, <1>a DEF ReapLock, Becomes, Goes, sessions, counters
  <2>2. /\ task'[t].pc \notin {"unpack", "drop"}
        /\ task'[t].pc \in {"acquire", "stamp", "reap", "blobs", "touch"} =>
               \/ task'[t].sess = {}
               \/ /\ task[t].pc \in {"acquire", "stamp", "reap", "blobs", "touch"}
                  /\ task'[t].sess = task[t].sess
    BY <1>4, <1>a DEF ReapLock, Becomes, Goes, Idle, TaskType
  <2>. QED  BY <1>b, <2>1, <2>2, HandledAlone
<1>5. ASSUME NEW t \in Task, SaveUnguarded(t)
      PROVE  FilesOrdered' /\ Handled'
  <2>1. /\ saves' = saves /\ plain' = plain /\ packed' = packed
        /\ \A u \in Task \ {t} : task'[u] = task[u]
    BY <1>5, <1>a DEF SaveUnguarded, Becomes, sessions, counters
  <2>2. /\ task'[t].pc \notin {"unpack", "drop"}
        /\ task'[t].pc \in {"acquire", "stamp", "reap", "blobs", "touch"} =>
               \/ task'[t].sess = {}
               \/ /\ task[t].pc \in {"acquire", "stamp", "reap", "blobs", "touch"}
                  /\ task'[t].sess = task[t].sess
    BY <1>5, <1>a DEF SaveUnguarded, Becomes, Idle, TaskType
  <2>. QED  BY <1>b, <2>1, <2>2, HandledAlone
<1>6. ASSUME NEW t \in Task, SkipCollection(t)
      PROVE  FilesOrdered' /\ Handled'
  <2>1. /\ saves' = saves /\ plain' = plain /\ packed' = packed
        /\ \A u \in Task \ {t} : task'[u] = task[u]
    BY <1>6, <1>a DEF SkipCollection, Becomes, sessions, counters
  <2>2. /\ task'[t].pc \notin {"unpack", "drop"}
        /\ task'[t].pc \in {"acquire", "stamp", "reap", "blobs", "touch"} =>
               \/ task'[t].sess = {}
               \/ /\ task[t].pc \in {"acquire", "stamp", "reap", "blobs", "touch"}
                  /\ task'[t].sess = task[t].sess
    BY <1>6, <1>a DEF SkipCollection, Becomes, Idle, TaskType
  <2>. QED  BY <1>b, <2>1, <2>2, HandledAlone
<1>7. ASSUME NEW t \in Task, NEW s \in Session, Open(t, s)
      PROVE  FilesOrdered' /\ Handled'
  <2>1. /\ saves' = saves /\ plain' = plain /\ packed' = packed
        /\ \A u \in Task \ {t} : task'[u] = task[u]
    BY <1>7, <1>a DEF Open, Becomes, sessions, counters
  <2>2. /\ task'[t].pc \notin {"unpack", "drop"}
        /\ task'[t].pc \in {"acquire", "stamp", "reap", "blobs", "touch"} =>
               \/ task'[t].sess = {}
               \/ /\ task[t].pc \in {"acquire", "stamp", "reap", "blobs", "touch"}
                  /\ task'[t].sess = task[t].sess
    BY <1>7, <1>a DEF Open, Becomes, Idle, TaskType
  <2>. QED  BY <1>b, <2>1, <2>2, HandledAlone
<1>8. ASSUME NEW t \in Task, Close(t)
      PROVE  FilesOrdered' /\ Handled'
  <2>1. /\ saves' = saves /\ plain' = plain /\ packed' = packed
        /\ \A u \in Task \ {t} : task'[u] = task[u]
    BY <1>8, <1>a DEF Close, Becomes, sessions, counters
  <2>2. /\ task'[t].pc \notin {"unpack", "drop"}
        /\ task'[t].pc \in {"acquire", "stamp", "reap", "blobs", "touch"} =>
               \/ task'[t].sess = {}
               \/ /\ task[t].pc \in {"acquire", "stamp", "reap", "blobs", "touch"}
                  /\ task'[t].sess = task[t].sess
    BY <1>8, <1>a DEF Close, Becomes, Idle, TaskType
  <2>. QED  BY <1>b, <2>1, <2>2, HandledAlone
<1>9. ASSUME NEW t \in Task, NEW refs \in SUBSET Blob, BeginSave(t, refs)
      PROVE  FilesOrdered' /\ Handled'
  <2>1. /\ saves' = saves + 1 /\ plain' = plain /\ packed' = packed
        /\ \A u \in Task \ {t} : task'[u] = task[u]
    BY <1>9, <1>a DEF BeginSave, Becomes, sessions
  <2>2. \A s \in Session : plain[s].save <= saves /\ packed[s].save <= saves
    BY <1>a DEF FilesOrdered, IsFile, NoFile
  <2>3. FilesOrdered'
    BY <2>1, <1>a DEF FilesOrdered
  <2>4. task'[t].pc \notin {"unpack", "drop"}
    BY <1>9, <1>a DEF BeginSave, Becomes, TaskType
  <2>5. ASSUME NEW u \in Task, NEW s \in Session, Handles(u, s)'
        PROVE  InHand(u, s)'
    <3>1. CASE u = t
      BY <2>1, <2>2, <2>4, <3>1, <1>a DEF InHand, FileType
    <3>2. CASE u # t
      BY <2>1, <2>5, <3>2, <1>a DEF InHand, Handled, Handles, FileType
    <3>. QED  BY <3>1, <3>2
  <2>. QED  BY <2>3, <2>5 DEF Handled
<1>10. ASSUME NEW t \in Task, LookForBlob(t)
      PROVE  FilesOrdered' /\ Handled'
  <2>1. /\ saves' = saves /\ plain' = plain /\ packed' = packed /\ task[t].pc = "blobs"
        /\ \A u \in Task \ {t} : task'[u] = task[u]
    BY <1>10, <1>a DEF LookForBlob, Becomes, sessions, counters
  <2>2. task'[t].pc \in {"blobs", "touch"} /\ task'[t].sess = task[t].sess
    BY <1>10, LookMoves
  <2>. QED  BY <1>b, <2>1, <2>2, HandledAlone
<1>11. ASSUME NEW t \in Task, TouchBlob(t)
      PROVE  FilesOrdered' /\ Handled'
  <2>1. /\ saves' = saves /\ plain' = plain /\ packed' = packed
        /\ \A u \in Task \ {t} : task'[u] = task[u]
    BY <1>11, <1>a DEF TouchBlob, Becomes, sessions, counters
  <2>2. /\ task'[t].pc \notin {"unpack", "drop"}
        /\ task'[t].pc \in {"acquire", "stamp", "reap", "blobs", "touch"} =>
               \/ task'[t].sess = {}
               \/ /\ task[t].pc \in {"acquire", "stamp", "reap", "blobs", "touch"}
                  /\ task'[t].sess = task[t].sess
    BY <1>11, <1>a DEF TouchBlob, Becomes, Idle, TaskType
  <2>. QED  BY <1>b, <2>1, <2>2, HandledAlone
<1>12. ASSUME NEW t \in Task, WriteSession(t)
      PROVE  FilesOrdered' /\ Handled'
  <2>1. /\ saves' = saves /\ packed' = packed /\ task[t].pc = "blobs"
        /\ \A u \in Task \ {t} : task'[u] = task[u]
        /\ task'[t].pc = "unpack" /\ task'[t].sess = task[t].sess
    BY <1>12, <1>a DEF WriteSession, Becomes, counters, TaskType
  <2>2. \A s \in Session : plain'[s] = IF Handles(t, s) THEN File(saves, task[t].refs) ELSE plain[s]
    BY <1>12 DEF WriteSession
  <2>3. ASSUME NEW s \in Session, Handles(t, s)
        PROVE  /\ plain'[s].save = saves /\ saves > 0 /\ IsFile(plain'[s])
               /\ packed[s].save < saves
    BY <2>1, <2>2, <2>3, <1>a DEF Handled, InHand, File, IsFile, NoFile, FileType
  <2>4. FilesOrdered'
    <3>. SUFFICES ASSUME NEW s \in Session
                  PROVE  /\ IsFile(plain'[s]) => plain'[s].save \in 1..saves
                         /\ IsFile(packed[s]) => packed[s].save \in 1..saves
                         /\ IsFile(plain'[s]) /\ IsFile(packed[s]) => packed[s].save <= plain'[s].save
      BY <2>1 DEF FilesOrdered
    <3>1. CASE Handles(t, s)
      BY <2>3, <3>1, <1>a DEF FilesOrdered, FileType
    <3>2. CASE ~Handles(t, s)
      BY <2>2, <3>2 DEF FilesOrdered
    <3>. QED  BY <3>1, <3>2
  <2>5. \A s \in Session : Handles(t, s)' => InHand(t, s)'
    BY <2>1, <2>3 DEF Handles, InHand
  <2>6. \A s \in Session : plain'[s] = plain[s] \/ Handles(t, s)
    BY <2>2
  <2>. QED  BY <2>1, <2>4, <2>5, <2>6, HandledByOne
<1>13. ASSUME NEW t \in Task, EndSave(t)
      PROVE  FilesOrdered' /\ Handled'
  <2>1. /\ saves' = saves /\ plain' = plain /\ task[t].pc = "unpack"
        /\ \A u \in Task \ {t} : task'[u] = task[u]
        /\ task'[t].pc = "open"
    BY <1>13, <1>a DEF EndSave, Becomes, Idle
  <2>2. \A s \in Session : packed'[s] = packed[s] \/ (Handles(t, s) /\ packed'[s] = NoFile)
    BY <1>13 DEF EndSave
  <2>3. FilesOrdered'
    BY <2>1, <2>2 DEF FilesOrdered, IsFile
  <2>4. \A s \in Session : InHand(t, s)'
    BY <2>1 DEF InHand
  <2>. QED  BY <2>1, <2>2, <2>3, <2>4, HandledByOne
<1>14. ASSUME NEW t \in Task, SaveFails(t)
      PROVE  FilesOrdered' /\ Handled'
  <2>1. /\ saves' = saves /\ plain' = plain /\ packed' = packed
        /\ \A u \in Task \ {t} : task'[u] = task[u]
    BY <1>14, <1>a DEF SaveFails, Becomes, sessions
  <2>2. /\ task'[t].pc \notin {"unpack", "drop"}
        /\ task'[t].pc \in {"acquire", "stamp", "reap", "blobs", "touch"} =>
               \/ task'[t].sess = {}
               \/ /\ task[t].pc \in {"acquire", "stamp", "reap", "blobs", "touch"}
                  /\ task'[t].sess = task[t].sess
    BY <1>14, <1>a DEF SaveFails, Becomes, Idle, TaskType
  <2>. QED  BY <1>b, <2>1, <2>2, HandledAlone
<1>15. ASSUME NEW t \in Task, BeginSweep(t)
      PROVE  FilesOrdered' /\ Handled'
  <2>1. /\ saves' = saves /\ plain' = plain /\ packed' = packed
        /\ \A u \in Task \ {t} : task'[u] = task[u]
    BY <1>15, <1>a DEF BeginSweep, Becomes, sessions, counters
  <2>2. /\ task'[t].pc \notin {"unpack", "drop"}
        /\ task'[t].pc \in {"acquire", "stamp", "reap", "blobs", "touch"} =>
               \/ task'[t].sess = {}
               \/ /\ task[t].pc \in {"acquire", "stamp", "reap", "blobs", "touch"}
                  /\ task'[t].sess = task[t].sess
    BY <1>15, <1>a DEF BeginSweep, Becomes, Idle, TaskType
  <2>. QED  BY <1>b, <2>1, <2>2, HandledAlone
<1>16. ASSUME NEW t \in Task, Look(t)
      PROVE  FilesOrdered' /\ Handled'
  <2>1. /\ saves' = saves /\ plain' = plain /\ packed' = packed
        /\ \A u \in Task \ {t} : task'[u] = task[u]
    BY <1>16, <1>a DEF Look, Becomes, sessions, counters
  <2>2. /\ task'[t].pc \notin {"unpack", "drop"}
        /\ task'[t].pc \in {"acquire", "stamp", "reap", "blobs", "touch"} =>
               \/ task'[t].sess = {}
               \/ /\ task[t].pc \in {"acquire", "stamp", "reap", "blobs", "touch"}
                  /\ task'[t].sess = task[t].sess
    BY <1>16, <1>a DEF Look, Becomes, Idle, TaskType
  <2>. QED  BY <1>b, <2>1, <2>2, HandledAlone
<1>17. ASSUME NEW t \in Task, Claim(t)
      PROVE  FilesOrdered' /\ Handled'
  <2>1. /\ saves' = saves /\ plain' = plain /\ packed' = packed
        /\ \A u \in Task \ {t} : task'[u] = task[u]
    BY <1>17, <1>a DEF Claim, Becomes, Goes, Passes, sessions, counters
  <2>2. task'[t].pc \in {"handle", "look"}
    BY <1>17, ClaimMoves
  <2>. QED  BY <1>b, <2>1, <2>2, HandledAlone
<1>18. ASSUME NEW t \in Task, Purge(t)
      PROVE  FilesOrdered' /\ Handled'
  <2>1. /\ saves' = saves /\ task[t].pc = "handle"
        /\ \A u \in Task \ {t} : task'[u] = task[u]
        /\ task'[t].pc = "look"
    BY <1>18, <1>a DEF Purge, Becomes, counters, TaskType
  <2>2. PICK path \in Path : task[t].at = {path} /\ task[t].sess = {path[1]}
    BY <2>1 DEF Typed, Shape
  <2>3. \A s \in Session :
            /\ plain'[s] = plain[s] \/ (Handles(t, s) /\ plain'[s] = NoFile)
            /\ packed'[s] = packed[s] \/ (Handles(t, s) /\ packed'[s] = NoFile)
    BY <1>18, <1>a, <2>2 DEF Purge, Handles
  <2>4. FilesOrdered'
    BY <2>1, <2>3 DEF FilesOrdered, IsFile
  <2>5. \A s \in Session : InHand(t, s)'
    BY <2>1 DEF InHand
  <2>. QED  BY <2>1, <2>3, <2>4, <2>5, HandledByOne
<1>19. ASSUME NEW t \in Task, Pack(t)
      PROVE  FilesOrdered' /\ Handled'
  <2>1. /\ saves' = saves /\ plain' = plain /\ task[t].pc = "handle"
        /\ \A u \in Task \ {t} : task'[u] = task[u]
        /\ task'[t].pc = "drop" /\ task'[t].sess = task[t].sess
    BY <1>19, <1>a DEF Pack, Goes, Becomes, counters, TaskType
  <2>2. PICK path \in Path : task[t].at = {path} /\ task[t].sess = {path[1]}
    BY <2>1 DEF Typed, Shape
  <2>3. IsFile(plain[path[1]]) /\ packed' = [packed EXCEPT ![path[1]] = plain[path[1]]]
    BY <1>19, <2>2 DEF Pack
  <2>4. \A s \in Session : IF Handles(t, s) THEN packed'[s] = plain[s] /\ IsFile(plain[s])
                                             ELSE packed'[s] = packed[s]
    BY <2>2, <2>3, <1>a DEF Handles
  <2>5. FilesOrdered'
    BY <2>1, <2>4, <1>a DEF FilesOrdered, FileType
  <2>6. \A s \in Session : Handles(t, s)' => InHand(t, s)'
    BY <2>1, <2>4 DEF Handles, InHand
  <2>. QED  BY <2>1, <2>4, <2>5, <2>6, HandledByOne
<1>20. ASSUME NEW t \in Task, DropPlain(t)
      PROVE  FilesOrdered' /\ Handled'
  <2>1. /\ saves' = saves /\ packed' = packed /\ task[t].pc = "drop"
        /\ \A u \in Task \ {t} : task'[u] = task[u]
        /\ task'[t].pc = "look"
    BY <1>20, <1>a DEF DropPlain, Passes, Becomes, counters, TaskType
  <2>2. \A s \in Session : plain'[s] = plain[s] \/ (Handles(t, s) /\ plain'[s] = NoFile)
    BY <1>20 DEF DropPlain
  <2>3. FilesOrdered'
    BY <2>1, <2>2 DEF FilesOrdered, IsFile
  <2>4. \A s \in Session : InHand(t, s)'
    BY <2>1 DEF InHand
  <2>. QED  BY <2>1, <2>2, <2>3, <2>4, HandledByOne
<1>21. ASSUME NEW t \in Task, LeaveAlone(t)
      PROVE  FilesOrdered' /\ Handled'
  <2>1. /\ saves' = saves /\ plain' = plain /\ packed' = packed
        /\ \A u \in Task \ {t} : task'[u] = task[u]
    BY <1>21, <1>a DEF LeaveAlone, Becomes, Passes, sessions
  <2>2. /\ task'[t].pc \notin {"unpack", "drop"}
        /\ task'[t].pc \in {"acquire", "stamp", "reap", "blobs", "touch"} =>
               \/ task'[t].sess = {}
               \/ /\ task[t].pc \in {"acquire", "stamp", "reap", "blobs", "touch"}
                  /\ task'[t].sess = task[t].sess
    BY <1>21, <1>a DEF LeaveAlone, Becomes, Passes, Idle, TaskType
  <2>. QED  BY <1>b, <2>1, <2>2, HandledAlone
<1>22. ASSUME NEW t \in Task, EndSweep(t)
      PROVE  FilesOrdered' /\ Handled'
  <2>1. /\ saves' = saves /\ plain' = plain /\ packed' = packed
        /\ \A u \in Task \ {t} : task'[u] = task[u]
    BY <1>22, <1>a DEF EndSweep, Becomes, sessions, counters
  <2>2. /\ task'[t].pc \notin {"unpack", "drop"}
        /\ task'[t].pc \in {"acquire", "stamp", "reap", "blobs", "touch"} =>
               \/ task'[t].sess = {}
               \/ /\ task[t].pc \in {"acquire", "stamp", "reap", "blobs", "touch"}
                  /\ task'[t].sess = task[t].sess
    BY <1>22, <1>a DEF EndSweep, Becomes, Idle, TaskType
  <2>. QED  BY <1>b, <2>1, <2>2, HandledAlone
<1>23. ASSUME NEW t \in Task, List(t)
      PROVE  FilesOrdered' /\ Handled'
  <2>1. /\ saves' = saves /\ plain' = plain /\ packed' = packed
        /\ \A u \in Task \ {t} : task'[u] = task[u]
    BY <1>23, <1>a DEF List, Becomes, sessions, counters
  <2>2. /\ task'[t].pc \notin {"unpack", "drop"}
        /\ task'[t].pc \in {"acquire", "stamp", "reap", "blobs", "touch"} =>
               \/ task'[t].sess = {}
               \/ /\ task[t].pc \in {"acquire", "stamp", "reap", "blobs", "touch"}
                  /\ task'[t].sess = task[t].sess
    BY <1>23, <1>a DEF List, Becomes, Idle, TaskType
  <2>. QED  BY <1>b, <2>1, <2>2, HandledAlone
<1>24. ASSUME NEW t \in Task, Mark(t)
      PROVE  FilesOrdered' /\ Handled'
  <2>1. /\ saves' = saves /\ plain' = plain /\ packed' = packed /\ task[t].pc = "mark"
        /\ \A u \in Task \ {t} : task'[u] = task[u]
    BY <1>24, <1>a DEF Mark, Becomes, sessions, counters
  <2>2. task'[t].pc \in {"mark", "idle"}
    BY <1>24, MarkMoves
  <2>. QED  BY <1>b, <2>1, <2>2, HandledAlone
<1>25. ASSUME NEW t \in Task, Marked(t)
      PROVE  FilesOrdered' /\ Handled'
  <2>1. /\ saves' = saves /\ plain' = plain /\ packed' = packed
        /\ \A u \in Task \ {t} : task'[u] = task[u]
    BY <1>25, <1>a DEF Marked, Becomes, sessions, counters
  <2>2. /\ task'[t].pc \notin {"unpack", "drop"}
        /\ task'[t].pc \in {"acquire", "stamp", "reap", "blobs", "touch"} =>
               \/ task'[t].sess = {}
               \/ /\ task[t].pc \in {"acquire", "stamp", "reap", "blobs", "touch"}
                  /\ task'[t].sess = task[t].sess
    BY <1>25, <1>a DEF Marked, Becomes, Idle, TaskType
  <2>. QED  BY <1>b, <2>1, <2>2, HandledAlone
<1>26. ASSUME NEW t \in Task, LookAtBlob(t)
      PROVE  FilesOrdered' /\ Handled'
  <2>1. /\ saves' = saves /\ plain' = plain /\ packed' = packed
        /\ \A u \in Task \ {t} : task'[u] = task[u]
    BY <1>26, <1>a DEF LookAtBlob, Becomes, sessions, counters
  <2>2. /\ task'[t].pc \notin {"unpack", "drop"}
        /\ task'[t].pc \in {"acquire", "stamp", "reap", "blobs", "touch"} =>
               \/ task'[t].sess = {}
               \/ /\ task[t].pc \in {"acquire", "stamp", "reap", "blobs", "touch"}
                  /\ task'[t].sess = task[t].sess
    BY <1>26, <1>a DEF LookAtBlob, Becomes, Idle, TaskType
  <2>. QED  BY <1>b, <2>1, <2>2, HandledAlone
<1>27. ASSUME NEW t \in Task, Unlink(t)
      PROVE  FilesOrdered' /\ Handled'
  <2>1. /\ saves' = saves /\ plain' = plain /\ packed' = packed
        /\ \A u \in Task \ {t} : task'[u] = task[u]
    BY <1>27, <1>a DEF Unlink, Becomes, Goes, sessions, counters
  <2>2. /\ task'[t].pc \notin {"unpack", "drop"}
        /\ task'[t].pc \in {"acquire", "stamp", "reap", "blobs", "touch"} =>
               \/ task'[t].sess = {}
               \/ /\ task[t].pc \in {"acquire", "stamp", "reap", "blobs", "touch"}
                  /\ task'[t].sess = task[t].sess
    BY <1>27, <1>a DEF Unlink, Becomes, Goes, Idle, TaskType
  <2>. QED  BY <1>b, <2>1, <2>2, HandledAlone
<1>28. ASSUME NEW t \in Task, EndCollection(t)
      PROVE  FilesOrdered' /\ Handled'
  <2>1. /\ saves' = saves /\ plain' = plain /\ packed' = packed
        /\ \A u \in Task \ {t} : task'[u] = task[u]
    BY <1>28, <1>a DEF EndCollection, Becomes, sessions, counters
  <2>2. /\ task'[t].pc \notin {"unpack", "drop"}
        /\ task'[t].pc \in {"acquire", "stamp", "reap", "blobs", "touch"} =>
               \/ task'[t].sess = {}
               \/ /\ task[t].pc \in {"acquire", "stamp", "reap", "blobs", "touch"}
                  /\ task'[t].sess = task[t].sess
    BY <1>28, <1>a DEF EndCollection, Becomes, Idle, TaskType
  <2>. QED  BY <1>b, <2>1, <2>2, HandledAlone
<1>29. ASSUME NEW t \in Task, Crash(t)
      PROVE  FilesOrdered' /\ Handled'
  <2>1. /\ saves' = saves /\ plain' = plain /\ packed' = packed
        /\ \A u \in Task \ {t} : task'[u] = task[u]
    BY <1>29, <1>a DEF Crash, Becomes, sessions
  <2>2. /\ task'[t].pc \notin {"unpack", "drop"}
        /\ task'[t].pc \in {"acquire", "stamp", "reap", "blobs", "touch"} =>
               \/ task'[t].sess = {}
               \/ /\ task[t].pc \in {"acquire", "stamp", "reap", "blobs", "touch"}
                  /\ task'[t].sess = task[t].sess
    BY <1>29, <1>a DEF Crash, Becomes, Idle, TaskType
  <2>. QED  BY <1>b, <2>1, <2>2, HandledAlone
<1>30. ASSUME NEW t \in Task, Restart(t)
      PROVE  FilesOrdered' /\ Handled'
  <2>1. /\ saves' = saves /\ plain' = plain /\ packed' = packed
        /\ \A u \in Task \ {t} : task'[u] = task[u]
    BY <1>30, <1>a DEF Restart, Becomes, sessions, counters
  <2>2. /\ task'[t].pc \notin {"unpack", "drop"}
        /\ task'[t].pc \in {"acquire", "stamp", "reap", "blobs", "touch"} =>
               \/ task'[t].sess = {}
               \/ /\ task[t].pc \in {"acquire", "stamp", "reap", "blobs", "touch"}
                  /\ task'[t].sess = task[t].sess
    BY <1>30, <1>a DEF Restart, Becomes, Idle, TaskType
  <2>. QED  BY <1>b, <2>1, <2>2, HandledAlone
<1>31. ASSUME NEW s \in Session, AgeSession(s)
      PROVE  FilesOrdered' /\ Handled'
  <2>1. /\ task' = task /\ saves' = saves
        /\ packed' = [packed EXCEPT ![s] = Aged(packed[s])]
        /\ \/ plain' = [plain EXCEPT ![s] = Aged(plain[s])]
           \/ plain' = plain /\ packed[s].save # plain[s].save
    BY <1>31 DEF AgeSession, counters
  <2>2. \A f \in FileType : (IsFile(Aged(f)) <=> IsFile(f)) /\ Aged(f).save = f.save
    BY DEF FileType, Aged, IsFile, NoFile, Older
  <2>3. \A s_1 \in Session :
            /\ IsFile(plain'[s_1]) <=> IsFile(plain[s_1])
            /\ IsFile(packed'[s_1]) <=> IsFile(packed[s_1])
            /\ plain'[s_1].save = plain[s_1].save /\ packed'[s_1].save = packed[s_1].save
            /\ plain[s_1] = packed[s_1] => plain'[s_1] = packed'[s_1]
    BY <1>a, <2>1, <2>2
  <2>4. FilesOrdered'
    BY <2>1, <2>3 DEF FilesOrdered
  <2>5. Handled'
    BY <2>1, <2>3 DEF Handled, Handles, InHand
  <2>. QED  BY <2>4, <2>5
<1>32. ASSUME NEW b \in Blob, AgeBlob(b)
      PROVE  FilesOrdered' /\ Handled'
  BY <1>32 DEF AgeBlob, FilesOrdered, Handled, Handles, InHand, sessions, counters
<1>33. CASE AgeLock
  BY <1>33 DEF AgeLock, FilesOrdered, Handled, Handles, InHand, sessions, counters
<1>34. CASE UNCHANGED vars
  BY <1>34 DEF vars, FilesOrdered, Handled, Handles, InHand
<1>35. ASSUME NEW t \in Task, Reading(t)
      PROVE  FilesOrdered' /\ Handled'
  <2>1. PICK todo \in SUBSET Path :
              /\ task'[t] = [task[t] EXCEPT !.todo = todo]
              /\ task[t].pc = "mark"
              /\ \A u \in Task \ {t} : task'[u] = task[u]
              /\ plain' = plain /\ packed' = packed /\ blob' = blob /\ lock' = lock
              /\ saves' = saves
    BY <1>35, ReadingMoves
  <2>2. /\ task'[t].pc = "mark"
        /\ task'[t].guarded = task[t].guarded /\ task'[t].sess = task[t].sess
    BY <1>a, <2>1 DEF TaskType
  <2>. QED  BY <1>b, <2>1, <2>2, HandledAlone
<1>. QED
  BY <1>1, <1>2, <1>3, <1>4, <1>5, <1>6, <1>7, <1>8, <1>9, <1>10, <1>11, <1>12, <1>13, <1>14,
     <1>15, <1>16, <1>17, <1>18, <1>19, <1>20, <1>21, <1>22, <1>23, <1>24, <1>25, <1>26, <1>27,
     <1>28, <1>29, <1>30, <1>31, <1>32, <1>33, <1>34, <1>35
     DEF Next, Acquisition, Window, Sweep, Collect

\* What a task is about to purge is in nobody else's hand.
LEMMA OldByOne ==
    ASSUME Typed, PurgesOld, NEW t \in Task,
           \A u \in Task \ {t} : task'[u] = task[u],
           \A s \in Session : \/ plain'[s] = plain[s] /\ packed'[s] = packed[s]
                              \/ Handles(t, s) /\ task[t].pc # "claim",
           task'[t].pc # "handle"
    PROVE  PurgesOld'
<1>. SUFFICES ASSUME NEW u \in Task \ {t}, NEW path \in task'[u].at, task'[u].pc = "handle",
                     task'[u].goal = "purge", IsFile(At(path)')
              PROVE  At(path)'.age = "old"
  BY DEF PurgesOld
<1>1. task'[u] = task[u]
  OBVIOUS
<1>2. path \in Path /\ path[1] \in Session /\ Handles(u, path[1])
  BY <1>1 DEF Typed, Shape, Handles, Path
<1>3. plain'[path[1]] = plain[path[1]] /\ packed'[path[1]] = packed[path[1]]
  BY <1>1, <1>2, Exclusive
<1>4. At(path)' = At(path)
  BY <1>3 DEF At
<1>. QED  BY <1>1, <1>4 DEF PurgesOld

\* No step makes what is about to be purged young again.
LEMMA PurgesOldStep ==
    ASSUME "staleAge" \notin Allowed, Typed, PurgesOld, [Next]_vars
    PROVE  PurgesOld'
<1>a. /\ task \in [Task -> TaskType]
      /\ plain \in [Session -> FileType] /\ packed \in [Session -> FileType]
  BY DEF Typed, TypeOK
<1>1. ASSUME NEW t \in Task, CreateLock(t)
      PROVE  PurgesOld'
  <2>1. /\ plain' = plain /\ packed' = packed /\ task'[t].pc # "handle"
        /\ \A u \in Task \ {t} : task'[u] = task[u]
    BY <1>1, <1>a DEF CreateLock, Becomes, Goes, Idle, TaskType, sessions
  <2>. QED  BY <2>1, OldByOne
<1>2. ASSUME NEW t \in Task, StampLock(t)
      PROVE  PurgesOld'
  <2>1. /\ plain' = plain /\ packed' = packed /\ task'[t].pc # "handle"
        /\ \A u \in Task \ {t} : task'[u] = task[u]
    BY <1>2, <1>a DEF StampLock, Becomes, Idle, TaskType, sessions
  <2>. QED  BY <2>1, OldByOne
<1>3. ASSUME NEW t \in Task, JudgeLock(t)
      PROVE  PurgesOld'
  <2>1. /\ plain' = plain /\ packed' = packed /\ task'[t].pc # "handle"
        /\ \A u \in Task \ {t} : task'[u] = task[u]
    BY <1>3, <1>a DEF JudgeLock, Becomes, Goes, Idle, TaskType, sessions
  <2>. QED  BY <2>1, OldByOne
<1>4. ASSUME NEW t \in Task, ReapLock(t)
      PROVE  PurgesOld'
  <2>1. /\ plain' = plain /\ packed' = packed /\ task'[t].pc # "handle"
        /\ \A u \in Task \ {t} : task'[u] = task[u]
    BY <1>4, <1>a DEF ReapLock, Becomes, Goes, Idle, TaskType, sessions
  <2>. QED  BY <2>1, OldByOne
<1>5. ASSUME NEW t \in Task, SaveUnguarded(t)
      PROVE  PurgesOld'
  <2>1. /\ plain' = plain /\ packed' = packed /\ task'[t].pc # "handle"
        /\ \A u \in Task \ {t} : task'[u] = task[u]
    BY <1>5, <1>a DEF SaveUnguarded, Becomes, Idle, TaskType, sessions
  <2>. QED  BY <2>1, OldByOne
<1>6. ASSUME NEW t \in Task, SkipCollection(t)
      PROVE  PurgesOld'
  <2>1. /\ plain' = plain /\ packed' = packed /\ task'[t].pc # "handle"
        /\ \A u \in Task \ {t} : task'[u] = task[u]
    BY <1>6, <1>a DEF SkipCollection, Becomes, Idle, TaskType, sessions
  <2>. QED  BY <2>1, OldByOne
<1>7. ASSUME NEW t \in Task, NEW s \in Session, Open(t, s)
      PROVE  PurgesOld'
  <2>1. /\ plain' = plain /\ packed' = packed /\ task'[t].pc # "handle"
        /\ \A u \in Task \ {t} : task'[u] = task[u]
    BY <1>7, <1>a DEF Open, Becomes, Idle, TaskType, sessions
  <2>. QED  BY <2>1, OldByOne
<1>8. ASSUME NEW t \in Task, Close(t)
      PROVE  PurgesOld'
  <2>1. /\ plain' = plain /\ packed' = packed /\ task'[t].pc # "handle"
        /\ \A u \in Task \ {t} : task'[u] = task[u]
    BY <1>8, <1>a DEF Close, Becomes, Idle, TaskType, sessions
  <2>. QED  BY <2>1, OldByOne
<1>9. ASSUME NEW t \in Task, NEW refs \in SUBSET Blob, BeginSave(t, refs)
      PROVE  PurgesOld'
  <2>1. /\ plain' = plain /\ packed' = packed /\ task'[t].pc # "handle"
        /\ \A u \in Task \ {t} : task'[u] = task[u]
    BY <1>9, <1>a DEF BeginSave, Becomes, Idle, TaskType, sessions
  <2>. QED  BY <2>1, OldByOne
<1>10. ASSUME NEW t \in Task, LookForBlob(t)
      PROVE  PurgesOld'
  <2>1. /\ plain' = plain /\ packed' = packed /\ task[t].pc = "blobs"
        /\ \A u \in Task \ {t} : task'[u] = task[u]
    BY <1>10, <1>a DEF LookForBlob, Becomes, sessions
  <2>2. task'[t].pc \in {"blobs", "touch"}
    BY <1>10, LookMoves
  <2>. QED  BY <2>1, <2>2, OldByOne
<1>11. ASSUME NEW t \in Task, TouchBlob(t)
      PROVE  PurgesOld'
  <2>1. /\ plain' = plain /\ packed' = packed /\ task'[t].pc # "handle"
        /\ \A u \in Task \ {t} : task'[u] = task[u]
    BY <1>11, <1>a DEF TouchBlob, Becomes, Idle, TaskType, sessions
  <2>. QED  BY <2>1, OldByOne
<1>12. ASSUME NEW t \in Task, WriteSession(t)
      PROVE  PurgesOld'
  <2>1. /\ task[t].pc # "claim" /\ task'[t].pc # "handle"
        /\ \A u \in Task \ {t} : task'[u] = task[u]
    BY <1>12, <1>a DEF WriteSession, Becomes, Idle, TaskType
  <2>2. \A s \in Session : \/ plain'[s] = plain[s] /\ packed'[s] = packed[s]
                           \/ Handles(t, s)
    BY <1>12 DEF WriteSession
  <2>. QED  BY <2>1, <2>2, OldByOne
<1>13. ASSUME NEW t \in Task, EndSave(t)
      PROVE  PurgesOld'
  <2>1. /\ task[t].pc # "claim" /\ task'[t].pc # "handle"
        /\ \A u \in Task \ {t} : task'[u] = task[u]
    BY <1>13, <1>a DEF EndSave, Becomes, Idle, TaskType
  <2>2. \A s \in Session : \/ plain'[s] = plain[s] /\ packed'[s] = packed[s]
                           \/ Handles(t, s)
    BY <1>13 DEF EndSave
  <2>. QED  BY <2>1, <2>2, OldByOne
<1>14. ASSUME NEW t \in Task, SaveFails(t)
      PROVE  PurgesOld'
  <2>1. /\ plain' = plain /\ packed' = packed /\ task'[t].pc # "handle"
        /\ \A u \in Task \ {t} : task'[u] = task[u]
    BY <1>14, <1>a DEF SaveFails, Becomes, Idle, TaskType, sessions
  <2>. QED  BY <2>1, OldByOne
<1>15. ASSUME NEW t \in Task, BeginSweep(t)
      PROVE  PurgesOld'
  <2>1. /\ plain' = plain /\ packed' = packed /\ task'[t].pc # "handle"
        /\ \A u \in Task \ {t} : task'[u] = task[u]
    BY <1>15, <1>a DEF BeginSweep, Becomes, Idle, TaskType, sessions
  <2>. QED  BY <2>1, OldByOne
<1>16. ASSUME NEW t \in Task, Look(t)
      PROVE  PurgesOld'
  <2>1. /\ plain' = plain /\ packed' = packed /\ task'[t].pc # "handle"
        /\ \A u \in Task \ {t} : task'[u] = task[u]
    BY <1>16, <1>a DEF Look, Becomes, Idle, TaskType, sessions
  <2>. QED  BY <2>1, OldByOne
<1>17. ASSUME NEW t \in Task, Claim(t)
      PROVE  PurgesOld'
  <2>1. /\ plain' = plain /\ packed' = packed /\ StillOld(t)
        /\ \A u \in Task \ {t} : task'[u] = task[u]
    BY <1>17, <1>a DEF Claim, Becomes, Goes, Passes, sessions
  <2>2. CASE Passes(t)
    <3>1. task'[t].pc = "look"
      BY <1>a, <2>2 DEF Passes, Becomes, TaskType
    <3>. QED  BY <2>1, <3>1, OldByOne
  <2>3. CASE Goes(t, "handle")
    <3>1. task'[t].at = task[t].at /\ task'[t].goal = task[t].goal
      BY <1>a, <2>3 DEF Goes, Becomes, TaskType
    <3>2. \A path : At(path)' = At(path)
      BY <2>1 DEF At
    <3>3. ASSUME NEW u \in Task, NEW path \in task'[u].at, task'[u].pc = "handle",
                 task'[u].goal = "purge", IsFile(At(path)')
          PROVE  At(path)'.age = "old"
      <4>1. CASE u = t
        BY <2>1, <3>1, <3>2, <3>3, <4>1 DEF StillOld
      <4>2. CASE u # t
        BY <2>1, <3>2, <3>3, <4>2 DEF PurgesOld
      <4>. QED  BY <4>1, <4>2
    <3>. QED  BY <3>3 DEF PurgesOld
  <2>. QED  BY <1>17, <2>2, <2>3 DEF Claim
<1>18. ASSUME NEW t \in Task, Purge(t)
      PROVE  PurgesOld'
  <2>1. /\ task[t].pc = "handle" /\ task'[t].pc = "look"
        /\ \A u \in Task \ {t} : task'[u] = task[u]
    BY <1>18, <1>a DEF Purge, Becomes, TaskType
  <2>2. PICK path \in Path : task[t].at = {path} /\ task[t].sess = {path[1]}
    BY <2>1 DEF Typed, Shape
  <2>3. \A s \in Session : \/ plain'[s] = plain[s] /\ packed'[s] = packed[s]
                           \/ Handles(t, s)
    BY <1>18, <1>a, <2>2 DEF Purge, Handles
  <2>. QED  BY <2>1, <2>3, OldByOne
<1>19. ASSUME NEW t \in Task, Pack(t)
      PROVE  PurgesOld'
  <2>1. /\ task[t].pc = "handle" /\ task'[t].pc = "drop"
        /\ \A u \in Task \ {t} : task'[u] = task[u]
    BY <1>19, <1>a DEF Pack, Goes, Becomes, TaskType
  <2>2. PICK path \in Path : task[t].at = {path} /\ task[t].sess = {path[1]}
    BY <2>1 DEF Typed, Shape
  <2>3. \A s \in Session : \/ plain'[s] = plain[s] /\ packed'[s] = packed[s]
                           \/ Handles(t, s)
    BY <1>19, <1>a, <2>2 DEF Pack, Handles
  <2>. QED  BY <2>1, <2>3, OldByOne
<1>20. ASSUME NEW t \in Task, DropPlain(t)
      PROVE  PurgesOld'
  <2>1. /\ task[t].pc # "claim" /\ task'[t].pc # "handle"
        /\ \A u \in Task \ {t} : task'[u] = task[u]
    BY <1>20, <1>a DEF DropPlain, Passes, Becomes, Idle, TaskType
  <2>2. \A s \in Session : \/ plain'[s] = plain[s] /\ packed'[s] = packed[s]
                           \/ Handles(t, s)
    BY <1>20 DEF DropPlain
  <2>. QED  BY <2>1, <2>2, OldByOne
<1>21. ASSUME NEW t \in Task, LeaveAlone(t)
      PROVE  PurgesOld'
  <2>1. /\ plain' = plain /\ packed' = packed /\ task'[t].pc # "handle"
        /\ \A u \in Task \ {t} : task'[u] = task[u]
    BY <1>21, <1>a DEF LeaveAlone, Becomes, Passes, Idle, TaskType, sessions
  <2>. QED  BY <2>1, OldByOne
<1>22. ASSUME NEW t \in Task, EndSweep(t)
      PROVE  PurgesOld'
  <2>1. /\ plain' = plain /\ packed' = packed /\ task'[t].pc # "handle"
        /\ \A u \in Task \ {t} : task'[u] = task[u]
    BY <1>22, <1>a DEF EndSweep, Becomes, Idle, TaskType, sessions
  <2>. QED  BY <2>1, OldByOne
<1>23. ASSUME NEW t \in Task, List(t)
      PROVE  PurgesOld'
  <2>1. /\ plain' = plain /\ packed' = packed /\ task'[t].pc # "handle"
        /\ \A u \in Task \ {t} : task'[u] = task[u]
    BY <1>23, <1>a DEF List, Becomes, Idle, TaskType, sessions
  <2>. QED  BY <2>1, OldByOne
<1>24. ASSUME NEW t \in Task, Mark(t)
      PROVE  PurgesOld'
  <2>1. /\ plain' = plain /\ packed' = packed /\ task[t].pc = "mark"
        /\ \A u \in Task \ {t} : task'[u] = task[u]
    BY <1>24, <1>a DEF Mark, Becomes, sessions
  <2>2. task'[t].pc \in {"mark", "idle"}
    BY <1>24, MarkMoves
  <2>. QED  BY <2>1, <2>2, OldByOne
<1>25. ASSUME NEW t \in Task, Marked(t)
      PROVE  PurgesOld'
  <2>1. /\ plain' = plain /\ packed' = packed /\ task'[t].pc # "handle"
        /\ \A u \in Task \ {t} : task'[u] = task[u]
    BY <1>25, <1>a DEF Marked, Becomes, Idle, TaskType, sessions
  <2>. QED  BY <2>1, OldByOne
<1>26. ASSUME NEW t \in Task, LookAtBlob(t)
      PROVE  PurgesOld'
  <2>1. /\ plain' = plain /\ packed' = packed /\ task'[t].pc # "handle"
        /\ \A u \in Task \ {t} : task'[u] = task[u]
    BY <1>26, <1>a DEF LookAtBlob, Becomes, Idle, TaskType, sessions
  <2>. QED  BY <2>1, OldByOne
<1>27. ASSUME NEW t \in Task, Unlink(t)
      PROVE  PurgesOld'
  <2>1. /\ plain' = plain /\ packed' = packed /\ task'[t].pc # "handle"
        /\ \A u \in Task \ {t} : task'[u] = task[u]
    BY <1>27, <1>a DEF Unlink, Becomes, Goes, Idle, TaskType, sessions
  <2>. QED  BY <2>1, OldByOne
<1>28. ASSUME NEW t \in Task, EndCollection(t)
      PROVE  PurgesOld'
  <2>1. /\ plain' = plain /\ packed' = packed /\ task'[t].pc # "handle"
        /\ \A u \in Task \ {t} : task'[u] = task[u]
    BY <1>28, <1>a DEF EndCollection, Becomes, Idle, TaskType, sessions
  <2>. QED  BY <2>1, OldByOne
<1>29. ASSUME NEW t \in Task, Crash(t)
      PROVE  PurgesOld'
  <2>1. /\ plain' = plain /\ packed' = packed /\ task'[t].pc # "handle"
        /\ \A u \in Task \ {t} : task'[u] = task[u]
    BY <1>29, <1>a DEF Crash, Becomes, Idle, TaskType, sessions
  <2>. QED  BY <2>1, OldByOne
<1>30. ASSUME NEW t \in Task, Restart(t)
      PROVE  PurgesOld'
  <2>1. /\ plain' = plain /\ packed' = packed /\ task'[t].pc # "handle"
        /\ \A u \in Task \ {t} : task'[u] = task[u]
    BY <1>30, <1>a DEF Restart, Becomes, Idle, TaskType, sessions
  <2>. QED  BY <2>1, OldByOne
<1>31. ASSUME NEW s \in Session, AgeSession(s)
      PROVE  PurgesOld'
  <2>1. /\ task' = task
        /\ packed' = [packed EXCEPT ![s] = Aged(packed[s])]
        /\ \/ plain' = [plain EXCEPT ![s] = Aged(plain[s])]
           \/ plain' = plain
    BY <1>31 DEF AgeSession
  <2>2. ASSUME NEW f \in FileType, NEW g, g = f \/ g = Aged(f)
        PROVE  /\ IsFile(g) => IsFile(f)
               /\ f.age = "old" => g.age = "old"
    BY <2>2 DEF FileType, Aged, IsFile, NoFile, Older
  <2>3. ASSUME NEW path \in Path
        PROVE  /\ IsFile(At(path)') => IsFile(At(path))
               /\ At(path).age = "old" => At(path)'.age = "old"
    <3>1. path[1] \in Session
      BY DEF Path
    <3>2. /\ plain'[path[1]] = plain[path[1]] \/ plain'[path[1]] = Aged(plain[path[1]])
          /\ packed'[path[1]] = packed[path[1]] \/ packed'[path[1]] = Aged(packed[path[1]])
      BY <1>a, <2>1, <3>1
    <3>3. plain[path[1]] \in FileType /\ packed[path[1]] \in FileType
      BY <1>a, <3>1
    <3>4. /\ IsFile(plain'[path[1]]) => IsFile(plain[path[1]])
          /\ plain[path[1]].age = "old" => plain'[path[1]].age = "old"
      BY <2>2, <3>2, <3>3
    <3>5. /\ IsFile(packed'[path[1]]) => IsFile(packed[path[1]])
          /\ packed[path[1]].age = "old" => packed'[path[1]].age = "old"
      BY <2>2, <3>2, <3>3
    <3>. QED  BY <3>4, <3>5 DEF At
  <2>4. \A u \in Task : task[u].pc = "handle" => task[u].at \subseteq Path
    BY DEF Typed, Shape
  <2>. QED  BY <2>1, <2>3, <2>4 DEF PurgesOld
<1>32. ASSUME NEW b \in Blob, AgeBlob(b)
      PROVE  PurgesOld'
  BY <1>32 DEF AgeBlob, PurgesOld, At, sessions
<1>33. CASE AgeLock
  BY <1>33 DEF AgeLock, PurgesOld, At, sessions
<1>34. CASE UNCHANGED vars
  BY <1>34 DEF vars, PurgesOld, At
<1>35. ASSUME NEW t \in Task, Reading(t)
      PROVE  PurgesOld'
  <2>1. PICK todo \in SUBSET Path :
              /\ task'[t] = [task[t] EXCEPT !.todo = todo]
              /\ task[t].pc = "mark"
              /\ \A u \in Task \ {t} : task'[u] = task[u]
              /\ plain' = plain /\ packed' = packed /\ blob' = blob /\ lock' = lock
              /\ saves' = saves
    BY <1>35, ReadingMoves
  <2>2. /\ task'[t].pc = "mark"
        /\ task'[t].guarded = task[t].guarded /\ task'[t].sess = task[t].sess
    BY <1>a, <2>1 DEF TaskType
  <2>. QED  BY <2>1, <2>2, OldByOne
<1>. QED
  BY <1>1, <1>2, <1>3, <1>4, <1>5, <1>6, <1>7, <1>8, <1>9, <1>10, <1>11, <1>12, <1>13, <1>14,
     <1>15, <1>16, <1>17, <1>18, <1>19, <1>20, <1>21, <1>22, <1>23, <1>24, <1>25, <1>26, <1>27,
     <1>28, <1>29, <1>30, <1>31, <1>32, <1>33, <1>34, <1>35
     DEF Next, Acquisition, Window, Sweep, Collect

\* What a load returns stays, or is a later save's.
LEMMA LoadedKept ==
    ASSUME Typed, FilesOrdered, Handled, PurgesOld, [Next]_vars, NEW s \in Session,
           IsFile(Loaded(s)), Loaded(s).age # "old" \/ s \in UserNamed
    PROVE  IsFile(Loaded(s)') /\ Loaded(s)'.save >= Loaded(s).save
<1>. DEFINE Goal == IsFile(Loaded(s)') /\ Loaded(s)'.save >= Loaded(s).save
<1>a. /\ task \in [Task -> TaskType] /\ saves \in Nat
      /\ plain \in [Session -> FileType] /\ packed \in [Session -> FileType]
  BY BoundsAssumption DEF Typed, TypeOK
<1>b. Loaded(s).save \in Nat
  BY <1>a, BoundsAssumption DEF Loaded, FileType
<1>c. ASSUME plain' = plain, packed' = packed
      PROVE  Goal
  BY <1>b, <1>c DEF Loaded
<1>d. ASSUME IsFile(plain[s]), plain'[s] = plain[s]
      PROVE  Goal
  BY <1>b, <1>d DEF Loaded
<1>e. ASSUME plain'[s] = plain[s], packed'[s] = packed[s]
      PROVE  Goal
  BY <1>b, <1>e DEF Loaded
<1>1. ASSUME NEW t \in Task, CreateLock(t)
      PROVE  Goal
  BY <1>1, <1>c DEF CreateLock, sessions
<1>2. ASSUME NEW t \in Task, StampLock(t)
      PROVE  Goal
  BY <1>2, <1>c DEF StampLock, sessions
<1>3. ASSUME NEW t \in Task, JudgeLock(t)
      PROVE  Goal
  BY <1>3, <1>c DEF JudgeLock, sessions
<1>4. ASSUME NEW t \in Task, ReapLock(t)
      PROVE  Goal
  BY <1>4, <1>c DEF ReapLock, sessions
<1>5. ASSUME NEW t \in Task, SaveUnguarded(t)
      PROVE  Goal
  BY <1>5, <1>c DEF SaveUnguarded, sessions
<1>6. ASSUME NEW t \in Task, SkipCollection(t)
      PROVE  Goal
  BY <1>6, <1>c DEF SkipCollection, sessions
<1>7. ASSUME NEW t \in Task, NEW s_1 \in Session, Open(t, s_1)
      PROVE  Goal
  BY <1>7, <1>c DEF Open, sessions
<1>8. ASSUME NEW t \in Task, Close(t)
      PROVE  Goal
  BY <1>8, <1>c DEF Close, sessions
<1>9. ASSUME NEW t \in Task, NEW refs \in SUBSET Blob, BeginSave(t, refs)
      PROVE  Goal
  BY <1>9, <1>c DEF BeginSave, sessions
<1>10. ASSUME NEW t \in Task, LookForBlob(t)
      PROVE  Goal
  BY <1>10, <1>c DEF LookForBlob, sessions
<1>11. ASSUME NEW t \in Task, TouchBlob(t)
      PROVE  Goal
  BY <1>11, <1>c DEF TouchBlob, sessions
<1>12. ASSUME NEW t \in Task, WriteSession(t)
      PROVE  Goal
  <2>1. plain'[s] = IF Handles(t, s) THEN File(saves, task[t].refs) ELSE plain[s]
    BY <1>12 DEF WriteSession
  <2>2. packed' = packed /\ task[t].pc = "blobs"
    BY <1>12 DEF WriteSession
  <2>3. CASE Handles(t, s)
    <3>1. plain[s].save < saves /\ packed[s].save < saves
      BY <2>2, <2>3 DEF Handled, InHand
    <3>2. plain'[s].save = saves /\ IsFile(plain'[s])
      BY <1>a, <2>1, <2>3, <3>1 DEF File, IsFile, NoFile, FileType
    <3>. QED  BY <1>a, <1>b, <3>1, <3>2 DEF Loaded
  <2>4. CASE ~Handles(t, s)
    BY <1>e, <2>1, <2>2, <2>4
  <2>. QED  BY <2>3, <2>4
<1>13. ASSUME NEW t \in Task, EndSave(t)
      PROVE  Goal
  <2>1. plain' = plain /\ task[t].pc = "unpack" /\ (packed'[s] = packed[s] \/ Handles(t, s))
    BY <1>13 DEF EndSave
  <2>2. Handles(t, s) => IsFile(plain[s])
    BY <2>1 DEF Handled, InHand
  <2>. QED  BY <1>d, <1>e, <2>1, <2>2
<1>14. ASSUME NEW t \in Task, SaveFails(t)
      PROVE  Goal
  BY <1>14, <1>c DEF SaveFails, sessions
<1>15. ASSUME NEW t \in Task, BeginSweep(t)
      PROVE  Goal
  BY <1>15, <1>c DEF BeginSweep, sessions
<1>16. ASSUME NEW t \in Task, Look(t)
      PROVE  Goal
  BY <1>16, <1>c DEF Look, sessions
<1>17. ASSUME NEW t \in Task, Claim(t)
      PROVE  Goal
  BY <1>17, <1>c DEF Claim, sessions
<1>18. ASSUME NEW t \in Task, Purge(t)
      PROVE  Goal
  <2>1. task[t].pc = "handle" /\ task[t].goal = "purge"
    BY <1>18 DEF Purge
  <2>2. PICK path \in Path : task[t].at = {path}
    BY <2>1 DEF Typed, Shape
  <2>3. /\ IsFile(At(path)) /\ path[1] \notin UserNamed
        /\ IF path[2] = "plain"
           THEN plain' = [plain EXCEPT ![path[1]] = NoFile] /\ packed' = packed
           ELSE packed' = [packed EXCEPT ![path[1]] = NoFile] /\ plain' = plain
    BY <1>18, <2>2 DEF Purge
  <2>4. At(path).age = "old"
    BY <2>1, <2>2, <2>3 DEF PurgesOld
  <2>5. CASE path[1] # s
    BY <1>a, <1>e, <2>3, <2>5
  <2>6. CASE path[1] = s /\ path[2] = "plain"
    BY <2>3, <2>4, <2>6 DEF At, Loaded
  <2>7. CASE path[1] = s /\ path[2] # "plain"
    <3>1. IsFile(plain[s])
      BY <2>3, <2>4, <2>7 DEF At, Loaded
    <3>. QED  BY <1>d, <2>3, <2>7, <3>1
  <2>. QED  BY <2>5, <2>6, <2>7
<1>19. ASSUME NEW t \in Task, Pack(t)
      PROVE  Goal
  <2>1. PICK path \in task[t].at :
            /\ IsFile(plain[path[1]])
            /\ packed' = [packed EXCEPT ![path[1]] = plain[path[1]]]
    BY <1>19 DEF Pack
  <2>2. plain' = plain
    BY <1>19 DEF Pack
  <2>3. CASE path[1] = s
    BY <1>d, <2>1, <2>2, <2>3
  <2>4. CASE path[1] # s
    BY <1>a, <1>e, <2>1, <2>2, <2>4
  <2>. QED  BY <2>3, <2>4
<1>20. ASSUME NEW t \in Task, DropPlain(t)
      PROVE  Goal
  <2>1. /\ packed' = packed /\ task[t].pc = "drop"
        /\ plain'[s] = IF Handles(t, s) THEN NoFile ELSE plain[s]
    BY <1>20 DEF DropPlain
  <2>2. CASE Handles(t, s)
    <3>1. IsFile(plain[s]) /\ packed[s] = plain[s]
      BY <2>1, <2>2 DEF Handled, InHand
    <3>. QED  BY <1>b, <2>1, <2>2, <3>1 DEF Loaded, IsFile
  <2>3. CASE ~Handles(t, s)
    BY <1>e, <2>1, <2>3
  <2>. QED  BY <2>2, <2>3
<1>21. ASSUME NEW t \in Task, LeaveAlone(t)
      PROVE  Goal
  BY <1>21, <1>c DEF LeaveAlone, sessions
<1>22. ASSUME NEW t \in Task, EndSweep(t)
      PROVE  Goal
  BY <1>22, <1>c DEF EndSweep, sessions
<1>23. ASSUME NEW t \in Task, List(t)
      PROVE  Goal
  BY <1>23, <1>c DEF List, sessions
<1>24. ASSUME NEW t \in Task, Mark(t)
      PROVE  Goal
  BY <1>24, <1>c DEF Mark, sessions
<1>25. ASSUME NEW t \in Task, Marked(t)
      PROVE  Goal
  BY <1>25, <1>c DEF Marked, sessions
<1>26. ASSUME NEW t \in Task, LookAtBlob(t)
      PROVE  Goal
  BY <1>26, <1>c DEF LookAtBlob, sessions
<1>27. ASSUME NEW t \in Task, Unlink(t)
      PROVE  Goal
  BY <1>27, <1>c DEF Unlink, sessions
<1>28. ASSUME NEW t \in Task, EndCollection(t)
      PROVE  Goal
  BY <1>28, <1>c DEF EndCollection, sessions
<1>29. ASSUME NEW t \in Task, Crash(t)
      PROVE  Goal
  BY <1>29, <1>c DEF Crash, sessions
<1>30. ASSUME NEW t \in Task, Restart(t)
      PROVE  Goal
  BY <1>30, <1>c DEF Restart, sessions
<1>31. ASSUME NEW s_1 \in Session, AgeSession(s_1)
      PROVE  Goal
  <2>1. /\ plain'[s] = plain[s] \/ plain'[s] = Aged(plain[s])
        /\ packed'[s] = packed[s] \/ packed'[s] = Aged(packed[s])
    BY <1>31, <1>a DEF AgeSession
  <2>2. ASSUME NEW f \in FileType, NEW g, g = f \/ g = Aged(f)
        PROVE  (IsFile(g) <=> IsFile(f)) /\ g.save = f.save
    BY <2>2 DEF FileType, Aged, IsFile, NoFile, Older
  <2>3. /\ (IsFile(plain'[s]) <=> IsFile(plain[s])) /\ plain'[s].save = plain[s].save
        /\ (IsFile(packed'[s]) <=> IsFile(packed[s])) /\ packed'[s].save = packed[s].save
    BY <1>a, <2>1, <2>2
  <2>. QED  BY <1>b, <2>3 DEF Loaded
<1>32. ASSUME NEW b \in Blob, AgeBlob(b)
      PROVE  Goal
  BY <1>32, <1>c DEF AgeBlob, sessions
<1>33. CASE AgeLock
  BY <1>33, <1>c DEF AgeLock, sessions
<1>34. CASE UNCHANGED vars
  BY <1>34, <1>c DEF vars
<1>35. ASSUME NEW t \in Task, Reading(t)
      PROVE  Goal
  BY <1>35, <1>c DEF Reading, LateEntry, LostEntry, sessions
<1>. QED
  BY <1>1, <1>2, <1>3, <1>4, <1>5, <1>6, <1>7, <1>8, <1>9, <1>10, <1>11, <1>12, <1>13, <1>14,
     <1>15, <1>16, <1>17, <1>18, <1>19, <1>20, <1>21, <1>22, <1>23, <1>24, <1>25, <1>26, <1>27,
     <1>28, <1>29, <1>30, <1>31, <1>32, <1>33, <1>34, <1>35
     DEF Next, Acquisition, Window, Sweep, Collect

-----------------------------------------------------------------------------
(* The attachments.                                                        *)

\* The store lock keeps a save that holds it and a collection apart.
LEMMA Apart ==
    ASSUME LockKept, NEW t \in Task, NEW u \in Task \ {t}, task[u].pc \in Collecting
    PROVE  ~task[t].guarded
BY DEF LockKept

\* A task moves and leaves the attachments alone.
LEMMA StoredByOne ==
    ASSUME BlobsStored, NEW t \in Task, blob' = blob, Stored(t)',
           \A u \in Task \ {t} : task'[u] = task[u]
    PROVE  BlobsStored'
<1>1. ASSUME NEW u \in Task \ {t}
      PROVE  Stored(u)'
  BY DEF BlobsStored, Stored
<1>. QED  BY <1>1 DEF BlobsStored

\* What is not there is written, or what is there is refreshed.
LEMMA StoredFresh ==
    ASSUME Typed, LockKept, BlobsStored, NEW t \in Task, task[t].pc \in {"blobs", "touch"},
           Stored(t)', \A u \in Task \ {t} : task'[u] = task[u],
           \A b \in Blob : \/ blob'[b] = blob[b]
                           \/ blob'[b] = "fresh" /\ b \in task[t].refs
    PROVE  BlobsStored'
<1>1. ASSUME NEW u \in Task \ {t}
      PROVE  Stored(u)'
  <2>1. task'[u] = task[u] /\ Stored(u)
    BY DEF BlobsStored
  <2>2. CASE task[u].pc \in {"blobs", "touch"}
    <3>1. task[u].refs \subseteq Blob /\ task[u].at \subseteq Path \cup Blob
      BY DEF Typed, TypeOK, TaskType
    <3>2. task[u].pc = "touch" => task[u].at \subseteq Blob
      BY <3>1 DEF Typed, Shape
    <3>. QED  BY <2>1, <2>2, <3>1, <3>2 DEF Stored
  <2>3. CASE task[u].pc = "unlink"
    <3>1. task[u].at \subseteq Blob
      BY <2>3 DEF Typed, Shape
    <3>2. \A b \in task[t].refs : blob[b] # "old"
      BY <2>3, Apart DEF Collecting, BlobsStored, Stored
    <3>. QED  BY <2>1, <2>3, <3>1, <3>2 DEF Stored
  <2>4. CASE task[u].pc \notin {"blobs", "touch", "unlink"}
    BY <2>1, <2>4 DEF Stored
  <2>. QED  BY <2>2, <2>3, <2>4
<1>. QED  BY <1>1 DEF BlobsStored

\* No step takes away what a save has stored.
LEMMA StoredStep ==
    ASSUME "reuse" \notin Allowed, Typed, LockKept, BlobsStored, [Next]_vars
    PROVE  BlobsStored'
<1>a. task \in [Task -> TaskType] /\ blob \in [Blob -> {"none", "fresh", "old"}]
  BY DEF Typed, TypeOK
<1>1. ASSUME NEW t \in Task, CreateLock(t)
      PROVE  BlobsStored'
  <2>1. blob' = blob /\ \A u \in Task \ {t} : task'[u] = task[u]
    BY <1>1, <1>a DEF CreateLock, Becomes, Goes
  <2>2. task'[t].pc \notin {"blobs", "touch", "unlink"}
    BY <1>1, <1>a DEF CreateLock, Becomes, Goes, Idle, TaskType
  <2>3. Stored(t)'
    BY <2>2 DEF Stored
  <2>. QED  BY <2>1, <2>3, StoredByOne
<1>2. ASSUME NEW t \in Task, StampLock(t)
      PROVE  BlobsStored'
  <2>1. blob' = blob /\ \A u \in Task \ {t} : task'[u] = task[u]
    BY <1>2, <1>a DEF StampLock, Becomes
  <2>2. Stored(t)'
    <3>1. CASE task[t].goal = "save"
      BY <1>2, <1>a, <2>1, <3>1 DEF StampLock, Becomes, Stored, TaskType
    <3>2. CASE task[t].goal # "save"
      BY <1>2, <1>a, <2>1, <3>2 DEF StampLock, Becomes, Stored, TaskType
    <3>. QED  BY <3>1, <3>2
  <2>. QED  BY <2>1, <2>2, StoredByOne
<1>3. ASSUME NEW t \in Task, JudgeLock(t)
      PROVE  BlobsStored'
  <2>1. blob' = blob /\ \A u \in Task \ {t} : task'[u] = task[u]
    BY <1>3, <1>a DEF JudgeLock, Becomes, Goes
  <2>2. task'[t].pc \notin {"blobs", "touch", "unlink"}
    BY <1>3, <1>a DEF JudgeLock, Becomes, Goes, Idle, TaskType
  <2>3. Stored(t)'
    BY <2>2 DEF Stored
  <2>. QED  BY <2>1, <2>3, StoredByOne
<1>4. ASSUME NEW t \in Task, ReapLock(t)
      PROVE  BlobsStored'
  <2>1. blob' = blob /\ \A u \in Task \ {t} : task'[u] = task[u]
    BY <1>4, <1>a DEF ReapLock, Becomes, Goes
  <2>2. task'[t].pc \notin {"blobs", "touch", "unlink"}
    BY <1>4, <1>a DEF ReapLock, Becomes, Goes, Idle, TaskType
  <2>3. Stored(t)'
    BY <2>2 DEF Stored
  <2>. QED  BY <2>1, <2>3, StoredByOne
<1>5. ASSUME NEW t \in Task, SaveUnguarded(t)
      PROVE  BlobsStored'
  <2>1. blob' = blob /\ \A u \in Task \ {t} : task'[u] = task[u]
    BY <1>5, <1>a DEF SaveUnguarded, Becomes
  <2>2. Stored(t)'
    BY <1>5, <1>a, <2>1 DEF SaveUnguarded, Becomes, Stored, TaskType
  <2>. QED  BY <2>1, <2>2, StoredByOne
<1>6. ASSUME NEW t \in Task, SkipCollection(t)
      PROVE  BlobsStored'
  <2>1. blob' = blob /\ \A u \in Task \ {t} : task'[u] = task[u]
    BY <1>6, <1>a DEF SkipCollection, Becomes
  <2>2. task'[t].pc \notin {"blobs", "touch", "unlink"}
    BY <1>6, <1>a DEF SkipCollection, Becomes, Idle, TaskType
  <2>3. Stored(t)'
    BY <2>2 DEF Stored
  <2>. QED  BY <2>1, <2>3, StoredByOne
<1>7. ASSUME NEW t \in Task, NEW s \in Session, Open(t, s)
      PROVE  BlobsStored'
  <2>1. blob' = blob /\ \A u \in Task \ {t} : task'[u] = task[u]
    BY <1>7, <1>a DEF Open, Becomes
  <2>2. task'[t].pc \notin {"blobs", "touch", "unlink"}
    BY <1>7, <1>a DEF Open, Becomes, Idle, TaskType
  <2>3. Stored(t)'
    BY <2>2 DEF Stored
  <2>. QED  BY <2>1, <2>3, StoredByOne
<1>8. ASSUME NEW t \in Task, Close(t)
      PROVE  BlobsStored'
  <2>1. blob' = blob /\ \A u \in Task \ {t} : task'[u] = task[u]
    BY <1>8, <1>a DEF Close, Becomes
  <2>2. task'[t].pc \notin {"blobs", "touch", "unlink"}
    BY <1>8, <1>a DEF Close, Becomes, Idle, TaskType
  <2>3. Stored(t)'
    BY <2>2 DEF Stored
  <2>. QED  BY <2>1, <2>3, StoredByOne
<1>9. ASSUME NEW t \in Task, NEW refs \in SUBSET Blob, BeginSave(t, refs)
      PROVE  BlobsStored'
  <2>1. blob' = blob /\ \A u \in Task \ {t} : task'[u] = task[u]
    BY <1>9, <1>a DEF BeginSave, Becomes
  <2>2. /\ task'[t].pc \in {"blobs", "acquire"} /\ task'[t].refs = refs
        /\ task'[t].pc = "blobs" => refs = {}
    BY <1>9, <1>a DEF BeginSave, Becomes, TaskType
  <2>3. Stored(t)'
    BY <2>2 DEF Stored
  <2>. QED  BY <2>1, <2>3, StoredByOne
<1>10. ASSUME NEW t \in Task, LookForBlob(t)
      PROVE  BlobsStored'
  <2>1. PICK b \in task[t].todo :
            IF blob[b] = "none"
            THEN /\ blob' = [blob EXCEPT ![b] = "fresh"]
                 /\ Becomes(t, [task[t] EXCEPT !.todo = @ \ {b}])
            ELSE /\ Becomes(t, [task[t] EXCEPT !.pc = "touch", !.at = {b}])
                 /\ UNCHANGED blob
    BY <1>10 DEF LookForBlob
  <2>2. task[t].pc = "blobs" /\ b \in task[t].refs /\ b \in Blob
    BY <1>10, <1>a DEF LookForBlob, Typed, Shape, TaskType
  <2>3. \A u \in Task \ {t} : task'[u] = task[u]
    BY <2>1, <1>a DEF Becomes
  <2>4. CASE blob[b] = "none"
    <3>1. /\ task'[t].pc = "blobs" /\ task'[t].refs = task[t].refs
          /\ task'[t].todo = task[t].todo \ {b} /\ task'[t].guarded = task[t].guarded
      BY <1>a, <2>1, <2>2, <2>4 DEF Becomes, TaskType
    <3>2. blob' = [blob EXCEPT ![b] = "fresh"]
      BY <2>1, <2>4
    <3>3. task[t].refs \subseteq Blob
      BY <1>a DEF TaskType
    <3>4. Stored(t)'
      BY <1>a, <2>2, <3>1, <3>2, <3>3 DEF BlobsStored, Stored
    <3>. QED  BY <1>a, <2>2, <2>3, <3>2, <3>4, StoredFresh
  <2>5. CASE blob[b] # "none"
    <3>1. /\ task'[t].pc = "touch" /\ task'[t].refs = task[t].refs /\ task'[t].at = {b}
          /\ task'[t].todo = task[t].todo /\ task'[t].guarded = task[t].guarded
      <4>1. task' = [task EXCEPT ![t] = [task[t] EXCEPT !.pc = "touch", !.at = {b}]]
        BY <2>1, <2>5 DEF Becomes
      <4>2. task \in [Task -> TaskType] /\ task[t] \in TaskType
        BY <1>a
      <4>3. task'[t] = [task[t] EXCEPT !.pc = "touch", !.at = {b}]
        BY <4>1, <4>2
      <4>. QED  BY <4>2, <4>3 DEF TaskType
    <3>2. blob' = blob
      BY <2>1, <2>5
    <3>3. Stored(t)'
      BY <2>2, <2>5, <3>1, <3>2 DEF BlobsStored, Stored
    <3>. QED  BY <2>3, <3>2, <3>3, StoredByOne
  <2>. QED  BY <2>4, <2>5
<1>11. ASSUME NEW t \in Task, TouchBlob(t)
      PROVE  BlobsStored'
  <2>1. /\ task[t].pc = "touch"
        /\ blob' = [b \in Blob |->
                       IF b \in task[t].at /\ blob[b] # "none" THEN "fresh" ELSE blob[b]]
        /\ \A u \in Task \ {t} : task'[u] = task[u]
    BY <1>11, <1>a DEF TouchBlob, Becomes
  <2>2. /\ task'[t].pc = "blobs" /\ task'[t].refs = task[t].refs
        /\ task'[t].todo = task[t].todo \ task[t].at /\ task'[t].guarded = task[t].guarded
    BY <1>11, <1>a DEF TouchBlob, Becomes, TaskType
  <2>3. task[t].at \subseteq task[t].refs /\ task[t].refs \subseteq Blob
    BY <1>a, <2>1 DEF Typed, Shape, TaskType
  <2>4. Stored(t)'
    BY <1>a, <2>1, <2>2, <2>3 DEF BlobsStored, Stored
  <2>5. \A b \in Blob : blob'[b] = blob[b] \/ (blob'[b] = "fresh" /\ b \in task[t].refs)
    BY <2>1, <2>3
  <2>. QED  BY <2>1, <2>4, <2>5, StoredFresh
<1>12. ASSUME NEW t \in Task, WriteSession(t)
      PROVE  BlobsStored'
  <2>1. blob' = blob /\ \A u \in Task \ {t} : task'[u] = task[u]
    BY <1>12, <1>a DEF WriteSession, Becomes
  <2>2. task'[t].pc \notin {"blobs", "touch", "unlink"}
    BY <1>12, <1>a DEF WriteSession, Becomes, Idle, TaskType
  <2>3. Stored(t)'
    BY <2>2 DEF Stored
  <2>. QED  BY <2>1, <2>3, StoredByOne
<1>13. ASSUME NEW t \in Task, EndSave(t)
      PROVE  BlobsStored'
  <2>1. blob' = blob /\ \A u \in Task \ {t} : task'[u] = task[u]
    BY <1>13, <1>a DEF EndSave, Becomes
  <2>2. task'[t].pc \notin {"blobs", "touch", "unlink"}
    BY <1>13, <1>a DEF EndSave, Becomes, Idle, TaskType
  <2>3. Stored(t)'
    BY <2>2 DEF Stored
  <2>. QED  BY <2>1, <2>3, StoredByOne
<1>14. ASSUME NEW t \in Task, SaveFails(t)
      PROVE  BlobsStored'
  <2>1. blob' = blob /\ \A u \in Task \ {t} : task'[u] = task[u]
    BY <1>14, <1>a DEF SaveFails, Becomes
  <2>2. task'[t].pc \notin {"blobs", "touch", "unlink"}
    BY <1>14, <1>a DEF SaveFails, Becomes, Idle, TaskType
  <2>3. Stored(t)'
    BY <2>2 DEF Stored
  <2>. QED  BY <2>1, <2>3, StoredByOne
<1>15. ASSUME NEW t \in Task, BeginSweep(t)
      PROVE  BlobsStored'
  <2>1. blob' = blob /\ \A u \in Task \ {t} : task'[u] = task[u]
    BY <1>15, <1>a DEF BeginSweep, Becomes
  <2>2. task'[t].pc \notin {"blobs", "touch", "unlink"}
    BY <1>15, <1>a DEF BeginSweep, Becomes, Idle, TaskType
  <2>3. Stored(t)'
    BY <2>2 DEF Stored
  <2>. QED  BY <2>1, <2>3, StoredByOne
<1>16. ASSUME NEW t \in Task, Look(t)
      PROVE  BlobsStored'
  <2>1. blob' = blob /\ \A u \in Task \ {t} : task'[u] = task[u]
    BY <1>16, <1>a DEF Look, Becomes
  <2>2. task'[t].pc \notin {"blobs", "touch", "unlink"}
    BY <1>16, <1>a DEF Look, Becomes, Idle, TaskType
  <2>3. Stored(t)'
    BY <2>2 DEF Stored
  <2>. QED  BY <2>1, <2>3, StoredByOne
<1>17. ASSUME NEW t \in Task, Claim(t)
      PROVE  BlobsStored'
  <2>1. blob' = blob /\ \A u \in Task \ {t} : task'[u] = task[u]
    BY <1>17, <1>a DEF Claim, Becomes, Goes, Passes
  <2>2. task'[t].pc \in {"handle", "look"}
    BY <1>17, ClaimMoves
  <2>3. Stored(t)'
    BY <2>2 DEF Stored
  <2>. QED  BY <2>1, <2>3, StoredByOne
<1>18. ASSUME NEW t \in Task, Purge(t)
      PROVE  BlobsStored'
  <2>1. blob' = blob /\ \A u \in Task \ {t} : task'[u] = task[u]
    BY <1>18, <1>a DEF Purge, Becomes
  <2>2. task'[t].pc \notin {"blobs", "touch", "unlink"}
    BY <1>18, <1>a DEF Purge, Becomes, Idle, TaskType
  <2>3. Stored(t)'
    BY <2>2 DEF Stored
  <2>. QED  BY <2>1, <2>3, StoredByOne
<1>19. ASSUME NEW t \in Task, Pack(t)
      PROVE  BlobsStored'
  <2>1. blob' = blob /\ \A u \in Task \ {t} : task'[u] = task[u]
    BY <1>19, <1>a DEF Pack, Becomes, Goes
  <2>2. task'[t].pc \notin {"blobs", "touch", "unlink"}
    BY <1>19, <1>a DEF Pack, Becomes, Goes, Idle, TaskType
  <2>3. Stored(t)'
    BY <2>2 DEF Stored
  <2>. QED  BY <2>1, <2>3, StoredByOne
<1>20. ASSUME NEW t \in Task, DropPlain(t)
      PROVE  BlobsStored'
  <2>1. blob' = blob /\ \A u \in Task \ {t} : task'[u] = task[u]
    BY <1>20, <1>a DEF DropPlain, Becomes, Passes
  <2>2. task'[t].pc \notin {"blobs", "touch", "unlink"}
    BY <1>20, <1>a DEF DropPlain, Becomes, Passes, Idle, TaskType
  <2>3. Stored(t)'
    BY <2>2 DEF Stored
  <2>. QED  BY <2>1, <2>3, StoredByOne
<1>21. ASSUME NEW t \in Task, LeaveAlone(t)
      PROVE  BlobsStored'
  <2>1. blob' = blob /\ \A u \in Task \ {t} : task'[u] = task[u]
    BY <1>21, <1>a DEF LeaveAlone, Becomes, Passes
  <2>2. task'[t].pc \notin {"blobs", "touch", "unlink"}
    BY <1>21, <1>a DEF LeaveAlone, Becomes, Passes, Idle, TaskType
  <2>3. Stored(t)'
    BY <2>2 DEF Stored
  <2>. QED  BY <2>1, <2>3, StoredByOne
<1>22. ASSUME NEW t \in Task, EndSweep(t)
      PROVE  BlobsStored'
  <2>1. blob' = blob /\ \A u \in Task \ {t} : task'[u] = task[u]
    BY <1>22, <1>a DEF EndSweep, Becomes
  <2>2. task'[t].pc \notin {"blobs", "touch", "unlink"}
    BY <1>22, <1>a DEF EndSweep, Becomes, Idle, TaskType
  <2>3. Stored(t)'
    BY <2>2 DEF Stored
  <2>. QED  BY <2>1, <2>3, StoredByOne
<1>23. ASSUME NEW t \in Task, List(t)
      PROVE  BlobsStored'
  <2>1. blob' = blob /\ \A u \in Task \ {t} : task'[u] = task[u]
    BY <1>23, <1>a DEF List, Becomes
  <2>2. task'[t].pc \notin {"blobs", "touch", "unlink"}
    BY <1>23, <1>a DEF List, Becomes, Idle, TaskType
  <2>3. Stored(t)'
    BY <2>2 DEF Stored
  <2>. QED  BY <2>1, <2>3, StoredByOne
<1>24. ASSUME NEW t \in Task, Mark(t)
      PROVE  BlobsStored'
  <2>1. blob' = blob /\ task[t].pc = "mark" /\ \A u \in Task \ {t} : task'[u] = task[u]
    BY <1>24, <1>a DEF Mark, Becomes
  <2>2. task'[t].pc \in {"mark", "idle"}
    BY <1>24, MarkMoves
  <2>3. Stored(t)'
    BY <2>2 DEF Stored
  <2>. QED  BY <2>1, <2>3, StoredByOne
<1>25. ASSUME NEW t \in Task, Marked(t)
      PROVE  BlobsStored'
  <2>1. blob' = blob /\ \A u \in Task \ {t} : task'[u] = task[u]
    BY <1>25, <1>a DEF Marked, Becomes
  <2>2. task'[t].pc \notin {"blobs", "touch", "unlink"}
    BY <1>25, <1>a DEF Marked, Becomes, Idle, TaskType
  <2>3. Stored(t)'
    BY <2>2 DEF Stored
  <2>. QED  BY <2>1, <2>3, StoredByOne
<1>26. ASSUME NEW t \in Task, LookAtBlob(t)
      PROVE  BlobsStored'
  <2>1. blob' = blob /\ \A u \in Task \ {t} : task'[u] = task[u]
    BY <1>26, <1>a DEF LookAtBlob, Becomes
  <2>2. PICK b \in task[t].todo :
            task'[t] = [task[t] EXCEPT !.todo = @ \ {b}, !.at = {b},
                                       !.pc = IF blob[b] = "old" THEN "unlink" ELSE "sweep"]
    BY <1>26, <1>a DEF LookAtBlob, Becomes
  <2>3. /\ task'[t].at = {b} /\ task'[t].pc \in {"sweep", "unlink"}
        /\ task'[t].pc = "unlink" => blob[b] = "old"
    BY <1>a, <2>2 DEF TaskType
  <2>4. Stored(t)'
    BY <2>1, <2>3 DEF Stored
  <2>. QED  BY <2>1, <2>4, StoredByOne
<1>27. ASSUME NEW t \in Task, Unlink(t)
      PROVE  BlobsStored'
  <2>1. /\ task[t].pc = "unlink" /\ task'[t].pc = "sweep"
        /\ blob' = [b \in Blob |-> IF b \in task[t].at THEN "none" ELSE blob[b]]
        /\ \A u \in Task \ {t} : task'[u] = task[u]
    BY <1>27, <1>a DEF Unlink, Goes, Becomes, TaskType
  <2>2. Stored(t)'
    BY <2>1 DEF Stored
  <2>3. ASSUME NEW u \in Task \ {t}
        PROVE  Stored(u)'
    <3>1. task'[u] = task[u] /\ Stored(u) /\ ~task[u].guarded
      BY <2>1, Apart DEF BlobsStored, Collecting
    <3>2. \A b \in task[t].at : blob[b] = "old"
      BY <2>1 DEF BlobsStored, Stored
    <3>3. task[u].pc # "unlink"
      BY <2>1, <3>1 DEF LockKept, Collecting
    <3>4. CASE task[u].pc \in {"blobs", "touch"}
      <4>1. task[u].refs \subseteq Blob /\ (task[u].pc = "touch" => task[u].at \subseteq task[u].refs)
        BY <1>a DEF Typed, Shape, TaskType
      <4>2. \A b \in task[u].refs : blob[b] # "old" /\ blob'[b] = blob[b]
        BY <2>1, <3>1, <3>2, <3>4, <4>1 DEF Stored
      <4>. QED  BY <3>1, <3>4, <4>1, <4>2 DEF Stored
    <3>5. CASE task[u].pc \notin {"blobs", "touch"}
      BY <3>1, <3>3, <3>5 DEF Stored
    <3>. QED  BY <3>4, <3>5
  <2>. QED  BY <2>2, <2>3 DEF BlobsStored
<1>28. ASSUME NEW t \in Task, EndCollection(t)
      PROVE  BlobsStored'
  <2>1. blob' = blob /\ \A u \in Task \ {t} : task'[u] = task[u]
    BY <1>28, <1>a DEF EndCollection, Becomes
  <2>2. task'[t].pc \notin {"blobs", "touch", "unlink"}
    BY <1>28, <1>a DEF EndCollection, Becomes, Idle, TaskType
  <2>3. Stored(t)'
    BY <2>2 DEF Stored
  <2>. QED  BY <2>1, <2>3, StoredByOne
<1>29. ASSUME NEW t \in Task, Crash(t)
      PROVE  BlobsStored'
  <2>1. blob' = blob /\ \A u \in Task \ {t} : task'[u] = task[u]
    BY <1>29, <1>a DEF Crash, Becomes
  <2>2. task'[t].pc \notin {"blobs", "touch", "unlink"}
    BY <1>29, <1>a DEF Crash, Becomes, Idle, TaskType
  <2>3. Stored(t)'
    BY <2>2 DEF Stored
  <2>. QED  BY <2>1, <2>3, StoredByOne
<1>30. ASSUME NEW t \in Task, Restart(t)
      PROVE  BlobsStored'
  <2>1. blob' = blob /\ \A u \in Task \ {t} : task'[u] = task[u]
    BY <1>30, <1>a DEF Restart, Becomes
  <2>2. task'[t].pc \notin {"blobs", "touch", "unlink"}
    BY <1>30, <1>a DEF Restart, Becomes, Idle, TaskType
  <2>3. Stored(t)'
    BY <2>2 DEF Stored
  <2>. QED  BY <2>1, <2>3, StoredByOne
<1>31. ASSUME NEW s \in Session, AgeSession(s)
      PROVE  BlobsStored'
  BY <1>31 DEF AgeSession, BlobsStored, Stored
<1>32. ASSUME NEW b \in Blob, AgeBlob(b)
      PROVE  BlobsStored'
  <2>1. task' = task /\ blob' = [blob EXCEPT ![b] = "old"] /\ blob[b] = "fresh"
    BY <1>32 DEF AgeBlob
  <2>2. ASSUME NEW u \in Task
        PROVE  Stored(u)'
    <3>1. Stored(u) /\ task[u].pc # "unlink"
      BY <1>32 DEF AgeBlob, BlobsStored, Collecting
    <3>2. CASE task[u].pc \in {"blobs", "touch"}
      <4>1. b \notin task[u].refs
        BY <1>32, <3>2 DEF AgeBlob
      <4>2. task[u].refs \subseteq Blob /\ (task[u].pc = "touch" => task[u].at \subseteq task[u].refs)
        BY <1>a, <3>2 DEF Typed, Shape, TaskType
      <4>3. \A c \in task[u].refs : blob'[c] = blob[c]
        BY <1>a, <2>1, <4>1, <4>2
      <4>. QED  BY <2>1, <3>1, <3>2, <4>2, <4>3 DEF Stored
    <3>3. CASE task[u].pc \notin {"blobs", "touch"}
      BY <2>1, <3>1, <3>3 DEF Stored
    <3>. QED  BY <3>2, <3>3
  <2>. QED  BY <2>2 DEF BlobsStored
<1>33. CASE AgeLock
  BY <1>33 DEF AgeLock, BlobsStored, Stored
<1>34. CASE UNCHANGED vars
  BY <1>34 DEF vars, BlobsStored, Stored
<1>35. ASSUME NEW t \in Task, Reading(t)
      PROVE  BlobsStored'
  <2>1. PICK todo \in SUBSET Path :
              /\ task'[t] = [task[t] EXCEPT !.todo = todo]
              /\ task[t].pc = "mark"
              /\ \A u \in Task \ {t} : task'[u] = task[u]
              /\ plain' = plain /\ packed' = packed /\ blob' = blob /\ lock' = lock
              /\ saves' = saves
    BY <1>35, ReadingMoves
  <2>2. /\ task'[t].pc = "mark"
        /\ task'[t].guarded = task[t].guarded /\ task'[t].sess = task[t].sess
    BY <1>a, <2>1 DEF TaskType
  <2>3. Stored(t)'
    BY <2>2 DEF Stored
  <2>. QED  BY <2>1, <2>3, StoredByOne
<1>. QED
  BY <1>1, <1>2, <1>3, <1>4, <1>5, <1>6, <1>7, <1>8, <1>9, <1>10, <1>11, <1>12, <1>13, <1>14,
     <1>15, <1>16, <1>17, <1>18, <1>19, <1>20, <1>21, <1>22, <1>23, <1>24, <1>25, <1>26, <1>27,
     <1>28, <1>29, <1>30, <1>31, <1>32, <1>33, <1>34, <1>35
     DEF Next, Acquisition, Window, Sweep, Collect

\* A collection spares what sessions name.
SparesNamed(u) ==
    task[u].pc \in {"mark", "sweep", "unlink"} =>
        \A path \in Listing : \A b \in At(path).refs : Spared(u, path, b)

\* While the files stay and attachments only get younger, a collection that does not
\* move spares what it spared.
LEMMA SparesStill ==
    ASSUME Typed, NEW u \in Task, SparesNamed(u), task'[u] = task[u],
           plain' = plain, packed' = packed,
           \A b \in Blob : blob[b] = "fresh" => blob'[b] = "fresh"
    PROVE  SparesNamed(u)'
<1>. SUFFICES ASSUME task'[u].pc \in {"mark", "sweep", "unlink"}, NEW path \in Listing',
                     NEW b \in At(path)'.refs
              PROVE  Spared(u, path, b)'
  BY DEF SparesNamed
<1>1. path \in Listing /\ At(path)' = At(path) /\ (Covered(path[1])' <=> Covered(path[1]))
      /\ (CopyOfListed(u, path[1])' <=> CopyOfListed(u, path[1]))
  BY DEF Listing, At, Covered, CopyOfListed
<1>2. b \in Blob
  <2>1. At(path) \in FileType
    BY <1>1, FileTypes DEF Listing
  <2>. QED  BY <1>1, <2>1 DEF FileType
<1>3. Spared(u, path, b)
  BY <1>1 DEF SparesNamed
<1>. QED  BY <1>1, <1>2, <1>3 DEF Spared

\* One task moves, without touching a session file, and collects nothing.
LEMMA SparesByOne ==
    ASSUME Typed, NamedSpared, NEW t \in Task, task'[t].pc \notin {"mark", "sweep", "unlink"},
           \A u \in Task \ {t} : task'[u] = task[u], plain' = plain, packed' = packed,
           \A b \in Blob : blob[b] = "fresh" => blob'[b] = "fresh"
    PROVE  NamedSpared'
<1>1. ASSUME NEW u \in Task
      PROVE  SparesNamed(u)'
  <2>1. CASE u = t
    BY <2>1 DEF SparesNamed
  <2>2. CASE u # t
    BY <2>2, SparesStill DEF NamedSpared, SparesNamed
  <2>. QED  BY <2>1, <2>2
<1>. QED  BY <1>1 DEF NamedSpared, SparesNamed

\* The task that moves is the one that collects.
LEMMA SparesByCollector ==
    ASSUME LockKept, NEW t \in Task, task[t].pc \in Collecting,
           \A u \in Task \ {t} : task'[u] = task[u], SparesNamed(t)'
    PROVE  NamedSpared'
<1>1. \A u \in Task \ {t} : task[u].pc \notin {"mark", "sweep", "unlink"}
  BY DEF LockKept, Collecting
<1>. QED  BY <1>1 DEF NamedSpared, SparesNamed

\* A file that did not change, or a copy that was made of a spared one, is spared.
LEMMA SparesFiles ==
    ASSUME Typed, NamedSpared, NEW t \in Task, task'[t].pc \notin {"mark", "sweep", "unlink"},
           \A u \in Task \ {t} : task'[u] = task[u], blob' = blob,
           NEW sess \in SUBSET Session,
           \A s \in Session \ sess : plain'[s] = plain[s] /\ packed'[s] = packed[s],
           \A u \in Task \ {t} : task[u].pc \in {"mark", "sweep", "unlink"} =>
               \A s \in sess, which \in {"plain", "packed"} :
                   IsFile(At(<<s, which>>)') =>
                       \A b \in At(<<s, which>>)'.refs : Spared(u, <<s, which>>, b)'
    PROVE  NamedSpared'
<1>1. ASSUME NEW u \in Task \ {t}, task[u].pc \in {"mark", "sweep", "unlink"},
             NEW path \in Listing', NEW b \in At(path)'.refs
      PROVE  Spared(u, path, b)'
  <2>1. path \in Path /\ IsFile(At(path)')
    BY DEF Listing
  <2>2. PICK s \in Session, which \in {"plain", "packed"} : path = <<s, which>>
    BY <2>1 DEF Path
  <2>3. CASE s \in sess
    BY <1>1, <2>1, <2>2, <2>3
  <2>4. CASE s \notin sess
    <3>1. plain'[s] = plain[s] /\ packed'[s] = packed[s] /\ path[1] = s
      BY <2>2, <2>4
    <3>2. /\ path \in Listing /\ At(path)' = At(path) /\ (Covered(s)' <=> Covered(s))
          /\ task'[u] = task[u] /\ (CopyOfListed(u, s)' <=> CopyOfListed(u, s))
      BY <2>1, <3>1 DEF Listing, At, Covered, CopyOfListed
    <3>3. Spared(u, path, b)
      BY <1>1, <3>2 DEF NamedSpared
    <3>. QED  BY <3>1, <3>2, <3>3 DEF Spared
  <2>. QED  BY <2>3, <2>4
<1>. QED  BY <1>1 DEF NamedSpared

\* Every step of a sweep, a save or the collection itself leaves the collection harmless.
LEMMA SparesStep ==
    ASSUME "reapRace" \notin Allowed, "staleAge" \notin Allowed, "lazyList" \notin Allowed,
           Typed, LockKept, FilesOrdered, Handled, PurgesOld, BlobsStored, NamedSpared,
           [Next]_vars
    PROVE  NamedSpared'
<1>a. /\ task \in [Task -> TaskType] /\ blob \in [Blob -> {"none", "fresh", "old"}]
      /\ plain \in [Session -> FileType] /\ packed \in [Session -> FileType] /\ saves \in Nat
  BY BoundsAssumption DEF Typed, TypeOK
<1>1. ASSUME NEW t \in Task, CreateLock(t)
      PROVE  NamedSpared'
  <2>1. /\ plain' = plain /\ packed' = packed /\ task'[t].pc \notin {"mark", "sweep", "unlink"}
        /\ \A u \in Task \ {t} : task'[u] = task[u]
        /\ \A b \in Blob : blob[b] = "fresh" => blob'[b] = "fresh"
    BY <1>1, <1>a DEF CreateLock, Becomes, Goes, Idle, TaskType, sessions
  <2>. QED  BY <2>1, SparesByOne
<1>2. ASSUME NEW t \in Task, StampLock(t)
      PROVE  NamedSpared'
  <2>1. /\ plain' = plain /\ packed' = packed /\ task'[t].pc \notin {"mark", "sweep", "unlink"}
        /\ \A u \in Task \ {t} : task'[u] = task[u]
        /\ \A b \in Blob : blob[b] = "fresh" => blob'[b] = "fresh"
    BY <1>2, <1>a DEF StampLock, Becomes, Idle, TaskType, sessions
  <2>. QED  BY <2>1, SparesByOne
<1>3. ASSUME NEW t \in Task, JudgeLock(t)
      PROVE  NamedSpared'
  <2>1. /\ plain' = plain /\ packed' = packed /\ task'[t].pc \notin {"mark", "sweep", "unlink"}
        /\ \A u \in Task \ {t} : task'[u] = task[u]
        /\ \A b \in Blob : blob[b] = "fresh" => blob'[b] = "fresh"
    BY <1>3, <1>a DEF JudgeLock, Becomes, Goes, Idle, TaskType, sessions
  <2>. QED  BY <2>1, SparesByOne
<1>4. ASSUME NEW t \in Task, ReapLock(t)
      PROVE  NamedSpared'
  <2>1. /\ plain' = plain /\ packed' = packed /\ task'[t].pc \notin {"mark", "sweep", "unlink"}
        /\ \A u \in Task \ {t} : task'[u] = task[u]
        /\ \A b \in Blob : blob[b] = "fresh" => blob'[b] = "fresh"
    BY <1>4, <1>a DEF ReapLock, Becomes, Goes, Idle, TaskType, sessions
  <2>. QED  BY <2>1, SparesByOne
<1>5. ASSUME NEW t \in Task, SaveUnguarded(t)
      PROVE  NamedSpared'
  <2>1. /\ plain' = plain /\ packed' = packed /\ task'[t].pc \notin {"mark", "sweep", "unlink"}
        /\ \A u \in Task \ {t} : task'[u] = task[u]
        /\ \A b \in Blob : blob[b] = "fresh" => blob'[b] = "fresh"
    BY <1>5, <1>a DEF SaveUnguarded, Becomes, Idle, TaskType, sessions
  <2>. QED  BY <2>1, SparesByOne
<1>6. ASSUME NEW t \in Task, SkipCollection(t)
      PROVE  NamedSpared'
  <2>1. /\ plain' = plain /\ packed' = packed /\ task'[t].pc \notin {"mark", "sweep", "unlink"}
        /\ \A u \in Task \ {t} : task'[u] = task[u]
        /\ \A b \in Blob : blob[b] = "fresh" => blob'[b] = "fresh"
    BY <1>6, <1>a DEF SkipCollection, Becomes, Idle, TaskType, sessions
  <2>. QED  BY <2>1, SparesByOne
<1>7. ASSUME NEW t \in Task, NEW s \in Session, Open(t, s)
      PROVE  NamedSpared'
  <2>1. /\ plain' = plain /\ packed' = packed /\ task'[t].pc \notin {"mark", "sweep", "unlink"}
        /\ \A u \in Task \ {t} : task'[u] = task[u]
        /\ \A b \in Blob : blob[b] = "fresh" => blob'[b] = "fresh"
    BY <1>7, <1>a DEF Open, Becomes, Idle, TaskType, sessions
  <2>. QED  BY <2>1, SparesByOne
<1>8. ASSUME NEW t \in Task, Close(t)
      PROVE  NamedSpared'
  <2>1. /\ plain' = plain /\ packed' = packed /\ task'[t].pc \notin {"mark", "sweep", "unlink"}
        /\ \A u \in Task \ {t} : task'[u] = task[u]
        /\ \A b \in Blob : blob[b] = "fresh" => blob'[b] = "fresh"
    BY <1>8, <1>a DEF Close, Becomes, Idle, TaskType, sessions
  <2>. QED  BY <2>1, SparesByOne
<1>9. ASSUME NEW t \in Task, NEW refs \in SUBSET Blob, BeginSave(t, refs)
      PROVE  NamedSpared'
  <2>1. /\ plain' = plain /\ packed' = packed /\ task'[t].pc \notin {"mark", "sweep", "unlink"}
        /\ \A u \in Task \ {t} : task'[u] = task[u]
        /\ \A b \in Blob : blob[b] = "fresh" => blob'[b] = "fresh"
    BY <1>9, <1>a DEF BeginSave, Becomes, Idle, TaskType, sessions
  <2>. QED  BY <2>1, SparesByOne
<1>10. ASSUME NEW t \in Task, LookForBlob(t)
      PROVE  NamedSpared'
  <2>1. /\ plain' = plain /\ packed' = packed /\ task[t].pc = "blobs"
        /\ \A u \in Task \ {t} : task'[u] = task[u]
        /\ \A b \in Blob : blob[b] = "fresh" => blob'[b] = "fresh"
    BY <1>10, <1>a DEF LookForBlob, Becomes, sessions
  <2>2. task'[t].pc \in {"blobs", "touch"}
    BY <1>10, LookMoves
  <2>. QED  BY <2>1, <2>2, SparesByOne
<1>11. ASSUME NEW t \in Task, TouchBlob(t)
      PROVE  NamedSpared'
  <2>1. /\ plain' = plain /\ packed' = packed /\ task'[t].pc \notin {"mark", "sweep", "unlink"}
        /\ \A u \in Task \ {t} : task'[u] = task[u]
        /\ \A b \in Blob : blob[b] = "fresh" => blob'[b] = "fresh"
    BY <1>11, <1>a DEF TouchBlob, Becomes, Idle, TaskType, sessions
  <2>. QED  BY <2>1, SparesByOne
<1>12. ASSUME NEW t \in Task, WriteSession(t)
      PROVE  NamedSpared'
  <2>1. /\ task[t].pc = "blobs" /\ task[t].todo = {} /\ packed' = packed /\ blob' = blob
        /\ task'[t].pc = "unpack" /\ \A u \in Task \ {t} : task'[u] = task[u]
        /\ \A s \in Session : plain'[s] = IF s \in task[t].sess THEN File(saves, task[t].refs)
                                                               ELSE plain[s]
    BY <1>12, <1>a DEF WriteSession, Becomes, Handles, TaskType
  <2>2. task[t].sess \in SUBSET Session /\ task[t].refs \subseteq Blob
    BY <1>a DEF TaskType
  <2>3. ASSUME NEW u \in Task \ {t}, task[u].pc \in {"mark", "sweep", "unlink"},
               NEW s \in task[t].sess, NEW which \in {"plain", "packed"},
               NEW b \in At(<<s, which>>)'.refs
        PROVE  Spared(u, <<s, which>>, b)'
    <3>1. \A c \in task[t].refs : blob[c] = "fresh"
      <4>1. ~task[t].guarded
        BY <2>3, Apart DEF Collecting
      <4>. QED  BY <1>a, <2>1, <2>2, <4>1 DEF BlobsStored, Stored
    <3>2. plain'[s] = File(saves, task[t].refs) /\ packed[s].save < saves /\ plain[s].save < saves
      BY <2>1, <2>2 DEF Handled, Handles, InHand
    <3>3. CASE which = "plain"
      BY <2>1, <3>1, <3>2, <3>3 DEF At, File, Spared
    <3>4. CASE which = "packed"
      <4>1. Covered(s)'
        BY <1>a, <2>1, <2>2, <3>2 DEF Covered, File, IsFile, NoFile, FileType
      <4>. QED  BY <3>4, <4>1 DEF Spared
    <3>. QED  BY <3>3, <3>4
  <2>4. \A s \in Session \ task[t].sess : plain'[s] = plain[s] /\ packed'[s] = packed[s]
    BY <2>1
  <2>. QED  BY <2>1, <2>2, <2>3, <2>4, SparesFiles
<1>13. ASSUME NEW t \in Task, EndSave(t)
      PROVE  NamedSpared'
  <2>1. /\ plain' = plain /\ blob' = blob /\ task'[t].pc = "open"
        /\ \A u \in Task \ {t} : task'[u] = task[u]
        /\ \A s \in Session : packed'[s] = packed[s] \/ (s \in task[t].sess /\ packed'[s] = NoFile)
    BY <1>13, <1>a DEF EndSave, Becomes, Handles, Idle
  <2>2. task[t].sess \in SUBSET Session
    BY <1>a DEF TaskType
  <2>3. ASSUME NEW u \in Task \ {t}, task[u].pc \in {"mark", "sweep", "unlink"},
               NEW s \in task[t].sess, NEW which \in {"plain", "packed"},
               IsFile(At(<<s, which>>)'), NEW b \in At(<<s, which>>)'.refs
        PROVE  Spared(u, <<s, which>>, b)'
    <3>1. At(<<s, which>>)' = At(<<s, which>>)
      BY <2>1, <2>2, <2>3 DEF At, IsFile
    <3>2. Spared(u, <<s, which>>, b)
      BY <2>2, <2>3, <3>1 DEF NamedSpared, Listing, Path
    <3>3. CASE which = "plain"
      BY <2>1, <3>2, <3>3 DEF Spared
    <3>4. CASE which = "packed"
      <4>1. packed'[s] = packed[s]
        BY <3>1, <3>4 DEF At
      <4>2. (Covered(s)' <=> Covered(s)) /\ (CopyOfListed(u, s)' <=> CopyOfListed(u, s))
        BY <2>1, <4>1 DEF Covered, CopyOfListed
      <4>. QED  BY <2>1, <3>2, <3>4, <4>2 DEF Spared
    <3>. QED  BY <3>3, <3>4
  <2>. QED  BY <2>1, <2>2, <2>3, SparesFiles
<1>14. ASSUME NEW t \in Task, SaveFails(t)
      PROVE  NamedSpared'
  <2>1. /\ plain' = plain /\ packed' = packed /\ task'[t].pc \notin {"mark", "sweep", "unlink"}
        /\ \A u \in Task \ {t} : task'[u] = task[u]
        /\ \A b \in Blob : blob[b] = "fresh" => blob'[b] = "fresh"
    BY <1>14, <1>a DEF SaveFails, Becomes, Idle, TaskType, sessions
  <2>. QED  BY <2>1, SparesByOne
<1>15. ASSUME NEW t \in Task, BeginSweep(t)
      PROVE  NamedSpared'
  <2>1. /\ plain' = plain /\ packed' = packed /\ task'[t].pc \notin {"mark", "sweep", "unlink"}
        /\ \A u \in Task \ {t} : task'[u] = task[u]
        /\ \A b \in Blob : blob[b] = "fresh" => blob'[b] = "fresh"
    BY <1>15, <1>a DEF BeginSweep, Becomes, Idle, TaskType, sessions
  <2>. QED  BY <2>1, SparesByOne
<1>16. ASSUME NEW t \in Task, Look(t)
      PROVE  NamedSpared'
  <2>1. /\ plain' = plain /\ packed' = packed /\ task'[t].pc \notin {"mark", "sweep", "unlink"}
        /\ \A u \in Task \ {t} : task'[u] = task[u]
        /\ \A b \in Blob : blob[b] = "fresh" => blob'[b] = "fresh"
    BY <1>16, <1>a DEF Look, Becomes, Idle, TaskType, sessions
  <2>. QED  BY <2>1, SparesByOne
<1>17. ASSUME NEW t \in Task, Claim(t)
      PROVE  NamedSpared'
  <2>1. /\ plain' = plain /\ packed' = packed /\ blob' = blob
        /\ \A u \in Task \ {t} : task'[u] = task[u]
    BY <1>17, <1>a DEF Claim, Becomes, Goes, Passes, sessions
  <2>2. task'[t].pc \in {"handle", "look"}
    BY <1>17, ClaimMoves
  <2>. QED  BY <2>1, <2>2, SparesByOne
<1>18. ASSUME NEW t \in Task, Purge(t)
      PROVE  NamedSpared'
  <2>1. /\ task[t].pc = "handle" /\ task[t].goal = "purge" /\ task'[t].pc = "look"
        /\ blob' = blob /\ \A u \in Task \ {t} : task'[u] = task[u]
    BY <1>18, <1>a DEF Purge, Becomes, TaskType
  <2>2. PICK path \in Path : task[t].at = {path}
    BY <2>1 DEF Typed, Shape
  <2>3. PICK s \in Session, which \in {"plain", "packed"} : path = <<s, which>>
    BY DEF Path
  <2>4. /\ IsFile(At(path))
        /\ IF which = "plain" THEN plain' = [plain EXCEPT ![s] = NoFile] /\ packed' = packed
                              ELSE packed' = [packed EXCEPT ![s] = NoFile] /\ plain' = plain
    BY <1>18, <2>2, <2>3 DEF Purge
  <2>5. At(path).age = "old"
    BY <2>1, <2>2, <2>4 DEF PurgesOld
  <2>6. \A s_1 \in Session \ {s} : plain'[s_1] = plain[s_1] /\ packed'[s_1] = packed[s_1]
    BY <1>a, <2>4
  <2>7. ASSUME NEW u \in Task \ {t}, task[u].pc \in {"mark", "sweep", "unlink"},
               NEW w \in {"plain", "packed"},
               IsFile(At(<<s, w>>)'), NEW b \in At(<<s, w>>)'.refs
        PROVE  Spared(u, <<s, w>>, b)'
    <3>1. At(<<s, w>>)' = At(<<s, w>>) /\ w # which
      BY <1>a, <2>4, <2>7 DEF At, IsFile
    <3>2. Spared(u, <<s, w>>, b)
      BY <2>7, <3>1 DEF NamedSpared, Listing, Path
    <3>3. CASE w = "plain"
      BY <2>1, <3>2, <3>3 DEF Spared
    <3>4. CASE w = "packed"
      <4>1. plain[s].age = "old" /\ plain'[s] = NoFile
        BY <1>a, <2>3, <2>4, <2>5, <3>1, <3>4 DEF At
      <4>2. ~Covered(s) /\ (CopyOfListed(u, s) => CopyOfListed(u, s)')
        BY <2>1, <4>1 DEF Covered, CopyOfListed, IsFile
      <4>. QED  BY <2>1, <3>2, <3>4, <4>2 DEF Spared
    <3>. QED  BY <3>3, <3>4
  <2>8. {s} \in SUBSET Session
    OBVIOUS
  <2>9. \A u \in Task \ {t} : task[u].pc \in {"mark", "sweep", "unlink"} =>
            \A s_1 \in {s}, w \in {"plain", "packed"} :
                IsFile(At(<<s_1, w>>)') =>
                    \A b \in At(<<s_1, w>>)'.refs : Spared(u, <<s_1, w>>, b)'
    BY <2>7
  <2>. QED  BY <2>1, <2>6, <2>8, <2>9, SparesFiles
<1>19. ASSUME NEW t \in Task, Pack(t)
      PROVE  NamedSpared'
  <2>1. /\ task[t].pc = "handle" /\ task'[t].pc = "drop" /\ plain' = plain
        /\ blob' = blob /\ \A u \in Task \ {t} : task'[u] = task[u]
    BY <1>19, <1>a DEF Pack, Goes, Becomes, TaskType
  <2>2. PICK path \in Path : task[t].at = {path}
    BY <2>1 DEF Typed, Shape
  <2>3. PICK s \in Session : s = path[1]
    BY DEF Path
  <2>4. IsFile(plain[s]) /\ packed' = [packed EXCEPT ![s] = plain[s]]
    BY <1>19, <2>2, <2>3 DEF Pack
  <2>5. \A s_1 \in Session \ {s} : plain'[s_1] = plain[s_1] /\ packed'[s_1] = packed[s_1]
    BY <1>a, <2>1, <2>4
  <2>6. ASSUME NEW u \in Task \ {t}, task[u].pc \in {"mark", "sweep", "unlink"},
               NEW w \in {"plain", "packed"}, NEW b \in At(<<s, w>>)'.refs
        PROVE  Spared(u, <<s, w>>, b)'
    <3>1. At(<<s, w>>)' = plain[s] /\ At(<<s, "plain">>) = plain[s] /\ packed'[s] = plain[s]
      BY <1>a, <2>1, <2>4 DEF At
    <3>2. Spared(u, <<s, "plain">>, b)
      BY <2>4, <2>6, <3>1 DEF NamedSpared, Listing, Path
    <3>3. CASE w = "plain"
      BY <2>1, <3>2, <3>3 DEF Spared
    <3>4. CASE w = "packed"
      <4>1. <<s, "plain">> \in task[u].todo => CopyOfListed(u, s)'
        BY <2>1, <3>1 DEF CopyOfListed
      <4>. QED  BY <2>1, <3>2, <3>4, <4>1 DEF Spared
    <3>. QED  BY <3>3, <3>4
  <2>8. {s} \in SUBSET Session
    OBVIOUS
  <2>9. \A u \in Task \ {t} : task[u].pc \in {"mark", "sweep", "unlink"} =>
            \A s_1 \in {s}, w \in {"plain", "packed"} :
                IsFile(At(<<s_1, w>>)') =>
                    \A b \in At(<<s_1, w>>)'.refs : Spared(u, <<s_1, w>>, b)'
    BY <2>6
  <2>. QED  BY <2>1, <2>5, <2>8, <2>9, SparesFiles
<1>20. ASSUME NEW t \in Task, DropPlain(t)
      PROVE  NamedSpared'
  <2>1. /\ task[t].pc = "drop" /\ task'[t].pc = "look" /\ packed' = packed
        /\ blob' = blob /\ \A u \in Task \ {t} : task'[u] = task[u]
        /\ \A s \in Session : plain'[s] = IF s \in task[t].sess THEN NoFile ELSE plain[s]
    BY <1>20, <1>a DEF DropPlain, Passes, Becomes, Handles, TaskType
  <2>2. task[t].sess \in SUBSET Session
    BY <1>a DEF TaskType
  <2>3. ASSUME NEW u \in Task \ {t}, task[u].pc \in {"mark", "sweep", "unlink"},
               NEW s \in task[t].sess, NEW which \in {"plain", "packed"},
               IsFile(At(<<s, which>>)'), NEW b \in At(<<s, which>>)'.refs
        PROVE  Spared(u, <<s, which>>, b)'
    <3>1. which = "packed" /\ At(<<s, which>>)' = At(<<s, which>>) /\ plain'[s] = NoFile
      BY <2>1, <2>2, <2>3 DEF At, IsFile
    <3>2. Spared(u, <<s, "packed">>, b)
      BY <2>2, <2>3, <3>1 DEF NamedSpared, Listing, Path
    <3>3. packed[s] = plain[s]
      BY <2>1, <2>2 DEF Handled, Handles, InHand
    <3>4. ~Covered(s) /\ (CopyOfListed(u, s) => CopyOfListed(u, s)')
      BY <1>a, <2>1, <2>2, <3>1, <3>3 DEF Covered, CopyOfListed, IsFile, FileType
    <3>. QED  BY <2>1, <3>1, <3>2, <3>4 DEF Spared
  <2>4. \A s \in Session \ task[t].sess : plain'[s] = plain[s] /\ packed'[s] = packed[s]
    BY <2>1
  <2>. QED  BY <2>1, <2>2, <2>3, <2>4, SparesFiles
<1>21. ASSUME NEW t \in Task, LeaveAlone(t)
      PROVE  NamedSpared'
  <2>1. /\ plain' = plain /\ packed' = packed /\ task'[t].pc \notin {"mark", "sweep", "unlink"}
        /\ \A u \in Task \ {t} : task'[u] = task[u]
        /\ \A b \in Blob : blob[b] = "fresh" => blob'[b] = "fresh"
    BY <1>21, <1>a DEF LeaveAlone, Becomes, Passes, Idle, TaskType, sessions
  <2>. QED  BY <2>1, SparesByOne
<1>22. ASSUME NEW t \in Task, EndSweep(t)
      PROVE  NamedSpared'
  <2>1. /\ plain' = plain /\ packed' = packed /\ task'[t].pc \notin {"mark", "sweep", "unlink"}
        /\ \A u \in Task \ {t} : task'[u] = task[u]
        /\ \A b \in Blob : blob[b] = "fresh" => blob'[b] = "fresh"
    BY <1>22, <1>a DEF EndSweep, Becomes, Idle, TaskType, sessions
  <2>. QED  BY <2>1, SparesByOne
<1>23. ASSUME NEW t \in Task, List(t)
      PROVE  NamedSpared'
  <2>1. /\ task[t].pc = "list" /\ task'[t].pc = "mark" /\ task'[t].todo = Listing
        /\ Listing' = Listing /\ \A u \in Task \ {t} : task'[u] = task[u]
    BY <1>23, <1>a DEF List, Becomes, TaskType, Listing, At, sessions
  <2>2. SparesNamed(t)'
    BY <2>1 DEF SparesNamed, Spared
  <2>. QED  BY <2>1, <2>2, SparesByCollector DEF Collecting
<1>24. ASSUME NEW t \in Task, Mark(t)
      PROVE  NamedSpared'
  <2>1. PICK read \in task[t].todo :
            IF IsFile(At(read))
            THEN /\ Becomes(t, [task[t] EXCEPT !.todo = @ \ {read}, !.keep = @ \cup At(read).refs])
                 /\ UNCHANGED lock
            ELSE Becomes(t, Idle) /\ lock' = Unlocked(t)
    BY <1>24 DEF Mark
  <2>2. /\ task[t].pc = "mark" /\ plain' = plain /\ packed' = packed /\ blob' = blob
        /\ \A u \in Task \ {t} : task'[u] = task[u]
    BY <1>24, <1>a DEF Mark, Becomes, sessions
  <2>3. CASE ~IsFile(At(read))
    <3>1. task'[t].pc = "idle"
      BY <1>a, <2>1, <2>3 DEF Becomes, Idle
    <3>. QED  BY <2>2, <3>1, SparesByOne
  <2>4. CASE IsFile(At(read))
    <3>1. /\ task'[t].pc = "mark" /\ task'[t].todo = task[t].todo \ {read}
          /\ task'[t].keep = task[t].keep \cup At(read).refs
      <4>1. task' = [task EXCEPT ![t] = [task[t] EXCEPT !.todo = @ \ {read},
                                                        !.keep = @ \cup At(read).refs]]
        BY <2>1, <2>4 DEF Becomes
      <4>2. task \in [Task -> TaskType] /\ task[t] \in TaskType
        BY <1>a
      <4>3. task'[t] = [task[t] EXCEPT !.todo = @ \ {read}, !.keep = @ \cup At(read).refs]
        BY <4>1, <4>2
      <4>. QED  BY <2>2, <4>2, <4>3 DEF TaskType
    <3>2. ASSUME NEW path \in Listing', NEW b \in At(path)'.refs
          PROVE  Spared(t, path, b)'
      <4>1. path \in Listing /\ At(path)' = At(path) /\ (Covered(path[1])' <=> Covered(path[1]))
        BY <2>2 DEF Listing, At, Covered
      <4>2. Spared(t, path, b)
        BY <2>2, <4>1 DEF NamedSpared
      <4>3. CASE path = read
        BY <3>1, <4>1, <4>3 DEF Spared
      <4>4. CASE path # read /\ path[2] = "packed" /\ CopyOfListed(t, path[1])
        <5>1. CASE read = <<path[1], "plain">>
          <6>1. At(read) = plain[path[1]] /\ At(path) = packed[path[1]]
            BY <4>4, <5>1 DEF At
          <6>. QED  BY <2>4, <3>1, <4>1, <4>4, <6>1 DEF CopyOfListed, Spared
        <5>2. CASE read # <<path[1], "plain">>
          BY <2>2, <3>1, <4>4, <5>2 DEF CopyOfListed, Spared
        <5>. QED  BY <5>1, <5>2
      <4>5. CASE path # read /\ ~(path[2] = "packed" /\ CopyOfListed(t, path[1]))
        BY <2>2, <3>1, <4>1, <4>2, <4>5 DEF Spared
      <4>. QED  BY <4>3, <4>4, <4>5
    <3>. QED  BY <2>2, <3>2, SparesByCollector DEF SparesNamed, Collecting
  <2>. QED  BY <2>3, <2>4
<1>25. ASSUME NEW t \in Task, Marked(t)
      PROVE  NamedSpared'
  <2>1. /\ task[t].pc = "mark" /\ task[t].todo = {} /\ task'[t].pc = "sweep"
        /\ task'[t].todo = {b \in Blob : blob[b] # "none"} \ task[t].keep
        /\ task'[t].at = {} /\ plain' = plain /\ packed' = packed /\ blob' = blob
        /\ \A u \in Task \ {t} : task'[u] = task[u]
    BY <1>25, <1>a DEF Marked, Becomes, TaskType, sessions, Typed, Shape
  <2>2. ASSUME NEW path \in Listing', NEW b \in At(path)'.refs
        PROVE  Spared(t, path, b)'
    <3>1. path \in Listing /\ At(path)' = At(path) /\ (Covered(path[1])' <=> Covered(path[1]))
      BY <2>1 DEF Listing, At, Covered
    <3>2. Spared(t, path, b)
      BY <2>1, <3>1 DEF NamedSpared
    <3>. QED  BY <2>1, <3>1, <3>2 DEF Spared, CopyOfListed
  <2>. QED  BY <2>1, <2>2, SparesByCollector DEF SparesNamed, Collecting
<1>26. ASSUME NEW t \in Task, LookAtBlob(t)
      PROVE  NamedSpared'
  <2>1. PICK a \in task[t].todo :
            task'[t] = [task[t] EXCEPT !.todo = @ \ {a}, !.at = {a},
                                       !.pc = IF blob[a] = "old" THEN "unlink" ELSE "sweep"]
    BY <1>26, <1>a DEF LookAtBlob, Becomes
  <2>2. /\ task'[t].todo = task[t].todo \ {a} /\ task'[t].at = {a}
        /\ task'[t].pc \in {"sweep", "unlink"}
    BY <1>a, <2>1 DEF TaskType
  <2>3. /\ task[t].pc = "sweep" /\ plain' = plain /\ packed' = packed /\ blob' = blob
        /\ \A u \in Task \ {t} : task'[u] = task[u]
    BY <1>26, <1>a DEF LookAtBlob, Becomes, sessions
  <2>4. ASSUME NEW path \in Listing', NEW b \in At(path)'.refs
        PROVE  Spared(t, path, b)'
    <3>1. path \in Listing /\ At(path)' = At(path) /\ (Covered(path[1])' <=> Covered(path[1]))
      BY <2>3 DEF Listing, At, Covered
    <3>2. Spared(t, path, b)
      BY <2>3, <3>1 DEF NamedSpared
    <3>. QED  BY <2>2, <2>3, <3>1, <3>2 DEF Spared
  <2>. QED  BY <2>3, <2>4, SparesByCollector DEF SparesNamed, Collecting
<1>27. ASSUME NEW t \in Task, Unlink(t)
      PROVE  NamedSpared'
  <2>1. /\ task[t].pc = "unlink" /\ task'[t].pc = "sweep" /\ plain' = plain /\ packed' = packed
        /\ task'[t].todo = task[t].todo /\ task'[t].at = task[t].at
        /\ blob' = [b \in Blob |-> IF b \in task[t].at THEN "none" ELSE blob[b]]
        /\ \A u \in Task \ {t} : task'[u] = task[u]
    BY <1>27, <1>a DEF Unlink, Goes, Becomes, TaskType, sessions
  <2>2. ASSUME NEW path \in Listing', NEW b \in At(path)'.refs
        PROVE  Spared(t, path, b)'
    <3>1. path \in Listing /\ At(path)' = At(path) /\ (Covered(path[1])' <=> Covered(path[1]))
      BY <2>1 DEF Listing, At, Covered
    <3>2. Spared(t, path, b)
      BY <2>1, <3>1 DEF NamedSpared
    <3>3. b \in Blob
      <4>1. At(path) \in FileType
        BY <3>1, FileTypes DEF Listing
      <4>. QED  BY <3>1, <4>1 DEF FileType
    <3>4. blob[b] = "fresh" => blob'[b] = "fresh"
      BY <2>1, <3>3 DEF BlobsStored, Stored
    <3>. QED  BY <2>1, <3>1, <3>2, <3>4 DEF Spared
  <2>. QED  BY <2>1, <2>2, SparesByCollector DEF SparesNamed, Collecting
<1>28. ASSUME NEW t \in Task, EndCollection(t)
      PROVE  NamedSpared'
  <2>1. /\ plain' = plain /\ packed' = packed /\ task'[t].pc \notin {"mark", "sweep", "unlink"}
        /\ \A u \in Task \ {t} : task'[u] = task[u]
        /\ \A b \in Blob : blob[b] = "fresh" => blob'[b] = "fresh"
    BY <1>28, <1>a DEF EndCollection, Becomes, Idle, TaskType, sessions
  <2>. QED  BY <2>1, SparesByOne
<1>29. ASSUME NEW t \in Task, Crash(t)
      PROVE  NamedSpared'
  <2>1. /\ plain' = plain /\ packed' = packed /\ task'[t].pc \notin {"mark", "sweep", "unlink"}
        /\ \A u \in Task \ {t} : task'[u] = task[u]
        /\ \A b \in Blob : blob[b] = "fresh" => blob'[b] = "fresh"
    BY <1>29, <1>a DEF Crash, Becomes, Idle, TaskType, sessions
  <2>. QED  BY <2>1, SparesByOne
<1>30. ASSUME NEW t \in Task, Restart(t)
      PROVE  NamedSpared'
  <2>1. /\ plain' = plain /\ packed' = packed /\ task'[t].pc \notin {"mark", "sweep", "unlink"}
        /\ \A u \in Task \ {t} : task'[u] = task[u]
        /\ \A b \in Blob : blob[b] = "fresh" => blob'[b] = "fresh"
    BY <1>30, <1>a DEF Restart, Becomes, Idle, TaskType, sessions
  <2>. QED  BY <2>1, SparesByOne
<1>31. ASSUME NEW s \in Session, AgeSession(s)
      PROVE  NamedSpared'
  <2>1. \A u \in Task : task'[u].pc \notin {"mark", "sweep", "unlink"}
    BY <1>31 DEF AgeSession, Collecting
  <2>. QED  BY <2>1 DEF NamedSpared
<1>32. ASSUME NEW b \in Blob, AgeBlob(b)
      PROVE  NamedSpared'
  <2>1. \A u \in Task : task'[u].pc \notin {"mark", "sweep", "unlink"}
    BY <1>32 DEF AgeBlob, Collecting
  <2>. QED  BY <2>1 DEF NamedSpared
<1>33. CASE AgeLock
  <2>1. \A u \in Task : SparesNamed(u) => SparesNamed(u)'
    BY <1>33, SparesStill DEF AgeLock, sessions
  <2>. QED  BY <2>1 DEF NamedSpared, SparesNamed
<1>34. CASE UNCHANGED vars
  <2>1. \A u \in Task : SparesNamed(u) => SparesNamed(u)'
    BY <1>34, SparesStill DEF vars
  <2>. QED  BY <2>1 DEF NamedSpared, SparesNamed
<1>35. ASSUME NEW t \in Task, Reading(t)
      PROVE  NamedSpared'
  <2>1. PICK todo \in SUBSET Path :
              /\ task'[t] = [task[t] EXCEPT !.todo = todo]
              /\ task[t].pc = "mark"
              /\ \A u \in Task \ {t} : task'[u] = task[u]
              /\ \/ todo = task[t].todo \cup (todo \cap Listing)
                 \/ \E path \in task[t].todo \ Listing :
                        todo = task[t].todo \ {path} /\ ~IsFile(Loaded(path[1]))
              /\ plain' = plain /\ packed' = packed /\ blob' = blob
    BY <1>35, ReadingMoves
  <2>2. /\ task'[t].pc = task[t].pc /\ task'[t].keep = task[t].keep
        /\ task'[t].todo = todo
    BY <1>a, <2>1 DEF TaskType
  <2>3. ASSUME NEW path \in Listing', NEW b \in At(path)'.refs
        PROVE  Spared(t, path, b)'
    <3>1. path \in Listing /\ At(path)' = At(path) /\ (Covered(path[1])' <=> Covered(path[1]))
      BY <2>1 DEF Listing, At, Covered
    <3>2. Spared(t, path, b)
      BY <2>1, <3>1 DEF NamedSpared
    <3>3. IsFile(Loaded(path[1]))
      BY <3>1 DEF Listing, At, Loaded
    <3>4. /\ path \in task[t].todo => path \in todo
          /\ <<path[1], "plain">> \in task[t].todo => <<path[1], "plain">> \in todo
      BY <2>1, <3>3
    <3>. QED  BY <2>1, <2>2, <3>1, <3>2, <3>4 DEF Spared, CopyOfListed
  <2>. QED  BY <2>1, <2>3, SparesByCollector DEF SparesNamed, Collecting
<1>. QED
  BY <1>1, <1>2, <1>3, <1>4, <1>5, <1>6, <1>7, <1>8, <1>9, <1>10, <1>11, <1>12, <1>13, <1>14,
     <1>15, <1>16, <1>17, <1>18, <1>19, <1>20, <1>21, <1>22, <1>23, <1>24, <1>25, <1>26, <1>27,
     <1>28, <1>29, <1>30, <1>31, <1>32, <1>33, <1>34, <1>35
     DEF Next, Acquisition, Window, Sweep, Collect

\* An attachment that a load's answer names is stored, was missing already, or the answer
\* is an earlier save's.
LEMMA NamedKept ==
    ASSUME Typed, LockKept, FilesOrdered, Handled, BlobsStored, NamedSpared, [Next]_vars,
           NEW s \in Session, NEW b \in (Loaded(s)').refs
    PROVE  \/ blob'[b] # "none"
           \/ (Loaded(s)').save < Loaded(s).save
           \/ (Loaded(s)').save = Loaded(s).save /\ blob[b] = "none"
<1>. DEFINE Goal == \/ blob'[b] # "none"
                    \/ (Loaded(s)').save < Loaded(s).save
                    \/ (Loaded(s)').save = Loaded(s).save /\ blob[b] = "none"
<1>a. /\ task \in [Task -> TaskType] /\ blob \in [Blob -> {"none", "fresh", "old"}]
      /\ plain \in [Session -> FileType] /\ packed \in [Session -> FileType] /\ saves \in Nat
      /\ plain' \in [Session -> FileType] /\ packed' \in [Session -> FileType]
  BY TypedStep, BoundsAssumption DEF Typed, TypeOK
<1>b. b \in Blob /\ Loaded(s).save \in Nat /\ (Loaded(s)').save \in Nat
  BY <1>a, BoundsAssumption DEF Loaded, FileType
<1>c. ASSUME (Loaded(s)').save = Loaded(s).save, blob'[b] = blob[b]
      PROVE  Goal
  BY <1>c
<1>d. ASSUME plain' = plain, packed' = packed
      PROVE  Loaded(s)' = Loaded(s)
  BY <1>d DEF Loaded
<1>e. ASSUME plain'[s] = plain[s], packed'[s] = packed[s] \/ IsFile(plain[s])
      PROVE  Loaded(s)' = Loaded(s)
  BY <1>e DEF Loaded
<1>1. ASSUME NEW t \in Task, CreateLock(t)
      PROVE  Goal
  BY <1>1, <1>c, <1>d DEF CreateLock, sessions
<1>2. ASSUME NEW t \in Task, StampLock(t)
      PROVE  Goal
  BY <1>2, <1>c, <1>d DEF StampLock, sessions
<1>3. ASSUME NEW t \in Task, JudgeLock(t)
      PROVE  Goal
  BY <1>3, <1>c, <1>d DEF JudgeLock, sessions
<1>4. ASSUME NEW t \in Task, ReapLock(t)
      PROVE  Goal
  BY <1>4, <1>c, <1>d DEF ReapLock, sessions
<1>5. ASSUME NEW t \in Task, SaveUnguarded(t)
      PROVE  Goal
  BY <1>5, <1>c, <1>d DEF SaveUnguarded, sessions
<1>6. ASSUME NEW t \in Task, SkipCollection(t)
      PROVE  Goal
  BY <1>6, <1>c, <1>d DEF SkipCollection, sessions
<1>7. ASSUME NEW t \in Task, NEW s_1 \in Session, Open(t, s_1)
      PROVE  Goal
  BY <1>7, <1>c, <1>d DEF Open, sessions
<1>8. ASSUME NEW t \in Task, Close(t)
      PROVE  Goal
  BY <1>8, <1>c, <1>d DEF Close, sessions
<1>9. ASSUME NEW t \in Task, NEW refs \in SUBSET Blob, BeginSave(t, refs)
      PROVE  Goal
  BY <1>9, <1>c, <1>d DEF BeginSave, sessions
<1>10. ASSUME NEW t \in Task, LookForBlob(t)
      PROVE  Goal
  <2>1. plain' = plain /\ packed' = packed
    BY <1>10 DEF LookForBlob, sessions
  <2>2. blob' = blob \/ blob'[b] \in {blob[b], "fresh"}
    BY <1>10, <1>a, <1>b DEF LookForBlob
  <2>. QED  BY <1>c, <1>d, <2>1, <2>2
<1>11. ASSUME NEW t \in Task, TouchBlob(t)
      PROVE  Goal
  <2>1. plain' = plain /\ packed' = packed /\ blob'[b] \in {blob[b], "fresh"}
    BY <1>11, <1>a, <1>b DEF TouchBlob, sessions
  <2>. QED  BY <1>c, <1>d, <2>1
<1>12. ASSUME NEW t \in Task, WriteSession(t)
      PROVE  Goal
  <2>1. /\ task[t].pc = "blobs" /\ task[t].todo = {} /\ packed' = packed /\ blob' = blob
        /\ plain'[s] = IF Handles(t, s) THEN File(saves, task[t].refs) ELSE plain[s]
    BY <1>12 DEF WriteSession
  <2>2. CASE Handles(t, s)
    <3>1. plain[s].save < saves
      BY <2>1, <2>2 DEF Handled, InHand
    <3>2. (Loaded(s)').refs = task[t].refs
      BY <1>a, <2>1, <2>2, <3>1 DEF Loaded, File, IsFile, NoFile, FileType
    <3>. QED  BY <2>1, <3>2 DEF BlobsStored, Stored
  <2>3. CASE ~Handles(t, s)
    BY <1>c, <1>e, <2>1, <2>3
  <2>. QED  BY <2>2, <2>3
<1>13. ASSUME NEW t \in Task, EndSave(t)
      PROVE  Goal
  <2>1. /\ plain' = plain /\ blob' = blob /\ task[t].pc = "unpack"
        /\ packed'[s] = packed[s] \/ Handles(t, s)
    BY <1>13 DEF EndSave
  <2>2. Handles(t, s) => IsFile(plain[s])
    BY <2>1 DEF Handled, InHand
  <2>. QED  BY <1>c, <1>e, <2>1, <2>2
<1>14. ASSUME NEW t \in Task, SaveFails(t)
      PROVE  Goal
  BY <1>14, <1>c, <1>d DEF SaveFails, sessions
<1>15. ASSUME NEW t \in Task, BeginSweep(t)
      PROVE  Goal
  BY <1>15, <1>c, <1>d DEF BeginSweep, sessions
<1>16. ASSUME NEW t \in Task, Look(t)
      PROVE  Goal
  BY <1>16, <1>c, <1>d DEF Look, sessions
<1>17. ASSUME NEW t \in Task, Claim(t)
      PROVE  Goal
  BY <1>17, <1>c, <1>d DEF Claim, sessions
<1>18. ASSUME NEW t \in Task, Purge(t)
      PROVE  Goal
  <2>1. blob' = blob /\ task[t].pc = "handle"
    BY <1>18 DEF Purge
  <2>2. PICK path \in Path : task[t].at = {path}
    BY <2>1 DEF Typed, Shape
  <2>3. /\ IsFile(At(path))
        /\ IF path[2] = "plain"
           THEN plain' = [plain EXCEPT ![path[1]] = NoFile] /\ packed' = packed
           ELSE packed' = [packed EXCEPT ![path[1]] = NoFile] /\ plain' = plain
    BY <1>18, <2>2 DEF Purge
  <2>4. CASE path[1] # s
    BY <1>a, <1>c, <1>e, <2>1, <2>3, <2>4
  <2>5. CASE path[1] = s /\ path[2] = "plain"
    <3>1. /\ IsFile(plain[s]) /\ plain'[s] = NoFile /\ packed'[s] = packed[s]
      BY <1>a, <2>3, <2>5 DEF At
    <3>2. Loaded(s)' = packed[s] /\ Loaded(s) = plain[s]
      BY <3>1 DEF Loaded, IsFile
    <3>3. IsFile(packed[s])
      BY <3>2 DEF IsFile, NoFile
    <3>4. packed[s].save <= plain[s].save /\ packed[s].save \in Nat /\ plain[s].save \in Nat
      BY <1>b, <3>1, <3>2, <3>3 DEF FilesOrdered
    <3>. QED  BY <2>1, <3>2, <3>4
  <2>6. CASE path[1] = s /\ path[2] # "plain"
    <3>1. CASE IsFile(plain[s])
      BY <1>c, <1>e, <2>1, <2>3, <2>6, <3>1
    <3>2. CASE ~IsFile(plain[s])
      <4>1. Loaded(s)' = NoFile
        BY <1>a, <2>3, <2>6, <3>2 DEF Loaded
      <4>. QED  BY <4>1 DEF NoFile
    <3>. QED  BY <3>1, <3>2
  <2>. QED  BY <2>4, <2>5, <2>6
<1>19. ASSUME NEW t \in Task, Pack(t)
      PROVE  Goal
  <2>1. PICK path \in task[t].at :
            /\ IsFile(plain[path[1]])
            /\ packed' = [packed EXCEPT ![path[1]] = plain[path[1]]]
    BY <1>19 DEF Pack
  <2>2. plain' = plain /\ blob' = blob
    BY <1>19 DEF Pack
  <2>3. CASE path[1] = s
    BY <1>c, <1>e, <2>1, <2>2, <2>3
  <2>4. CASE path[1] # s
    BY <1>a, <1>c, <1>e, <2>1, <2>2, <2>4
  <2>. QED  BY <2>3, <2>4
<1>20. ASSUME NEW t \in Task, DropPlain(t)
      PROVE  Goal
  <2>1. /\ packed' = packed /\ blob' = blob /\ task[t].pc = "drop"
        /\ plain'[s] = IF Handles(t, s) THEN NoFile ELSE plain[s]
    BY <1>20 DEF DropPlain
  <2>2. CASE Handles(t, s)
    <3>1. IsFile(plain[s]) /\ packed[s] = plain[s]
      BY <2>1, <2>2 DEF Handled, InHand
    <3>2. Loaded(s)' = Loaded(s)
      BY <2>1, <2>2, <3>1 DEF Loaded, IsFile
    <3>. QED  BY <1>c, <2>1, <3>2
  <2>3. CASE ~Handles(t, s)
    BY <1>c, <1>e, <2>1, <2>3
  <2>. QED  BY <2>2, <2>3
<1>21. ASSUME NEW t \in Task, LeaveAlone(t)
      PROVE  Goal
  BY <1>21, <1>c, <1>d DEF LeaveAlone, sessions
<1>22. ASSUME NEW t \in Task, EndSweep(t)
      PROVE  Goal
  BY <1>22, <1>c, <1>d DEF EndSweep, sessions
<1>23. ASSUME NEW t \in Task, List(t)
      PROVE  Goal
  BY <1>23, <1>c, <1>d DEF List, sessions
<1>24. ASSUME NEW t \in Task, Mark(t)
      PROVE  Goal
  BY <1>24, <1>c, <1>d DEF Mark, sessions
<1>25. ASSUME NEW t \in Task, Marked(t)
      PROVE  Goal
  BY <1>25, <1>c, <1>d DEF Marked, sessions
<1>26. ASSUME NEW t \in Task, LookAtBlob(t)
      PROVE  Goal
  BY <1>26, <1>c, <1>d DEF LookAtBlob, sessions
<1>27. ASSUME NEW t \in Task, Unlink(t)
      PROVE  Goal
  <2>1. /\ task[t].pc = "unlink" /\ plain' = plain /\ packed' = packed
        /\ blob' = [b_1 \in Blob |-> IF b_1 \in task[t].at THEN "none" ELSE blob[b_1]]
    BY <1>27 DEF Unlink, sessions
  <2>2. Loaded(s)' = Loaded(s)
    BY <1>d, <2>1
  <2>3. CASE b \notin task[t].at
    BY <1>b, <1>c, <2>1, <2>2, <2>3
  <2>4. CASE b \in task[t].at
    <3>1. blob[b] = "old"
      BY <2>1, <2>4 DEF BlobsStored, Stored
    <3>2. IsFile(Loaded(s)) /\ b \in Loaded(s).refs
      BY <2>2 DEF IsFile, NoFile
    <3>3. PICK path \in Listing :
              /\ path[1] = s /\ At(path) = Loaded(s)
              /\ path[2] = "packed" => ~IsFile(plain[s])
      <4>1. CASE IsFile(plain[s])
        <5>1. At(<<s, "plain">>) = Loaded(s)
          BY <4>1 DEF At, Loaded
        <5>. QED  BY <3>2, <5>1 DEF Listing, Path
      <4>2. CASE ~IsFile(plain[s])
        <5>1. At(<<s, "packed">>) = Loaded(s)
          BY <4>2 DEF At, Loaded
        <5>. QED  BY <3>2, <4>2, <5>1 DEF Listing, Path
      <4>. QED  BY <4>1, <4>2
    <3>4. b \in At(path).refs
      BY <3>2, <3>3
    <3>5. Spared(t, path, b)
      BY <2>1, <3>4 DEF NamedSpared
    <3>6. ~(path[2] = "packed" /\ Covered(path[1]))
      BY <3>3 DEF Covered
    <3>. QED  BY <2>1, <2>4, <3>1, <3>5, <3>6 DEF Spared
  <2>. QED  BY <2>3, <2>4
<1>28. ASSUME NEW t \in Task, EndCollection(t)
      PROVE  Goal
  BY <1>28, <1>c, <1>d DEF EndCollection, sessions
<1>29. ASSUME NEW t \in Task, Crash(t)
      PROVE  Goal
  BY <1>29, <1>c, <1>d DEF Crash, sessions
<1>30. ASSUME NEW t \in Task, Restart(t)
      PROVE  Goal
  BY <1>30, <1>c, <1>d DEF Restart, sessions
<1>31. ASSUME NEW s_1 \in Session, AgeSession(s_1)
      PROVE  Goal
  <2>1. /\ plain'[s] = plain[s] \/ plain'[s] = Aged(plain[s])
        /\ packed'[s] = packed[s] \/ packed'[s] = Aged(packed[s])
        /\ blob' = blob
    BY <1>31, <1>a DEF AgeSession
  <2>2. ASSUME NEW f \in FileType, NEW g, g = f \/ g = Aged(f)
        PROVE  (IsFile(g) <=> IsFile(f)) /\ g.save = f.save
    BY <2>2 DEF FileType, Aged, IsFile, NoFile, Older
  <2>3. /\ (IsFile(plain'[s]) <=> IsFile(plain[s])) /\ plain'[s].save = plain[s].save
        /\ packed'[s].save = packed[s].save
    BY <1>a, <2>1, <2>2
  <2>4. (Loaded(s)').save = Loaded(s).save
    BY <2>3 DEF Loaded
  <2>. QED  BY <1>c, <2>1, <2>4
<1>32. ASSUME NEW b_1 \in Blob, AgeBlob(b_1)
      PROVE  Goal
  <2>1. /\ plain' = plain /\ packed' = packed
        /\ blob'[b] = blob[b] \/ blob'[b] = "old"
    BY <1>32, <1>a DEF AgeBlob, sessions
  <2>. QED  BY <1>c, <1>d, <2>1
<1>33. CASE AgeLock
  BY <1>33, <1>c, <1>d DEF AgeLock, sessions
<1>34. CASE UNCHANGED vars
  BY <1>34, <1>c, <1>d DEF vars
<1>35. ASSUME NEW t \in Task, Reading(t)
      PROVE  Goal
  BY <1>35, <1>c, <1>d DEF Reading, LateEntry, LostEntry, sessions
<1>. QED
  BY <1>1, <1>2, <1>3, <1>4, <1>5, <1>6, <1>7, <1>8, <1>9, <1>10, <1>11, <1>12, <1>13, <1>14,
     <1>15, <1>16, <1>17, <1>18, <1>19, <1>20, <1>21, <1>22, <1>23, <1>24, <1>25, <1>26, <1>27,
     <1>28, <1>29, <1>30, <1>31, <1>32, <1>33, <1>34, <1>35
     DEF Next, Acquisition, Window, Sweep, Collect

-----------------------------------------------------------------------------
(* The theorems.                                                           *)

\* The initial states satisfy every invariant.
LEMMA Start ==
    ASSUME Init
    PROVE  Typed /\ LockKept /\ FilesOrdered /\ Handled /\ PurgesOld /\ BlobsStored /\ NamedSpared
<1>1. task = [t \in Task |-> Idle] /\ \A t \in Task : task[t] = Idle
  BY DEF Init
<1>2. Idle \in TaskType /\ Shape(Idle) /\ NoFile \in FileType
  BY BoundsAssumption DEF Idle, TaskType, Shape, NoFile, FileType
<1>3. Typed
  <2>1. TypeOK
    BY <1>1, <1>2, BoundsAssumption DEF Init, TypeOK, NoLock, LockFile, Handles, Idle
  <2>. QED  BY <1>1, <1>2, <2>1 DEF Typed
<1>4. LockKept
  BY <1>1 DEF Init, LockKept, NoLock, LockFile, Idle, Collecting
<1>5. FilesOrdered
  BY DEF Init, FilesOrdered, IsFile
<1>6. Handled /\ PurgesOld /\ BlobsStored /\ NamedSpared
  BY <1>1 DEF Handled, Handles, PurgesOld, BlobsStored, Stored, NamedSpared, Idle
<1>. QED  BY <1>3, <1>4, <1>5, <1>6

\* The types are kept.
LEMMA TypedAlways == Spec => []Typed
<1>1. Init => Typed
  BY Start
<1>. QED  BY <1>1, TypedStep, PTL DEF Spec

\* The variables keep their types, and a session's files are handled by the one task that
\* holds its open-lock.
THEOREM Types == Spec => []TypeOK
<1>1. Typed => TypeOK
  BY DEF Typed
<1>. QED  BY <1>1, TypedAlways, PTL

\* The lock's invariant is kept.
LEMMA LockAlways ==
    ASSUME "reapRace" \notin Allowed
    PROVE  Spec => []LockKept
<1>1. Init => LockKept
  BY Start
<1>2. Typed /\ LockKept /\ [Next]_vars => LockKept'
  BY LockStep
<1>. QED  BY <1>1, <1>2, TypedAlways, PTL DEF Spec

\* StoreLock::acquire and its drop exclude, however many windows save and sweep, crash and
\* start again, if two waiters never judge one stale lock.
THEOREM StoreLockExcludes ==
    ASSUME "reapRace" \notin Allowed
    PROVE  Spec => []StoreExclusion
<1>1. LockKept => StoreExclusion
  BY DEF LockKept, StoreExclusion, Guarded
<1>. QED  BY <1>1, LockAlways, PTL

\* The order of a session's files is kept.
LEMMA FilesAlways == Spec => [](FilesOrdered /\ Handled)
<1>1. Init => FilesOrdered /\ Handled
  BY Start
<1>2. Typed /\ (FilesOrdered /\ Handled) /\ [Next]_vars => (FilesOrdered /\ Handled)'
  BY FilesStep
<1>. QED  BY <1>1, <1>2, TypedAlways, PTL DEF Spec

\* What is about to be purged is old.
LEMMA OldAlways ==
    ASSUME "staleAge" \notin Allowed
    PROVE  Spec => []PurgesOld
<1>1. Init => PurgesOld
  BY Start
<1>2. Typed /\ PurgesOld /\ [Next]_vars => PurgesOld'
  BY PurgesOldStep
<1>. QED  BY <1>1, <1>2, TypedAlways, PTL DEF Spec

\* sweep_dir and compress_session_file lose no session that is in use or has a user's name,
\* and no load goes back to an earlier save, if the age a sweep read still holds when it
\* has the open-lock.
THEOREM SessionsAreKept ==
    ASSUME "staleAge" \notin Allowed
    PROVE  Spec => SessionsKept
<1>1. Typed /\ (FilesOrdered /\ Handled) /\ PurgesOld /\ [Next]_vars =>
          [\A s \in Session :
              IsFile(Loaded(s)) /\ (Loaded(s).age # "old" \/ s \in UserNamed)
              => IsFile(Loaded(s)') /\ Loaded(s)'.save >= Loaded(s).save]_vars
  BY LoadedKept
<1>. QED  BY <1>1, TypedAlways, FilesAlways, OldAlways, PTL DEF Spec, SessionsKept

\* collect_blob_garbage removes no attachment that a session names, if two waiters never
\* judge one stale lock, a save without the lock brings only attachments of its own, the
\* age a sweep read still holds, and of a session that is compressed while the collector
\* reads the directory one file or the other is returned.
THEOREM NamedBlobsAreKept ==
    ASSUME Allowed \cap {"reapRace", "reuse", "staleAge", "lazyList"} = {}
    PROVE  Spec => NamedBlobsKept
<1>a. /\ "reapRace" \notin Allowed /\ "reuse" \notin Allowed /\ "staleAge" \notin Allowed
      /\ "lazyList" \notin Allowed
  OBVIOUS
<1>1. Init => BlobsStored /\ NamedSpared
  BY Start
<1>2. Typed /\ LockKept /\ BlobsStored /\ [Next]_vars => BlobsStored'
  BY <1>a, StoredStep
<1>3. Typed /\ LockKept /\ (FilesOrdered /\ Handled) /\ PurgesOld /\ BlobsStored /\ NamedSpared
          /\ [Next]_vars => NamedSpared'
  BY <1>a, SparesStep
<1>4. Typed /\ LockKept /\ (FilesOrdered /\ Handled) /\ BlobsStored /\ NamedSpared /\ [Next]_vars =>
          [\A s \in Session : LET new == Loaded(s)' IN
              \A b \in new.refs : \/ blob'[b] # "none"
                                  \/ new.save < Loaded(s).save
                                  \/ new.save = Loaded(s).save /\ blob[b] = "none"]_vars
  BY NamedKept
<1>5. (Spec => []LockKept) /\ (Spec => []PurgesOld)
  BY <1>a, LockAlways, OldAlways
<1>. QED
  BY <1>1, <1>2, <1>3, <1>4, <1>5, TypedAlways, FilesAlways, PTL DEF Spec, NamedBlobsKept

=============================================================================
