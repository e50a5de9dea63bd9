------------------------ MODULE SavePipeline_proofs ------------------------
(***************************************************************************)
(* SavePipeline for every number of processes, sessions and messages: its  *)
(* types, and the rules that keep at most one save task running and every  *)
(* snapshot under its own session.                                         *)
(***************************************************************************)
EXTENDS SavePipeline, SequenceTheorems, TLAPS

(***************************************************************************)
(* Sequences and histories.                                                *)
(***************************************************************************)

\* What is left when one element is removed: the others, in their order.
LEMMA RemoveAtProperties ==
    ASSUME NEW S, NEW s \in Seq(S), NEW i \in 1..Len(s)
    PROVE  /\ RemoveAt(s, i) \in Seq(S)
           /\ Len(RemoveAt(s, i)) = Len(s) - 1
           /\ \A j \in 1..Len(s) - 1 :
                 RemoveAt(s, i)[j] = IF j < i THEN s[j] ELSE s[j + 1]
<1> DEFINE front == SubSeq(s, 1, i - 1)
           back == SubSeq(s, i + 1, Len(s))
<1>1. /\ front \in Seq(S) /\ Len(front) = i - 1
      /\ \A j \in 1..i - 1 : front[j] = s[j]
  BY SubSeqProperties, ElementOfSeq
<1>2. /\ back \in Seq(S) /\ Len(back) = Len(s) - i
      /\ \A j \in 1..Len(s) - i : back[j] = s[i + j]
  <2>1. Len(s) \in Nat
    BY LenProperties
  <2>2. /\ SubSeq(s, i + 1, Len(s)) \in Seq(S)
        /\ Len(SubSeq(s, i + 1, Len(s))) = IF i + 1 <= Len(s) THEN Len(s) - (i + 1) + 1 ELSE 0
        /\ \A j \in 1..Len(s) - (i + 1) + 1 : SubSeq(s, i + 1, Len(s))[j] = s[i + 1 + j - 1]
    <3>1. \A j \in i + 1 .. Len(s) : s[j] \in S
      BY <2>1, ElementOfSeq
    <3> QED
      BY <2>1, <3>1, SubSeqProperties
  <2> QED
    BY <2>1, <2>2
<1>3. RemoveAt(s, i) = front \o back
  BY DEF RemoveAt
<1> HIDE DEF front, back
<1>4. /\ RemoveAt(s, i) \in Seq(S)
      /\ Len(RemoveAt(s, i)) = Len(s) - 1
  BY <1>1, <1>2, <1>3, ConcatProperties, LenProperties
<1>5. ASSUME NEW j \in 1..Len(s) - 1
      PROVE  RemoveAt(s, i)[j] = IF j < i THEN s[j] ELSE s[j + 1]
  <2>1. Len(s) \in Nat
    BY LenProperties
  <2>2. (front \o back)[j] = IF j <= Len(front) THEN front[j] ELSE back[j - Len(front)]
    BY <1>1, <1>2, <2>1, ConcatProperties
  <2> QED
    BY <1>1, <1>2, <1>3, <2>1, <2>2
<1> QED
  BY <1>4, <1>5

LEMMA AnchorType ==
    ASSUME NEW h \in History
    PROVE  Anchor(h) \in Message \cup {NoAnchor}
<1>1. CASE h = << >>
  BY <1>1 DEF Anchor
<1>2. CASE h # << >>
  <2>1. Len(h) \in 1..Len(h)
    BY <1>2, EmptySeq DEF History
  <2> QED
    BY <1>2, <2>1, ElementOfSeq DEF Anchor, Last, History
<1> QED
  BY <1>1, <1>2

LEMMA FromType ==
    ASSUME NEW h \in History, NEW n \in Nat
    PROVE  From(h, n) \in History
<1>1. Len(h) \in Nat /\ \A i \in n + 1 .. Len(h) : h[i] \in Message
  BY LenProperties, ElementOfSeq DEF History
<1> QED
  BY <1>1, SubSeqProperties DEF From, History

LEMMA AdoptedType ==
    ASSUME NEW m \in History, NEW h \in History
    PROVE  Adopted(m, h) \in History
<1>1. Len(m) \in Nat
  BY LenProperties DEF History
<1>2. From(h, Len(m)) \in History
  BY <1>1, FromType
<1>3. m \o From(h, Len(m)) \in History
  BY <1>2, ConcatProperties DEF History
<1> QED
  BY <1>3 DEF Adopted

LEMMA RecoveredType ==
    ASSUME NEW h \in History, NEW r \in JournalType
    PROVE  Recovered(h, r) \in History
<1>1. r.tail \in History
  BY DEF JournalType
<1>2. h \o r.tail \in History
  BY <1>1, ConcatProperties DEF History
<1> QED
  BY <1>2 DEF Recovered

LEMMA MessageFacts ==
    /\ MaxMsg \in Nat /\ MaxMsg > 1
    /\ Sys \in Message
    /\ << >> \in History
    /\ Blank \in History
<1>1. MaxMsg \in Nat /\ MaxMsg > 1
  BY BoundsAssumption
<1>2. Sys \in Message
  BY <1>1 DEF Sys, Message
<1>3. << >> \in History /\ Blank \in History
  BY <1>2 DEF Blank, History
<1> QED
  BY <1>1, <1>2, <1>3

(***************************************************************************)
(* The UI thread's operators.                                              *)
(***************************************************************************)

\* A well-formed UI state: a snapshot that waits has a session and waits behind a
\* save in flight.
UiOK(u) ==
    /\ u \in UiType
    /\ u.pending # NoSnapshot => u.pending.sess \in Session /\ u.inFlight

\* A task as it is spawned.
NewTask(t) == t \in TaskType /\ t.stage = "write" /\ t.snap.sess = t.sess

\* What an operation on UI state u may leave: nothing is spawned while a save is in
\* flight, and a save is in flight once something is.
Fits(o, u) ==
    /\ UiOK(o.ui)
    /\ o.ui.phase = u.phase
    /\ \/ o.spawned = << >> /\ o.ui.inFlight = u.inFlight
       \/ /\ ~u.inFlight /\ o.ui.inFlight
          /\ \E t : NewTask(t) /\ o.spawned = <<t>>

LEMMA NoneTypes ==
    /\ NoSnapshot \in SnapshotType
    /\ NoCursor \in CursorType
    /\ FreshUi \in UiType /\ DownUi \in UiType
    /\ NoJournal \in JournalType /\ HeadlessJournal \in JournalType
<1>1. NoSnapshot \in SnapshotType
  BY MessageFacts DEF NoSnapshot, Snapshot, SnapshotType
<1>2. NoCursor \in CursorType
  BY DEF NoCursor, Cursor, CursorType, NoAnchor
<1>3. FreshUi \in UiType
  BY <1>1, <1>2, MessageFacts DEF FreshUi, UiType
<1>4. DownUi \in UiType
  BY <1>3 DEF DownUi, UiType
<1>5. NoJournal \in JournalType
  BY MessageFacts DEF NoJournal, JournalType, NoAnchor
<1>6. HeadlessJournal \in JournalType
  BY <1>5 DEF HeadlessJournal, JournalType
<1> QED
  BY <1>1, <1>2, <1>3, <1>4, <1>5, <1>6

LEMMA AfterFullSaveType ==
    ASSUME NEW s \in Session, NEW h \in History
    PROVE  AfterFullSave(s, h) \in CursorType
<1>1. Len(h) \in Nat /\ Anchor(h) \in Message \cup {NoAnchor}
  BY AnchorType, LenProperties DEF History
<1> QED
  BY <1>1 DEF AfterFullSave, Cursor, CursorType

LEMMA FullTaskIsNew ==
    ASSUME NEW snap \in SnapshotType, NEW s \in Session, snap.sess = s
    PROVE  NewTask(FullTask(snap, s))
BY MessageFacts DEF NewTask, FullTask, TaskType, NoAnchor

LEMMA AppendTaskIsNew ==
    ASSUME NEW snap \in SnapshotType, NEW c \in CursorType,
           c.sess \in Session, snap.sess = c.sess
    PROVE  NewTask(AppendTask(snap, c))
<1>1. snap.hist \in History /\ c.base \in Nat /\ c.written \in Nat
      /\ c.baseAnchor \in Message \cup {NoAnchor}
  BY DEF SnapshotType, CursorType
<1>2. From(snap.hist, c.written) \in History
  BY <1>1, FromType
<1> QED
  BY <1>1, <1>2 DEF NewTask, AppendTask, TaskType

LEMMA SpawnRoundFits ==
    ASSUME NEW u, UiOK(u), ~u.inFlight, u.sess \in Session,
           NEW snap \in SnapshotType, snap.sess = u.sess,
           u.cursor.sess = u.sess
    PROVE  Fits(SpawnRound(u, snap), u)
<1> DEFINE h == snap.hist
           c == u.cursor
<1>1. u \in UiType /\ c \in CursorType /\ h \in History
  BY DEF UiOK, UiType, SnapshotType
<1>2. CASE Len(h) = c.written
  <2> DEFINE v == [u EXCEPT !.pendingFull = FALSE]
  <2>1. SpawnRound(u, snap) = Outcome(v, << >>)
    BY <1>2 DEF SpawnRound
  <2>2. /\ v \in UiType /\ v.phase = u.phase /\ v.pending = u.pending
        /\ ~v.inFlight /\ v.inFlight = u.inFlight
    BY <1>1 DEF UiType
  <2> HIDE DEF v
  <2>3. UiOK(v)
    BY <2>2 DEF UiOK
  <2> QED
    BY <2>1, <2>2, <2>3 DEF Fits, Outcome
<1>3. CASE Len(h) # c.written
  <2> DEFINE v == [u EXCEPT !.inFlight = TRUE,
                            !.cursor.written = Len(h),
                            !.cursor.writtenAnchor = Anchor(h)]
  <2>1. SpawnRound(u, snap) = Outcome(v, <<AppendTask(snap, c)>>)
    BY <1>3 DEF SpawnRound
  <2>2. NewTask(AppendTask(snap, c))
    BY <1>1, AppendTaskIsNew
  <2>3. Len(h) \in Nat /\ Anchor(h) \in Message \cup {NoAnchor}
    BY <1>1, AnchorType, LenProperties DEF History
  <2>4. v \in UiType /\ v.inFlight /\ v.phase = u.phase /\ v.pending = u.pending
    BY <1>1, <2>3 DEF UiType, CursorType
  <2> HIDE DEF v
  <2>5. UiOK(v)
    BY <2>4 DEF UiOK
  <2> QED
    BY <2>1, <2>2, <2>4, <2>5 DEF Fits, Outcome
<1> QED
  BY <1>2, <1>3

LEMMA SpawnSaveFits ==
    ASSUME NEW u, UiOK(u), ~u.inFlight, u.sess \in Session,
           NEW snap \in SnapshotType, snap.sess = u.sess, NEW full \in BOOLEAN
    PROVE  Fits(SpawnSave(u, snap, full), u)
<1>1. CASE ~full /\ CanAppend(u.cursor, u.sess, snap.hist)
  <2>1. u.cursor.sess = u.sess
    BY <1>1 DEF CanAppend
  <2> QED
    BY <1>1, <2>1, SpawnRoundFits DEF SpawnSave
<1>2. CASE ~(~full /\ CanAppend(u.cursor, u.sess, snap.hist))
  <2> DEFINE v == [u EXCEPT !.inFlight = TRUE, !.cursor = AfterFullSave(u.sess, snap.hist)]
  <2>1. SpawnSave(u, snap, full) = Outcome(v, <<FullTask(snap, u.sess)>>)
    BY <1>2 DEF SpawnSave
  <2>2. u \in UiType /\ AfterFullSave(u.sess, snap.hist) \in CursorType
    BY AfterFullSaveType DEF UiOK, SnapshotType
  <2>3. v \in UiType /\ v.inFlight /\ v.phase = u.phase /\ v.pending = u.pending
    BY <2>2 DEF UiType
  <2> HIDE DEF v
  <2>4. UiOK(v)
    BY <2>3 DEF UiOK
  <2> QED
    BY <2>1, <2>3, <2>4, FullTaskIsNew DEF Fits, Outcome
<1> QED
  BY <1>1, <1>2

LEMMA EnqueueSaveFits ==
    ASSUME NEW u, UiOK(u), u.sess \in Session, NEW full \in BOOLEAN
    PROVE  Fits(EnqueueSave(u, full), u)
<1> DEFINE snap == Snapshot(u.sess, u.mirror)
<1>1. u \in UiType /\ snap \in SnapshotType /\ snap.sess = u.sess
  BY DEF UiOK, UiType, Snapshot, SnapshotType
<1>2. CASE u.inFlight
  <2> DEFINE v == [u EXCEPT !.pending = snap, !.pendingFull = @ \/ full]
  <2>1. EnqueueSave(u, full) = Outcome(v, << >>)
    BY <1>2 DEF EnqueueSave
  <2>2. v \in UiType
    BY <1>1 DEF UiType
  <2>3. v.pending = snap /\ v.inFlight /\ v.inFlight = u.inFlight /\ v.phase = u.phase
    BY <1>1, <1>2 DEF UiType
  <2> HIDE DEF v
  <2>4. UiOK(v)
    BY <1>1, <2>2, <2>3 DEF UiOK
  <2> QED
    BY <2>1, <2>3, <2>4 DEF Fits, Outcome
<1>3. CASE ~u.inFlight
  BY <1>1, <1>3, SpawnSaveFits DEF EnqueueSave
<1> QED
  BY <1>2, <1>3

LEMMA PromotePendingSaveFits ==
    ASSUME NEW u \in UiType, ~u.inFlight,
           u.pending # NoSnapshot => u.pending.sess \in Session
    PROVE  Fits(PromotePendingSave(u), u)
<1> DEFINE v == [u EXCEPT !.pending = NoSnapshot, !.pendingFull = FALSE]
<1>1. /\ v \in UiType /\ v.pending = NoSnapshot /\ v.sess = u.sess
      /\ v.phase = u.phase /\ v.inFlight = u.inFlight
  BY NoneTypes DEF UiType
<1> HIDE DEF v
<1>2. UiOK(v)
  BY <1>1 DEF UiOK
<1>3. CASE u.pending # NoSnapshot /\ u.pending.sess = u.sess
  <2>1. PromotePendingSave(u) = SpawnSave(v, u.pending, u.pendingFull)
    BY <1>3 DEF PromotePendingSave, v
  <2>2. u.pending \in SnapshotType /\ u.pendingFull \in BOOLEAN
    BY DEF UiType
  <2>3. Fits(SpawnSave(v, u.pending, u.pendingFull), v)
    BY <1>1, <1>2, <1>3, <2>2, SpawnSaveFits
  <2> QED
    BY <1>1, <2>1, <2>3 DEF Fits
<1>4. CASE ~(u.pending # NoSnapshot /\ u.pending.sess = u.sess)
  <2>1. PromotePendingSave(u) = Outcome(v, << >>)
    BY <1>4 DEF PromotePendingSave, v
  <2> QED
    BY <1>1, <1>2, <2>1 DEF Fits, Outcome
<1> QED
  BY <1>3, <1>4

LEMMA OnSaveDoneFits ==
    ASSUME NEW u, UiOK(u), NEW ok \in BOOLEAN
    PROVE  /\ UiOK(OnSaveDone(u, ok).ui)
           /\ OnSaveDone(u, ok).ui.phase = u.phase
           /\ \/ OnSaveDone(u, ok).spawned = << >>
              \/ /\ OnSaveDone(u, ok).ui.inFlight
                 /\ \E t : NewTask(t) /\ OnSaveDone(u, ok).spawned = <<t>>
<1> DEFINE v == [u EXCEPT !.inFlight = FALSE, !.cursor = IF ok THEN @ ELSE NoCursor]
<1>1. /\ v \in UiType /\ ~v.inFlight /\ v.phase = u.phase /\ v.pending = u.pending
  BY NoneTypes DEF UiOK, UiType
<1>2. OnSaveDone(u, ok) = PromotePendingSave(v)
  BY DEF OnSaveDone
<1> HIDE DEF v
<1>3. v.pending # NoSnapshot => v.pending.sess \in Session
  BY <1>1 DEF UiOK
<1>4. Fits(PromotePendingSave(v), v)
  BY <1>1, <1>3, PromotePendingSaveFits
<1> QED
  BY <1>1, <1>2, <1>4 DEF Fits

(***************************************************************************)
(* One process: its UI thread, its save tasks and its channel.  A save in  *)
(* flight is exactly one thing at a time: a task that has not reported, or *)
(* a report that the UI has not read.                                      *)
(***************************************************************************)

Saved(e) == e.kind = "saved"

Accounted(u, ts, ch) ==
    u.phase = "running" =>
        /\ \A i, j \in DOMAIN ts : Unreported(ts[i]) /\ Unreported(ts[j]) => i = j
        /\ \A i, j \in DOMAIN ch : Saved(ch[i]) /\ Saved(ch[j]) => i = j
        /\ \A i \in DOMAIN ts, j \in DOMAIN ch : ~(Unreported(ts[i]) /\ Saved(ch[j]))
        /\ (\E i \in DOMAIN ts : Unreported(ts[i])) => u.inFlight
        /\ (\E j \in DOMAIN ch : Saved(ch[j])) => u.inFlight

LocalOK(u, ts, ch) ==
    /\ UiOK(u) /\ ts \in Seq(TaskType) /\ ch \in Seq(EventType)
    /\ \A i \in DOMAIN ts : ts[i].snap.sess = ts[i].sess
    /\ Accounted(u, ts, ch)
    /\ u.phase = "down" => ts = << >> /\ ch = << >>

LEMMA LocalSame ==
    ASSUME NEW u, NEW ts, NEW ch, LocalOK(u, ts, ch),
           NEW v \in UiType, v.pending = u.pending, v.phase = u.phase,
           v.inFlight = u.inFlight
    PROVE  LocalOK(v, ts, ch)
BY DEF LocalOK, UiOK, Accounted

\* What joins the tasks when something is spawned, and when nothing is.
LEMMA SpawnedTasks ==
    ASSUME NEW ts \in Seq(TaskType), NEW spawned,
           spawned = << >> \/ \E t : NewTask(t) /\ spawned = <<t>>,
           \A i \in DOMAIN ts : ts[i].snap.sess = ts[i].sess
    PROVE  /\ ts \o spawned \in Seq(TaskType)
           /\ \A i \in DOMAIN (ts \o spawned) :
                 (ts \o spawned)[i].snap.sess = (ts \o spawned)[i].sess
           /\ \A i \in DOMAIN ts : i \in DOMAIN (ts \o spawned) /\ (ts \o spawned)[i] = ts[i]
           /\ \A i \in DOMAIN (ts \o spawned) :
                 \/ i \in DOMAIN ts
                 \/ spawned # << >> /\ i = Len(ts) + 1
<1>1. /\ spawned \in Seq(TaskType)
      /\ \A i \in 1..Len(spawned) : spawned[i].snap.sess = spawned[i].sess
      /\ Len(spawned) \in {0, 1} /\ (Len(spawned) = 1 => spawned # << >>)
  <2>1. CASE spawned = << >>
    BY <2>1
  <2>2. ASSUME NEW t, NewTask(t), spawned = <<t>>
        PROVE  <1>1!:
    <3>1. t \in TaskType /\ t.snap.sess = t.sess
      BY <2>2 DEF NewTask
    <3>2. Len(spawned) = 1 /\ spawned[1] = t /\ spawned # << >>
      BY <2>2
    <3>3. spawned \in Seq(TaskType)
      BY <2>2, <3>1
    <3> QED
      BY <3>1, <3>2, <3>3
  <2> QED
    BY <2>1, <2>2
<1>2. Len(spawned) \in {0, 1} /\ (Len(spawned) = 1 => spawned # << >>)
  BY <1>1
<1>3. Len(ts) \in Nat /\ DOMAIN ts = 1..Len(ts)
  BY LenProperties
<1>4. /\ ts \o spawned \in Seq(TaskType)
      /\ Len(ts \o spawned) = Len(ts) + Len(spawned)
      /\ \A i \in 1 .. Len(ts) + Len(spawned) :
            (ts \o spawned)[i] = IF i <= Len(ts) THEN ts[i] ELSE spawned[i - Len(ts)]
  BY <1>1, ConcatProperties
<1>5. DOMAIN (ts \o spawned) = 1 .. Len(ts) + Len(spawned)
  BY <1>4, LenProperties
<1>6. ASSUME NEW i \in DOMAIN (ts \o spawned)
      PROVE  (ts \o spawned)[i].snap.sess = (ts \o spawned)[i].sess
  <2>1. CASE i <= Len(ts)
    BY <1>3, <1>4, <1>5, <2>1
  <2>2. CASE i > Len(ts)
    BY <1>1, <1>2, <1>3, <1>4, <1>5, <2>2
  <2> QED
    BY <1>2, <1>3, <1>5, <2>1, <2>2
<1> QED
  BY <1>2, <1>3, <1>4, <1>5, <1>6

LEMMA LocalCommit ==
    ASSUME NEW u, NEW ts, NEW ch, LocalOK(u, ts, ch), u.phase # "down",
           NEW o, Fits(o, u)
    PROVE  LocalOK(o.ui, ts \o o.spawned, ch)
<1> DEFINE us == ts \o o.spawned
<1>1. CASE o.spawned = << >> /\ o.ui.inFlight = u.inFlight
  <2>1. us = ts
    BY <1>1, ConcatEmptySeq DEF LocalOK
  <2> QED
    BY <1>1, <2>1 DEF Fits, LocalOK, Accounted
<1>2. CASE ~u.inFlight /\ o.ui.inFlight /\ \E t : NewTask(t) /\ o.spawned = <<t>>
  <2>1. /\ us \in Seq(TaskType)
        /\ \A i \in DOMAIN us : us[i].snap.sess = us[i].sess
        /\ \A i \in DOMAIN ts : us[i] = ts[i]
        /\ \A i \in DOMAIN us : i \in DOMAIN ts \/ i = Len(ts) + 1
    <3>1. ts \in Seq(TaskType) /\ \A i \in DOMAIN ts : ts[i].snap.sess = ts[i].sess
      BY DEF LocalOK
    <3>2. o.spawned = << >> \/ \E t : NewTask(t) /\ o.spawned = <<t>>
      BY <1>2
    <3>3. /\ us \in Seq(TaskType)
          /\ \A i \in DOMAIN us : us[i].snap.sess = us[i].sess
          /\ \A i \in DOMAIN ts : i \in DOMAIN us /\ us[i] = ts[i]
          /\ \A i \in DOMAIN us : i \in DOMAIN ts \/ (o.spawned # << >> /\ i = Len(ts) + 1)
      BY <3>1, <3>2, SpawnedTasks, Zenon
    <3> QED
      BY <3>3
  <2> HIDE DEF us
  <2>2. Accounted(o.ui, us, ch)
    BY <1>2, <2>1 DEF Fits, LocalOK, Accounted
  <2> QED
    BY <2>1, <2>2 DEF Fits, LocalOK, us
<1> QED
  BY <1>1, <1>2 DEF Fits

\* An event other than a report joins the channel.
LEMMA LocalPost ==
    ASSUME NEW u, NEW ts, NEW ch, LocalOK(u, ts, ch), u.phase # "down",
           NEW e \in EventType, ~Saved(e)
    PROVE  LocalOK(u, ts, Append(ch, e))
<1>1. ch \in Seq(EventType)
  BY DEF LocalOK
<1> DEFINE ch2 == Append(ch, e)
<1>2. /\ ch2 \in Seq(EventType)
      /\ \A j \in DOMAIN ch2 : (j \in DOMAIN ch /\ ch2[j] = ch[j]) \/ ch2[j] = e
  <2>1. Len(ch) \in Nat /\ DOMAIN ch = 1..Len(ch)
    BY <1>1, LenProperties
  <2>2. /\ ch2 \in Seq(EventType) /\ Len(ch2) = Len(ch) + 1
        /\ \A j \in 1..Len(ch) : ch2[j] = ch[j]
        /\ ch2[Len(ch) + 1] = e
    BY <1>1, AppendProperties
  <2>3. DOMAIN ch2 = 1..Len(ch) + 1
    BY <2>2, LenProperties
  <2> HIDE DEF ch2
  <2> QED
    BY <2>1, <2>2, <2>3
<1> HIDE DEF ch2
<1>3. Accounted(u, ts, ch2)
  BY <1>2 DEF LocalOK, Accounted
<1> QED
  BY <1>2, <1>3 DEF LocalOK, ch2

\* What is left of the channel once its head is read.
LEMMA TailOfChannel ==
    ASSUME NEW ch \in Seq(EventType), ch # << >>
    PROVE  /\ Head(ch) \in EventType /\ Tail(ch) \in Seq(EventType)
           /\ 1 \in DOMAIN ch /\ ch[1] = Head(ch)
           /\ \A j \in DOMAIN Tail(ch) : /\ j + 1 \in DOMAIN ch /\ j + 1 # 1
                                         /\ Tail(ch)[j] = ch[j + 1]
<1>1. Len(ch) \in Nat \ {0} /\ DOMAIN ch = 1..Len(ch)
  BY EmptySeq, LenProperties
<1>2. /\ Head(ch) \in EventType /\ Tail(ch) \in Seq(EventType)
      /\ Len(Tail(ch)) = Len(ch) - 1
      /\ \A j \in 1 .. Len(Tail(ch)) : Tail(ch)[j] = ch[j + 1]
  BY HeadTailProperties
<1>3. DOMAIN Tail(ch) = 1 .. Len(ch) - 1
  BY <1>2, LenProperties
<1>4. 1 \in DOMAIN ch /\ ch[1] = Head(ch)
  BY <1>1
<1> QED
  BY <1>1, <1>2, <1>3, <1>4

\* The UI reads an event.
LEMMA LocalRead ==
    ASSUME NEW u, NEW ts, NEW ch, LocalOK(u, ts, ch), ch # << >>
    PROVE  LocalOK(u, ts, Tail(ch))
<1>1. ch \in Seq(EventType)
  BY DEF LocalOK
<1> DEFINE ch2 == Tail(ch)
<1>2. /\ ch2 \in Seq(EventType)
      /\ \A j \in DOMAIN ch2 : j + 1 \in DOMAIN ch /\ ch2[j] = ch[j + 1]
  BY <1>1, TailOfChannel
<1>3. DOMAIN ch2 \subseteq Nat
  BY <1>2, LenProperties
<1> HIDE DEF ch2
<1>4. Accounted(u, ts, ch2)
  <2>1. ASSUME NEW i \in DOMAIN ch2, NEW j \in DOMAIN ch2, u.phase = "running",
               Saved(ch2[i]), Saved(ch2[j])
        PROVE  i = j
    <3>1. i + 1 = j + 1
      BY <1>2, <2>1 DEF LocalOK, Accounted
    <3> QED
      BY <1>3, <3>1
  <2> QED
    BY <1>2, <2>1 DEF LocalOK, Accounted
<1> QED
  BY <1>2, <1>4 DEF LocalOK, ch2

\* The UI reads a report: the save that was in flight is accounted for, and the
\* snapshot that waited may go.
LEMMA LocalReport ==
    ASSUME NEW u, NEW ts, NEW ch, LocalOK(u, ts, ch),
           ch # << >>, Saved(Head(ch)), u.phase = "running", NEW ok \in BOOLEAN
    PROVE  LocalOK(OnSaveDone(u, ok).ui, ts \o OnSaveDone(u, ok).spawned, Tail(ch))
<1> DEFINE o == OnSaveDone(u, ok)
           us == ts \o o.spawned
           ch2 == Tail(ch)
<1>1. /\ UiOK(o.ui) /\ o.ui.phase = "running"
      /\ \/ o.spawned = << >>
         \/ o.ui.inFlight /\ \E t : NewTask(t) /\ o.spawned = <<t>>
  BY OnSaveDoneFits DEF LocalOK
<1>2. ts \in Seq(TaskType) /\ ch \in Seq(EventType)
      /\ \A i \in DOMAIN ts : ts[i].snap.sess = ts[i].sess
  BY DEF LocalOK
<1> HIDE DEF o
<1>3. /\ us \in Seq(TaskType)
      /\ \A i \in DOMAIN us : us[i].snap.sess = us[i].sess
      /\ \A i \in DOMAIN ts : i \in DOMAIN us /\ us[i] = ts[i]
      /\ \A i \in DOMAIN us : i \in DOMAIN ts \/ (o.spawned # << >> /\ i = Len(ts) + 1)
  <2>1. o.spawned = << >> \/ \E t : NewTask(t) /\ o.spawned = <<t>>
    BY <1>1
  <2> QED
    BY <1>2, <2>1, SpawnedTasks, Zenon
<1>4. /\ ch2 \in Seq(EventType)
      /\ 1 \in DOMAIN ch /\ ch[1] = Head(ch)
      /\ \A j \in DOMAIN ch2 : j + 1 \in DOMAIN ch /\ j + 1 # 1 /\ ch2[j] = ch[j + 1]
  BY <1>2, TailOfChannel
<1> HIDE DEF us, ch2
<1>5. \A j \in DOMAIN ch2 : ~Saved(ch2[j])
  BY <1>4 DEF LocalOK, Accounted
<1>6. \A i \in DOMAIN ts : ~Unreported(ts[i])
  BY <1>4 DEF LocalOK, Accounted
<1>7. \A i \in DOMAIN us : Unreported(us[i]) => o.spawned # << >> /\ i = Len(ts) + 1
  BY <1>3, <1>6
<1>8. Accounted(o.ui, us, ch2)
  BY <1>1, <1>5, <1>7 DEF Accounted
<1> QED
  BY <1>1, <1>3, <1>4, <1>8 DEF LocalOK, o, us, ch2

\* A task takes a step of its own and is the more reported for it.
LEMMA LocalTask ==
    ASSUME NEW u, NEW ts, NEW ch, LocalOK(u, ts, ch),
           NEW i \in DOMAIN ts, NEW t \in TaskType,
           t.snap.sess = t.sess, Unreported(t) => Unreported(ts[i])
    PROVE  LocalOK(u, [ts EXCEPT ![i] = t], ch)
<1> DEFINE us == [ts EXCEPT ![i] = t]
<1>1. ts \in Seq(TaskType) /\ DOMAIN ts = 1..Len(ts)
  BY LenProperties DEF LocalOK
<1>2. /\ us \in Seq(TaskType) /\ DOMAIN us = DOMAIN ts
      /\ \A j \in DOMAIN ts : us[j] = IF j = i THEN t ELSE ts[j]
  BY <1>1, ExceptSeq
<1> HIDE DEF us
<1>3. \A j \in DOMAIN us : us[j].snap.sess = us[j].sess
  BY <1>2 DEF LocalOK
<1>4. \A j \in DOMAIN us : Unreported(us[j]) => Unreported(ts[j])
  BY <1>2
<1>5. Accounted(u, us, ch)
  BY <1>2, <1>4 DEF LocalOK, Accounted
<1>6. u.phase # "down"
  BY <1>1 DEF LocalOK
<1> QED
  BY <1>2, <1>3, <1>5, <1>6 DEF LocalOK, us

\* A task reports.
LEMMA LocalSend ==
    ASSUME NEW u, NEW ts, NEW ch, LocalOK(u, ts, ch),
           NEW i \in DOMAIN ts, Unreported(ts[i]), NEW t \in TaskType,
           t.snap.sess = t.sess, ~Unreported(t), NEW e \in EventType, Saved(e)
    PROVE  LocalOK(u, [ts EXCEPT ![i] = t], Append(ch, e))
<1> DEFINE us == [ts EXCEPT ![i] = t]
           ch2 == Append(ch, e)
<1>1. /\ ts \in Seq(TaskType) /\ DOMAIN ts = 1..Len(ts)
      /\ ch \in Seq(EventType) /\ Len(ch) \in Nat /\ DOMAIN ch = 1..Len(ch)
  BY LenProperties DEF LocalOK
<1>2. /\ us \in Seq(TaskType) /\ DOMAIN us = DOMAIN ts
      /\ \A j \in DOMAIN ts : us[j] = IF j = i THEN t ELSE ts[j]
  BY <1>1, ExceptSeq
<1>3. /\ ch2 \in Seq(EventType)
      /\ \A j \in DOMAIN ch2 : \/ j \in DOMAIN ch /\ ch2[j] = ch[j]
                               \/ j = Len(ch) + 1
  <2>1. /\ ch2 \in Seq(EventType) /\ Len(ch2) = Len(ch) + 1
        /\ \A j \in 1..Len(ch) : ch2[j] = ch[j]
    BY <1>1, AppendProperties
  <2>2. DOMAIN ch2 = 1..Len(ch) + 1
    BY <2>1, LenProperties
  <2> HIDE DEF ch2
  <2> QED
    BY <1>1, <2>1, <2>2
<1> HIDE DEF us, ch2
<1>4. \A j \in DOMAIN us : us[j].snap.sess = us[j].sess
  BY <1>2 DEF LocalOK
<1>5. u.phase # "down"
  BY <1>1 DEF LocalOK
<1>6. CASE u.phase = "running"
  <2>1. u.inFlight /\ \A j \in DOMAIN ch : ~Saved(ch[j])
    BY <1>6 DEF LocalOK, Accounted
  <2>2. \A j \in DOMAIN us : ~Unreported(us[j])
    BY <1>2, <1>6 DEF LocalOK, Accounted
  <2>3. Accounted(u, us, ch2)
    BY <1>3, <2>1, <2>2 DEF Accounted
  <2> QED
    BY <1>2, <1>3, <1>4, <1>5, <2>3 DEF LocalOK, us, ch2
<1>7. CASE u.phase # "running"
  BY <1>2, <1>3, <1>4, <1>5, <1>7 DEF LocalOK, Accounted, us, ch2
<1> QED
  BY <1>6, <1>7

\* A task that has reported is gone.
LEMMA LocalEnd ==
    ASSUME NEW u, NEW ts, NEW ch, LocalOK(u, ts, ch), NEW i \in DOMAIN ts
    PROVE  LocalOK(u, RemoveAt(ts, i), ch)
<1> DEFINE us == RemoveAt(ts, i)
<1>1. ts \in Seq(TaskType) /\ Len(ts) \in Nat /\ DOMAIN ts = 1..Len(ts)
  BY LenProperties DEF LocalOK
<1>2. /\ us \in Seq(TaskType) /\ Len(us) = Len(ts) - 1
      /\ \A j \in 1..Len(ts) - 1 : us[j] = IF j < i THEN ts[j] ELSE ts[j + 1]
  BY <1>1, RemoveAtProperties
<1>3. DOMAIN us = 1..Len(ts) - 1
  BY <1>2, LenProperties
<1> DEFINE at(j) == IF j < i THEN j ELSE j + 1
<1> HIDE DEF us
<1>4. \A j \in DOMAIN us : at(j) \in DOMAIN ts /\ us[j] = ts[at(j)]
  BY <1>1, <1>2, <1>3
<1>5. \A j, k \in DOMAIN us : at(j) = at(k) => j = k
  BY <1>1, <1>3
<1> HIDE DEF at
<1>6. Accounted(u, us, ch)
  BY <1>4, <1>5 DEF LocalOK, Accounted
<1>7. \A j \in DOMAIN us : us[j].snap.sess = us[j].sess
  BY <1>4 DEF LocalOK
<1>8. u.phase # "down"
  BY <1>1 DEF LocalOK
<1> QED
  BY <1>2, <1>6, <1>7, <1>8 DEF LocalOK, us

LEMMA LocalFresh ==
    /\ LocalOK(FreshUi, << >>, << >>)
    /\ LocalOK(DownUi, << >>, << >>)
<1>1. FreshUi.pending = NoSnapshot /\ DownUi.pending = NoSnapshot
  BY DEF FreshUi, DownUi
<1>2. UiOK(FreshUi) /\ UiOK(DownUi)
  BY <1>1, NoneTypes DEF UiOK
<1>3. << >> \in Seq(TaskType) /\ << >> \in Seq(EventType)
  OBVIOUS
<1> QED
  BY <1>2, <1>3 DEF LocalOK, Accounted

(***************************************************************************)
(* All processes together.                                                 *)
(***************************************************************************)

\* The types of what the processes share or keep beside their pipeline.
SharedOK ==
    /\ json \in [Session -> History]
    /\ rounds \in [Session -> JournalType]
    /\ owner \in [Session -> Proc \cup {NoProc}]
    /\ nextMsg \in 1..MaxMsg + 1 /\ fails \in 0..MaxFail /\ starts \in 0..MaxStart
    /\ agent \in [Proc -> History]
    /\ turn \in [Proc -> {"idle", "running", "unseen", "aborting"}]
    /\ permit \in [Proc -> BOOLEAN]

PipelinesOK ==
    /\ ui \in [Proc -> UiType]
    /\ tasks \in [Proc -> Seq(TaskType)]
    /\ chan \in [Proc -> Seq(EventType)]
    /\ \A p \in Proc : LocalOK(ui[p], tasks[p], chan[p])

\* The inductive invariant.
IInv == SharedOK /\ PipelinesOK

LEMMA ExceptSame ==
    ASSUME NEW S, NEW T, NEW f \in [S -> T], NEW p \in S
    PROVE  f = [f EXCEPT ![p] = f[p]]
OBVIOUS

\* A step of process p's pipeline leaves every other one alone.
LEMMA OneProcessMoves ==
    ASSUME PipelinesOK, NEW p \in Proc, NEW u, NEW ts, NEW ch, LocalOK(u, ts, ch),
           ui' = [ui EXCEPT ![p] = u],
           tasks' = [tasks EXCEPT ![p] = ts],
           chan' = [chan EXCEPT ![p] = ch]
    PROVE  PipelinesOK'
<1>1. u \in UiType /\ ts \in Seq(TaskType) /\ ch \in Seq(EventType)
  BY DEF LocalOK, UiOK
<1>2. /\ ui' \in [Proc -> UiType]
      /\ tasks' \in [Proc -> Seq(TaskType)]
      /\ chan' \in [Proc -> Seq(EventType)]
  BY <1>1 DEF PipelinesOK
<1>3. ASSUME NEW q \in Proc
      PROVE  LocalOK(ui'[q], tasks'[q], chan'[q])
  <2>1. CASE q = p
    BY <2>1 DEF PipelinesOK
  <2>2. CASE q # p
    <3>1. ui'[q] = ui[q] /\ tasks'[q] = tasks[q] /\ chan'[q] = chan[q]
      BY <2>2 DEF PipelinesOK
    <3> QED
      BY <3>1 DEF PipelinesOK
  <2> QED
    BY <2>1, <2>2
<1> QED
  BY <1>2, <1>3 DEF PipelinesOK

\* The same when only the UI's state and its tasks move, through Commits.
LEMMA CommitMoves ==
    ASSUME PipelinesOK, NEW p \in Proc, NEW o, NEW ch,
           LocalOK(o.ui, tasks[p] \o o.spawned, ch),
           Commits(p, o), chan' = [chan EXCEPT ![p] = ch]
    PROVE  PipelinesOK'
<1>1. /\ ui' = [ui EXCEPT ![p] = o.ui]
      /\ tasks' = [tasks EXCEPT ![p] = tasks[p] \o o.spawned]
  BY DEF Commits
<1> QED
  BY <1>1, OneProcessMoves

LEMMA ChannelStays ==
    ASSUME PipelinesOK, NEW p \in Proc, UNCHANGED chan
    PROVE  chan' = [chan EXCEPT ![p] = chan[p]]
BY ExceptSame DEF PipelinesOK

\* Persist, given that the UI state it is handed is well-formed and differs from
\* the current one in nothing the pipeline accounts for.
LEMMA PersistMoves ==
    ASSUME IInv, NEW p \in Proc, NEW v, NEW ch, NEW full \in BOOLEAN,
           LocalOK(v, tasks[p], ch), v.phase # "down",
           Persist(p, v, full), chan' = [chan EXCEPT ![p] = ch]
    PROVE  /\ PipelinesOK'
           /\ json' \in [Session -> History]
           /\ rounds' \in [Session -> JournalType]
           /\ owner' \in [Session -> Proc \cup {NoProc}]
<1>1. UiOK(v) /\ v \in UiType
  BY DEF LocalOK, UiOK
<1>2. CASE /\ v.sess # NoSession
           /\ Commits(p, EnqueueSave(v, full))
           /\ UNCHANGED <<files, owner>>
  <2>1. v.sess \in Session
    BY <1>1, <1>2 DEF UiType
  <2>2. LocalOK(EnqueueSave(v, full).ui, tasks[p] \o EnqueueSave(v, full).spawned, ch)
    BY <1>1, <2>1, EnqueueSaveFits, LocalCommit
  <2> QED
    BY <1>2, <2>2, CommitMoves DEF IInv, SharedOK, files
<1>3. ASSUME NEW s \in Session, FirstSave(p, v, s)
      PROVE  /\ PipelinesOK'
             /\ json' \in [Session -> History]
             /\ rounds' \in [Session -> JournalType]
             /\ owner' \in [Session -> Proc \cup {NoProc}]
  <2> DEFINE w == [v EXCEPT !.sess = s, !.cursor = AfterFullSave(s, v.mirror)]
  <2>1. v.mirror \in History /\ AfterFullSave(s, v.mirror) \in CursorType
    BY <1>1, AfterFullSaveType DEF UiType
  <2>2. /\ w \in UiType /\ w.pending = v.pending /\ w.phase = v.phase
        /\ w.inFlight = v.inFlight
    BY <1>1, <2>1 DEF UiType
  <2>3. Commits(p, Outcome(w, << >>))
    BY <1>3 DEF FirstSave
  <2> HIDE DEF w
  <2>4. LocalOK(w, tasks[p], ch)
    BY <2>2, LocalSame
  <2>5. tasks[p] \o << >> = tasks[p]
    BY ConcatEmptySeq DEF IInv, PipelinesOK
  <2>6. LocalOK(Outcome(w, << >>).ui, tasks[p] \o Outcome(w, << >>).spawned, ch)
    BY <2>4, <2>5 DEF Outcome
  <2>7. PipelinesOK'
    BY <2>3, <2>6, CommitMoves DEF IInv
  <2> QED
    BY <1>3, <2>1, <2>7, NoneTypes DEF FirstSave, IInv, SharedOK
<1>4. CASE Commits(p, Outcome(v, << >>)) /\ UNCHANGED <<files, owner>>
  <2>1. tasks[p] \o << >> = tasks[p]
    BY ConcatEmptySeq DEF IInv, PipelinesOK
  <2>2. LocalOK(Outcome(v, << >>).ui, tasks[p] \o Outcome(v, << >>).spawned, ch)
    BY <2>1 DEF Outcome
  <2> QED
    BY <1>4, <2>2, CommitMoves DEF IInv, SharedOK, files
<1> QED
  BY <1>2, <1>3, <1>4 DEF Persist

\* A handler that spawns nothing.
LEMMA NothingSpawned ==
    ASSUME IInv, NEW p \in Proc, NEW v, NEW ch, LocalOK(v, tasks[p], ch),
           Commits(p, Outcome(v, << >>)), chan' = [chan EXCEPT ![p] = ch]
    PROVE  PipelinesOK'
<1>1. tasks[p] \o << >> = tasks[p]
  BY ConcatEmptySeq DEF IInv, PipelinesOK
<1>2. LocalOK(Outcome(v, << >>).ui, tasks[p] \o Outcome(v, << >>).spawned, ch)
  BY <1>1 DEF Outcome
<1> QED
  BY <1>2, CommitMoves DEF IInv

LEMMA AutosaveMoves ==
    ASSUME IInv, NEW p \in Proc, NEW v, NEW ch, NEW free \in BOOLEAN,
           LocalOK(v, tasks[p], ch), v.phase # "down",
           Autosave(p, v, free), chan' = [chan EXCEPT ![p] = ch]
    PROVE  /\ PipelinesOK'
           /\ json' \in [Session -> History]
           /\ rounds' \in [Session -> JournalType]
           /\ owner' \in [Session -> Proc \cup {NoProc}]
<1>1. CASE free
  <2> DEFINE w == [v EXCEPT !.mirror = agent[p]]
  <2>1. /\ w \in UiType /\ w.pending = v.pending /\ w.phase = v.phase
        /\ w.inFlight = v.inFlight
    BY DEF LocalOK, UiOK, UiType, IInv, SharedOK
  <2>2. Persist(p, w, TRUE)
    BY <1>1 DEF Autosave
  <2> HIDE DEF w
  <2>3. LocalOK(w, tasks[p], ch)
    BY <2>1, LocalSame
  <2> QED
    BY <2>1, <2>2, <2>3, PersistMoves
<1>2. CASE ~free
  <2>1. Commits(p, Outcome(v, << >>)) /\ UNCHANGED <<files, owner>>
    BY <1>2 DEF Autosave
  <2> QED
    BY <2>1, NothingSpawned DEF IInv, SharedOK, files
<1> QED
  BY <1>1, <1>2

LEMMA HistoryGrows ==
    ASSUME NEW h \in History, NEW m \in Message
    PROVE  Append(h, m) \in History
BY AppendProperties DEF History

LEMMA NextMessage ==
    ASSUME IInv, TakesMessage
    PROVE  nextMsg \in Message /\ nextMsg' \in 1..MaxMsg + 1
<1>1. MaxMsg \in Nat /\ nextMsg \in 1..MaxMsg + 1 /\ nextMsg <= MaxMsg
  BY MessageFacts DEF IInv, SharedOK, TakesMessage, Fresh
<1> QED
  BY <1>1 DEF Message, TakesMessage

LEMMA CancelTurnMoves ==
    ASSUME IInv, NEW p \in Proc, NEW v, NEW ch,
           LocalOK(v, tasks[p], ch), v.phase # "down",
           CancelTurn(p, v), chan' = [chan EXCEPT ![p] = ch]
    PROVE  /\ PipelinesOK'
           /\ json' \in [Session -> History]
           /\ rounds' \in [Session -> JournalType]
           /\ owner' \in [Session -> Proc \cup {NoProc}]
           /\ turn' \in [Proc -> {"idle", "running", "unseen", "aborting"}]
<1> DEFINE w == [v EXCEPT !.handle = FALSE]
<1>1. /\ w \in UiType /\ w.pending = v.pending /\ w.phase = v.phase
      /\ w.inFlight = v.inFlight
  BY DEF LocalOK, UiOK, UiType
<1>2. PICK free \in BOOLEAN :
          /\ turn' = [turn EXCEPT ![p] = IF free THEN "idle" ELSE "aborting"]
          /\ Autosave(p, w, free)
  BY DEF CancelTurn
<1> HIDE DEF w
<1>3. LocalOK(w, tasks[p], ch)
  BY <1>1, LocalSame
<1>4. turn' \in [Proc -> {"idle", "running", "unseen", "aborting"}]
  BY <1>2 DEF IInv, SharedOK
<1>5. w.phase # "down"
  BY <1>1
<1>6. /\ PipelinesOK'
      /\ json' \in [Session -> History]
      /\ rounds' \in [Session -> JournalType]
      /\ owner' \in [Session -> Proc \cup {NoProc}]
  BY <1>2, <1>3, <1>5, AutosaveMoves
<1> QED
  BY <1>4, <1>6

\* The agent task.
LEMMA AgentTaskStep ==
    ASSUME IInv, NEW p \in Proc, AgentTask(p)
    PROVE  IInv'
<1>1. LocalOK(ui[p], tasks[p], chan[p]) /\ agent[p] \in History
  BY DEF IInv, PipelinesOK, SharedOK
<1>2. CASE AgentRound(p)
  <2> DEFINE h == Append(agent[p], nextMsg)
             e == Event("history", h, TRUE)
  <2>1. h \in History /\ nextMsg' \in 1..MaxMsg + 1
    BY <1>1, <1>2, HistoryGrows, NextMessage DEF AgentRound
  <2>2. agent' = [agent EXCEPT ![p] = h] /\ agent'[p] = h
    BY <1>2 DEF AgentRound, IInv, SharedOK
  <2>3. chan' = [chan EXCEPT ![p] = Append(chan[p], e)]
    BY <1>2, <2>2 DEF AgentRound
  <2>4. e \in EventType /\ ~Saved(e)
    BY <2>1 DEF Event, EventType, Saved
  <2>5. ui[p].phase # "down"
    BY <1>2 DEF AgentRound, AgentRuns
  <2> HIDE DEF h, e
  <2>6. LocalOK(ui[p], tasks[p], Append(chan[p], e))
    BY <1>1, <2>4, <2>5, LocalPost
  <2>7. ui' = [ui EXCEPT ![p] = ui[p]] /\ tasks' = [tasks EXCEPT ![p] = tasks[p]]
    BY <1>2, ExceptSame DEF AgentRound, IInv, PipelinesOK
  <2>8. PipelinesOK'
    BY <2>3, <2>6, <2>7, OneProcessMoves DEF IInv
  <2> QED
    BY <1>2, <2>1, <2>2, <2>8 DEF AgentRound, IInv, SharedOK, files
<1>3. CASE AgentNote(p)
  <2>1. Len(agent[p]) \in 1..Len(agent[p])
    BY <1>1, <1>3, LenProperties DEF AgentNote, History
  <2>2. nextMsg \in Message /\ nextMsg' \in 1..MaxMsg + 1
    BY <1>3, NextMessage DEF AgentNote
  <2>3. [agent[p] EXCEPT ![Len(agent[p])] = nextMsg] \in History
    BY <1>1, <2>1, <2>2, ExceptSeq DEF History
  <2>4. agent' \in [Proc -> History]
    BY <1>3, <2>3 DEF AgentNote, IInv, SharedOK
  <2> QED
    BY <1>3, <2>2, <2>4 DEF AgentNote, IInv, SharedOK, PipelinesOK, files
<1>4. CASE AgentCompact(p)
  <2>1. nextMsg \in Message /\ nextMsg' \in 1..MaxMsg + 1
    BY <1>4, NextMessage DEF AgentCompact
  <2>2. PICK n \in CompactHeads :
            agent' = [agent EXCEPT ![p] = <<Sys, nextMsg>> \o From(@, n + 1)]
    BY <1>4 DEF AgentCompact
  <2>3. n + 1 \in Nat
    BY BoundsAssumption
  <2>4. From(agent[p], n + 1) \in History /\ <<Sys, nextMsg>> \in History
    <3>1. From(agent[p], n + 1) \in History
      BY <1>1, <2>3, FromType
    <3>2. <<Sys, nextMsg>> \in Seq(Message)
      BY <2>1, MessageFacts
    <3> QED
      BY <3>1, <3>2 DEF History
  <2>5. <<Sys, nextMsg>> \o From(agent[p], n + 1) \in History
    BY <2>4, ConcatProperties DEF History
  <2>6. agent' \in [Proc -> History]
    BY <2>2, <2>5 DEF IInv, SharedOK
  <2> QED
    BY <1>4, <2>1, <2>6 DEF AgentCompact, IInv, SharedOK, PipelinesOK, files
<1>5. CASE TurnEnds(p)
  <2> DEFINE e == Event("done", << >>, TRUE)
  <2>1. e \in EventType /\ ~Saved(e)
    BY MessageFacts DEF Event, EventType, Saved
  <2>2. chan' = [chan EXCEPT ![p] = Append(chan[p], e)]
    BY <1>5 DEF TurnEnds
  <2>3. ui[p].phase # "down"
    BY <1>5 DEF TurnEnds, AgentRuns
  <2> HIDE DEF e
  <2>4. LocalOK(ui[p], tasks[p], Append(chan[p], e))
    BY <1>1, <2>1, <2>3, LocalPost
  <2>5. ui' = [ui EXCEPT ![p] = ui[p]] /\ tasks' = [tasks EXCEPT ![p] = tasks[p]]
    BY <1>5, ExceptSame DEF TurnEnds, IInv, PipelinesOK
  <2>6. PipelinesOK'
    BY <2>2, <2>4, <2>5, OneProcessMoves DEF IInv
  <2>7. agent' \in [Proc -> History] /\ nextMsg' \in 1..MaxMsg + 1
    <3>1. CASE TakesMessage /\ agent' = [agent EXCEPT ![p] = Append(@, nextMsg)]
      <4>1. Append(agent[p], nextMsg) \in History /\ nextMsg' \in 1..MaxMsg + 1
        BY <1>1, <3>1, HistoryGrows, NextMessage
      <4> QED
        BY <3>1, <4>1 DEF IInv, SharedOK
    <3>2. CASE UNCHANGED <<nextMsg, agent>>
      BY <3>2 DEF IInv, SharedOK
    <3> QED
      BY <1>5, <3>1, <3>2 DEF TurnEnds
  <2> QED
    BY <1>5, <2>6, <2>7 DEF TurnEnds, IInv, SharedOK, files
<1>6. CASE AbortLands(p)
  BY <1>6 DEF AbortLands, IInv, SharedOK, PipelinesOK, files, budget
<1> QED
  BY <1>2, <1>3, <1>4, <1>5, <1>6 DEF AgentTask

\* The user.
LEMMA UserStep ==
    ASSUME IInv, NEW p \in Proc, User(p)
    PROVE  IInv'
<1>1. /\ LocalOK(ui[p], tasks[p], chan[p]) /\ ui[p] \in UiType
      /\ agent[p] \in History /\ turn[p] \in {"idle", "running", "unseen", "aborting"}
  BY DEF IInv, PipelinesOK, SharedOK
<1>2. CASE Submit(p)
  <2> DEFINE u == [ui[p] EXCEPT !.handle = TRUE]
             m == Append(u.mirror, nextMsg)
  <2>1. nextMsg \in Message /\ nextMsg' \in 1..MaxMsg + 1
    BY <1>2, NextMessage DEF Submit
  <2>2. Append(agent[p], nextMsg) \in History
    BY <1>1, <2>1, HistoryGrows
  <2>3. /\ u \in UiType /\ u.pending = ui[p].pending /\ u.phase = ui[p].phase
        /\ u.inFlight = ui[p].inFlight /\ u.mirror \in History
    BY <1>1 DEF UiType
  <2>4. m \in History
    BY <2>1, <2>3, HistoryGrows
  <2>5. ui[p].phase = "running"
    BY <1>2 DEF Submit, MaySubmit, Accepts
  <2>6. \/ /\ Commits(p, Outcome(u, << >>))
           /\ UNCHANGED owner
        \/ \E s \in Session :
              /\ owner' = [owner EXCEPT ![s] = p]
              /\ Commits(p, EnqueueSave([u EXCEPT !.sess = s, !.mirror = m], TRUE))
    BY <1>2 DEF Submit
  <2>7. chan' = [chan EXCEPT ![p] = chan[p]]
    BY <1>2, ChannelStays DEF Submit, IInv
  <2> HIDE DEF u, m
  <2>8. PipelinesOK' /\ owner' \in [Session -> Proc \cup {NoProc}]
    <3>1. CASE Commits(p, Outcome(u, << >>)) /\ UNCHANGED owner
      <4>1. LocalOK(u, tasks[p], chan[p])
        BY <1>1, <2>3, LocalSame
      <4> QED
        BY <2>7, <3>1, <4>1, NothingSpawned DEF IInv, SharedOK
    <3>2. ASSUME NEW s \in Session,
                 owner' = [owner EXCEPT ![s] = p],
                 Commits(p, EnqueueSave([u EXCEPT !.sess = s, !.mirror = m], TRUE))
          PROVE  PipelinesOK' /\ owner' \in [Session -> Proc \cup {NoProc}]
      <4> DEFINE w == [u EXCEPT !.sess = s, !.mirror = m]
      <4>1. /\ w \in UiType /\ w.pending = ui[p].pending /\ w.phase = ui[p].phase
            /\ w.inFlight = ui[p].inFlight /\ w.sess = s
        BY <2>3, <2>4 DEF UiType
      <4>2. Commits(p, EnqueueSave(w, TRUE))
        BY <3>2
      <4> HIDE DEF w
      <4>3. LocalOK(w, tasks[p], chan[p]) /\ UiOK(w)
        BY <1>1, <4>1, LocalSame DEF LocalOK
      <4>4. Fits(EnqueueSave(w, TRUE), w)
        BY <4>1, <4>3, EnqueueSaveFits
      <4>5. LocalOK(EnqueueSave(w, TRUE).ui, tasks[p] \o EnqueueSave(w, TRUE).spawned, chan[p])
        BY <2>5, <4>1, <4>3, <4>4, LocalCommit
      <4>6. PipelinesOK'
        BY <2>7, <4>2, <4>5, CommitMoves DEF IInv
      <4> QED
        BY <3>2, <4>6 DEF IInv, SharedOK
    <3> QED
      BY <2>6, <3>1, <3>2
  <2> QED
    BY <1>2, <2>1, <2>2, <2>8 DEF Submit, IInv, SharedOK, files
<1>3. CASE SubmitHidden(p)
  <2> DEFINE u == [ui[p] EXCEPT !.handle = TRUE]
  <2>1. nextMsg \in Message /\ nextMsg' \in 1..MaxMsg + 1
    BY <1>3, NextMessage DEF SubmitHidden
  <2>2. Append(agent[p], nextMsg) \in History
    BY <1>1, <2>1, HistoryGrows
  <2>3. /\ u \in UiType /\ u.pending = ui[p].pending /\ u.phase = ui[p].phase
        /\ u.inFlight = ui[p].inFlight
    BY <1>1 DEF UiType
  <2>4. /\ chan' = [chan EXCEPT ![p] = chan[p]]
        /\ tasks' = [tasks EXCEPT ![p] = tasks[p]]
        /\ ui' = [ui EXCEPT ![p] = u]
    BY <1>3, ExceptSame DEF SubmitHidden, IInv, PipelinesOK
  <2> HIDE DEF u
  <2>5. LocalOK(u, tasks[p], chan[p])
    BY <1>1, <2>3, LocalSame
  <2>6. PipelinesOK'
    BY <2>4, <2>5, OneProcessMoves DEF IInv
  <2> QED
    BY <1>3, <2>1, <2>2, <2>6 DEF SubmitHidden, IInv, SharedOK, files
<1>4. CASE Cancel(p)
  <2>1. ui[p] \in UiType /\ ui[p].phase # "down"
    BY <1>1, <1>4 DEF Cancel, Accepts
  <2>2. chan' = [chan EXCEPT ![p] = chan[p]]
    BY <1>4, ChannelStays DEF Cancel, IInv
  <2>3. CancelTurn(p, ui[p])
    BY <1>4 DEF Cancel
  <2>4. /\ PipelinesOK'
        /\ json' \in [Session -> History] /\ rounds' \in [Session -> JournalType]
        /\ owner' \in [Session -> Proc \cup {NoProc}]
        /\ turn' \in [Proc -> {"idle", "running", "unseen", "aborting"}]
    BY <1>1, <2>1, <2>2, <2>3, CancelTurnMoves
  <2> QED
    BY <1>4, <2>4 DEF Cancel, IInv, SharedOK, budget
<1>5. CASE ClearAll(p)
  <2> DEFINE u == [ui[p] EXCEPT !.sess = NoSession]
  <2>1. /\ u \in UiType /\ u.pending = ui[p].pending /\ u.phase = ui[p].phase
        /\ u.inFlight = ui[p].inFlight
    BY <1>1 DEF UiType
  <2>2. /\ chan' = [chan EXCEPT ![p] = chan[p]]
        /\ tasks' = [tasks EXCEPT ![p] = tasks[p]]
        /\ ui' = [ui EXCEPT ![p] = u]
    BY <1>5, ExceptSame DEF ClearAll, IInv, PipelinesOK
  <2> HIDE DEF u
  <2>3. LocalOK(u, tasks[p], chan[p])
    BY <1>1, <2>1, LocalSame
  <2>4. PipelinesOK'
    BY <2>2, <2>3, OneProcessMoves DEF IInv
  <2> QED
    BY <1>5, <2>4, MessageFacts DEF ClearAll, IInv, SharedOK, files, budget
<1>6. CASE Quit(p)
  <2> DEFINE u == [ui[p] EXCEPT !.phase = "quitting"]
  <2>1. /\ u \in UiType /\ u.pending = ui[p].pending /\ u.phase = "quitting"
        /\ u.inFlight = ui[p].inFlight
    BY <1>1 DEF UiType
  <2>2. chan' = [chan EXCEPT ![p] = chan[p]]
    BY <1>6, ChannelStays DEF Quit, IInv
  <2>3. \/ CancelTurn(p, u)
        \/ Commits(p, Outcome(u, << >>)) /\ UNCHANGED <<files, owner, turn>>
    BY <1>6 DEF Quit
  <2> HIDE DEF u
  <2>4. LocalOK(u, tasks[p], chan[p])
    BY <1>1, <2>1 DEF LocalOK, UiOK, Accounted
  <2>5. /\ PipelinesOK'
        /\ json' \in [Session -> History] /\ rounds' \in [Session -> JournalType]
        /\ owner' \in [Session -> Proc \cup {NoProc}]
        /\ turn' \in [Proc -> {"idle", "running", "unseen", "aborting"}]
    <3>1. CASE CancelTurn(p, u)
      BY <2>1, <2>2, <2>4, <3>1, CancelTurnMoves
    <3>2. CASE Commits(p, Outcome(u, << >>)) /\ UNCHANGED <<files, owner, turn>>
      BY <2>2, <2>4, <3>2, NothingSpawned DEF IInv, SharedOK, files
    <3> QED
      BY <2>3, <3>1, <3>2
  <2> QED
    BY <1>6, <2>5 DEF Quit, IInv, SharedOK, budget
<1>7. ASSUME NEW s \in Session, Resume(p, s)
      PROVE  IInv'
  <2> DEFINE loaded == Recovered(json[s], rounds[s])
             u == [ui[p] EXCEPT !.sess = s, !.mirror = loaded]
  <2>1. loaded \in History
    BY RecoveredType DEF IInv, SharedOK
  <2>2. /\ chan' = [chan EXCEPT ![p] = chan[p]]
        /\ tasks' = [tasks EXCEPT ![p] = tasks[p]]
        /\ ui' = [ui EXCEPT ![p].sess = s, ![p].mirror = loaded]
    BY <1>7, ExceptSame DEF Resume, IInv, PipelinesOK
  <2>3. agent' = [agent EXCEPT ![p] = IF AgentFree(p) THEN loaded ELSE @]
    BY <1>7 DEF Resume
  <2> HIDE DEF loaded
  <2>4. ui' = [ui EXCEPT ![p] = u]
    BY <2>2 DEF IInv, PipelinesOK
  <2>5. /\ u \in UiType /\ u.pending = ui[p].pending /\ u.phase = ui[p].phase
        /\ u.inFlight = ui[p].inFlight
    BY <1>1, <2>1 DEF UiType
  <2> HIDE DEF u
  <2>6. LocalOK(u, tasks[p], chan[p])
    BY <1>1, <2>5, LocalSame
  <2>7. PipelinesOK'
    BY <2>2, <2>4, <2>6, OneProcessMoves DEF IInv
  <2>8. agent' \in [Proc -> History]
    BY <1>1, <2>1, <2>3 DEF IInv, SharedOK
  <2>9. owner' \in [Session -> Proc \cup {NoProc}]
    BY <1>7 DEF Resume, IInv, SharedOK
  <2> QED
    BY <1>7, <2>7, <2>8, <2>9 DEF Resume, IInv, SharedOK, files, budget
<1> QED
  BY <1>2, <1>3, <1>4, <1>5, <1>6, <1>7 DEF User

\* The UI thread reads its channel.
LEMMA HandleMessageStep ==
    ASSUME IInv, NEW p \in Proc, HandleMessage(p)
    PROVE  IInv'
<1> DEFINE e == Head(chan[p])
           rest == Tail(chan[p])
           u == [ui[p] EXCEPT !.handle = FALSE]
<1>1. /\ LocalOK(ui[p], tasks[p], chan[p]) /\ ui[p] \in UiType
      /\ chan[p] \in Seq(EventType)
      /\ turn[p] \in {"idle", "running", "unseen", "aborting"}
  BY DEF IInv, PipelinesOK, SharedOK
<1>2. /\ ui[p].phase = "running" /\ chan[p] # << >>
      /\ chan' = [chan EXCEPT ![p] = rest]
      /\ UNCHANGED <<budget, agent, permit>>
      /\ \/ e.kind = "history" /\ HandleHistory(p, e) /\ UNCHANGED turn
         \/ e.kind = "done" /\ HandleDone(p)
         \/ e.kind = "saved" /\ HandleSaved(p, e) /\ UNCHANGED turn
  BY DEF HandleMessage
<1>3. e \in EventType
  BY <1>1, <1>2, TailOfChannel
<1>4. LocalOK(ui[p], tasks[p], rest)
  BY <1>1, <1>2, LocalRead
<1> HIDE DEF e, rest
<1>5. /\ u \in UiType /\ u.pending = ui[p].pending /\ u.phase = ui[p].phase
      /\ u.inFlight = ui[p].inFlight
  BY <1>1 DEF UiType
<1> DEFINE Stored == /\ PipelinesOK'
                     /\ json' \in [Session -> History] /\ rounds' \in [Session -> JournalType]
                     /\ owner' \in [Session -> Proc \cup {NoProc}]
<1>6. ASSUME Commits(p, Outcome(ui[p], << >>)), UNCHANGED <<files, owner>>
      PROVE  Stored
  BY <1>2, <1>4, <1>6, NothingSpawned DEF IInv, SharedOK, files
<1>7. ASSUME HandleHistory(p, e)
      PROVE  Stored
  <2>1. CASE TurnLive(p)
    <3> DEFINE w == [ui[p] EXCEPT !.mirror = Adopted(ui[p].mirror, e.hist)]
    <3>1. Adopted(ui[p].mirror, e.hist) \in History
      BY <1>1, <1>3, AdoptedType DEF UiType, EventType
    <3>2. /\ w \in UiType /\ w.pending = ui[p].pending /\ w.phase = ui[p].phase
          /\ w.inFlight = ui[p].inFlight
      BY <1>1, <3>1 DEF UiType
    <3>3. Persist(p, w, FALSE)
      BY <1>7, <2>1 DEF HandleHistory
    <3> HIDE DEF w
    <3>4. LocalOK(w, tasks[p], rest)
      BY <1>4, <3>2, LocalSame
    <3> QED
      BY <1>2, <3>2, <3>3, <3>4, PersistMoves
  <2>2. CASE ~TurnLive(p)
    BY <1>6, <1>7, <2>2 DEF HandleHistory
  <2> QED
    BY <2>1, <2>2
<1>8. ASSUME HandleDone(p)
      PROVE  Stored /\ turn' \in [Proc -> {"idle", "running", "unseen", "aborting"}]
  <2>1. CASE TurnLive(p)
    <3>1. /\ Autosave(p, u, AgentFree(p)) /\ AgentFree(p) \in BOOLEAN
          /\ turn' = [turn EXCEPT ![p] = IF @ = "running" THEN "unseen" ELSE @]
      BY <1>8, <2>1 DEF HandleDone, AgentFree
    <3> HIDE DEF u
    <3>2. LocalOK(u, tasks[p], rest)
      BY <1>4, <1>5, LocalSame
    <3>3. Stored
      BY <1>2, <1>5, <3>1, <3>2, AutosaveMoves
    <3> QED
      BY <1>1, <3>1, <3>3 DEF IInv, SharedOK
  <2>2. CASE ~TurnLive(p)
    BY <1>6, <1>8, <2>2 DEF HandleDone, IInv, SharedOK
  <2> QED
    BY <2>1, <2>2
<1>9. ASSUME HandleSaved(p, e), Saved(e)
      PROVE  Stored
  <2> DEFINE o == OnSaveDone(ui[p], e.ok)
  <2>1. Commits(p, o) /\ UNCHANGED <<files, owner>>
    BY <1>9 DEF HandleSaved
  <2>2. e.ok \in BOOLEAN
    BY <1>3 DEF EventType
  <2>3. LocalOK(o.ui, tasks[p] \o o.spawned, rest)
    BY <1>1, <1>2, <1>9, <2>2, LocalReport DEF e, rest
  <2> HIDE DEF o
  <2>4. PipelinesOK'
    BY <1>2, <2>1, <2>3, CommitMoves DEF IInv
  <2> QED
    BY <2>1, <2>4 DEF IInv, SharedOK, files
<1>10. Stored /\ turn' \in [Proc -> {"idle", "running", "unseen", "aborting"}]
  BY <1>2, <1>7, <1>8, <1>9 DEF Saved, IInv, SharedOK
<1> QED
  BY <1>2, <1>10 DEF IInv, SharedOK, budget

LEMMA AppendedTypes ==
    ASSUME NEW t \in TaskType, NEW r \in JournalType
    PROVE  /\ AppendChunk(r, t.tail) \in JournalType
           /\ Journal(t.base, t.baseAnchor, t.tail, FALSE) \in JournalType
           /\ Journal(t.base, t.baseAnchor, << >>, TRUE) \in JournalType
           /\ [r EXCEPT !.torn = TRUE] \in JournalType
<1>1. t.tail \in History /\ r.tail \in History
  BY DEF TaskType, JournalType
<1>2. r.tail \o t.tail \in History
  BY <1>1, ConcatProperties DEF History
<1>3. AppendChunk(r, t.tail) \in JournalType
  BY <1>2 DEF AppendChunk, JournalType
<1>4. /\ Journal(t.base, t.baseAnchor, t.tail, FALSE) \in JournalType
      /\ Journal(t.base, t.baseAnchor, << >>, TRUE) \in JournalType
  BY MessageFacts DEF Journal, JournalType, TaskType
<1>5. [r EXCEPT !.torn = TRUE] \in JournalType
  BY DEF JournalType
<1> QED
  BY <1>3, <1>4, <1>5

LEMMA TornTypes ==
    ASSUME IInv, NEW t \in TaskType, NEW r \in TornJournals(t)
    PROVE  r \in JournalType
<1>1. rounds[t.sess] \in JournalType
  BY DEF IInv, SharedOK, TaskType
<1> QED
  BY <1>1, AppendedTypes, NoneTypes DEF TornJournals

\* A save task moves on without reporting.
LEMMA TaskMoves ==
    ASSUME IInv, NEW p \in Proc, NEW i \in DOMAIN tasks[p],
           Unreported(tasks[p][i]),
           \/ Reaches(p, i, "clean") \/ Reaches(p, i, "send") \/ Fails(p, i),
           UNCHANGED <<ui, chan>>
    PROVE  PipelinesOK'
<1> DEFINE t == tasks[p][i]
<1>1. /\ LocalOK(ui[p], tasks[p], chan[p])
      /\ tasks[p] \in Seq(TaskType) /\ t \in TaskType /\ t.snap.sess = t.sess
  BY DEF IInv, PipelinesOK, LocalOK
<1>2. PICK t2 \in {[t EXCEPT !.stage = "clean"], [t EXCEPT !.stage = "send"],
                   [t EXCEPT !.stage = "send", !.ok = FALSE]} :
          tasks' = [tasks EXCEPT ![p] = [tasks[p] EXCEPT ![i] = t2]]
  <2>1. CASE Reaches(p, i, "clean")
    BY <2>1 DEF Reaches
  <2>2. CASE Reaches(p, i, "send")
    BY <2>2 DEF Reaches
  <2>3. CASE Fails(p, i)
    <3>1. tasks' = [tasks EXCEPT ![p] = [tasks[p] EXCEPT
                                            ![i] = [t EXCEPT !.stage = "send", !.ok = FALSE]]]
      BY <1>1, <2>3 DEF Fails, IInv, PipelinesOK
    <3> QED
      BY <3>1
  <2> QED
    BY <2>1, <2>2, <2>3
<1>3. t2 \in TaskType /\ t2.snap = t.snap /\ t2.sess = t.sess
  BY <1>1, <1>2 DEF TaskType
<1> HIDE DEF t
<1>4. LocalOK(ui[p], [tasks[p] EXCEPT ![i] = t2], chan[p])
  BY <1>1, <1>3, LocalTask DEF t
<1>5. ui' = [ui EXCEPT ![p] = ui[p]] /\ chan' = [chan EXCEPT ![p] = chan[p]]
  BY ExceptSame DEF IInv, PipelinesOK
<1> QED
  BY <1>2, <1>4, <1>5, OneProcessMoves DEF IInv

\* The save tasks.
LEMMA SaveTaskStep ==
    ASSUME IInv, NEW p \in Proc, SaveTask(p)
    PROVE  IInv'
<1> PICK i \in DOMAIN tasks[p] :
        \/ WriteJson(p, i) \/ RemoveRounds(p, i) \/ AppendRound(p, i)
        \/ SendSaved(p, i) \/ NotifyDone(p, i)
  BY DEF SaveTask
<1> DEFINE t == tasks[p][i]
<1>1. /\ LocalOK(ui[p], tasks[p], chan[p]) /\ ui[p] \in UiType
      /\ tasks[p] \in Seq(TaskType) /\ t \in TaskType /\ t.snap.sess = t.sess
      /\ t.sess \in Session /\ t.snap.hist \in History
  <2>1. /\ LocalOK(ui[p], tasks[p], chan[p]) /\ ui[p] \in UiType
        /\ tasks[p] \in Seq(TaskType)
    BY DEF IInv, PipelinesOK
  <2>2. t \in TaskType /\ t.snap.sess = t.sess
    BY <2>1 DEF LocalOK
  <2>3. t.sess \in Session /\ t.snap.hist \in History
    BY <2>2 DEF TaskType, SnapshotType
  <2> QED
    BY <2>1, <2>2, <2>3
<1>2. ASSUME MayFail
      PROVE  fails' \in 0..MaxFail
  BY <1>2, BoundsAssumption DEF MayFail, IInv, SharedOK
<1>3. CASE WriteJson(p, i)
  <2>1. t.stage = "write" /\ (Reaches(p, i, "clean") \/ Fails(p, i)) /\ UNCHANGED <<ui, chan>>
    BY <1>3 DEF WriteJson
  <2>2. PipelinesOK'
    BY <2>1, TaskMoves DEF Unreported
  <2>3. json' \in [Session -> History] /\ fails' \in 0..MaxFail
    BY <1>1, <1>2, <1>3 DEF WriteJson, IInv, SharedOK
  <2> QED
    BY <1>3, <2>2, <2>3 DEF WriteJson, IInv, SharedOK
<1>4. CASE RemoveRounds(p, i)
  <2>1. t.stage = "clean" /\ Reaches(p, i, "send") /\ UNCHANGED <<ui, chan>>
    BY <1>4 DEF RemoveRounds
  <2>2. PipelinesOK'
    BY <2>1, TaskMoves DEF Unreported
  <2>3. rounds' \in [Session -> JournalType] /\ fails' \in 0..MaxFail
    BY <1>1, <1>2, <1>4, NoneTypes DEF RemoveRounds, IInv, SharedOK
  <2> QED
    BY <1>4, <2>2, <2>3 DEF RemoveRounds, IInv, SharedOK
<1>5. CASE AppendRound(p, i)
  <2>1. t.stage = "write" /\ (Reaches(p, i, "send") \/ Fails(p, i)) /\ UNCHANGED <<ui, chan>>
    BY <1>5 DEF AppendRound
  <2>2. PipelinesOK'
    BY <2>1, TaskMoves DEF Unreported
  <2>3. rounds[t.sess] \in JournalType
    BY <1>1 DEF IInv, SharedOK
  <2>4. AppendedJournal(t) \in JournalType
    BY <1>1, <2>3, AppendedTypes DEF AppendedJournal
  <2>5. \A r \in TornJournals(t) : r \in JournalType
    BY <1>1, TornTypes
  <2> HIDE DEF t
  <2>6. PICK r \in JournalType : rounds' \in {rounds, [rounds EXCEPT ![t.sess] = r]}
    <3>1. \/ rounds' = [rounds EXCEPT ![t.sess] = AppendedJournal(t)]
          \/ UNCHANGED rounds
          \/ \E r \in TornJournals(t) \cup {rounds[t.sess]} :
                rounds' = [rounds EXCEPT ![t.sess] = r]
      BY <1>5 DEF AppendRound, t
    <3> QED
      BY <2>3, <2>4, <2>5, <3>1
  <2>7. rounds' \in [Session -> JournalType]
    BY <2>6 DEF IInv, SharedOK
  <2>8. fails' \in 0..MaxFail
    BY <1>2, <1>5 DEF AppendRound, IInv, SharedOK
  <2> QED
    BY <1>5, <2>2, <2>7, <2>8 DEF AppendRound, IInv, SharedOK
<1>6. CASE SendSaved(p, i)
  <2> DEFINE e == Event("saved", << >>, t.ok)
             t2 == [t EXCEPT !.stage = "notify"]
  <2>1. /\ Unreported(t)
        /\ chan' = [chan EXCEPT ![p] = Append(chan[p], e)]
        /\ tasks' = [tasks EXCEPT ![p] = [tasks[p] EXCEPT ![i] = t2]]
    BY <1>6 DEF SendSaved, Unreported, Reaches
  <2>2. e \in EventType /\ Saved(e)
    BY <1>1, MessageFacts DEF Event, EventType, Saved, TaskType
  <2>3. t2 \in TaskType /\ t2.snap.sess = t2.sess /\ ~Unreported(t2)
    BY <1>1 DEF TaskType, Unreported
  <2> HIDE DEF e, t2, t
  <2>4. LocalOK(ui[p], [tasks[p] EXCEPT ![i] = t2], Append(chan[p], e))
    BY <1>1, <2>1, <2>2, <2>3, LocalSend DEF t
  <2>5. ui' = [ui EXCEPT ![p] = ui[p]]
    BY <1>6, ExceptSame DEF SendSaved, IInv, PipelinesOK
  <2>6. PipelinesOK'
    BY <2>1, <2>4, <2>5, OneProcessMoves DEF IInv
  <2> QED
    BY <1>6, <2>6 DEF SendSaved, IInv, SharedOK, files, budget
<1>7. CASE NotifyDone(p, i)
  <2>1. LocalOK(ui[p], RemoveAt(tasks[p], i), chan[p])
    BY <1>1, LocalEnd
  <2>2. chan' = [chan EXCEPT ![p] = chan[p]]
        /\ tasks' = [tasks EXCEPT ![p] = RemoveAt(tasks[p], i)]
    BY <1>7, ExceptSame DEF NotifyDone, IInv, PipelinesOK
  <2> DEFINE u == [ui[p] EXCEPT !.wait = "woken"]
  <2>3. /\ u \in UiType /\ u.pending = ui[p].pending /\ u.phase = ui[p].phase
        /\ u.inFlight = ui[p].inFlight
    BY <1>1 DEF UiType
  <2>4. ui' = [ui EXCEPT ![p] = u] \/ ui' = [ui EXCEPT ![p] = ui[p]]
    BY <1>7, ExceptSame DEF NotifyDone, IInv, PipelinesOK
  <2>5. permit' \in [Proc -> BOOLEAN]
    BY <1>7 DEF NotifyDone, IInv, SharedOK
  <2> HIDE DEF u
  <2>6. LocalOK(u, RemoveAt(tasks[p], i), chan[p])
    BY <2>1, <2>3, LocalSame
  <2>7. PipelinesOK'
    BY <2>1, <2>2, <2>4, <2>6, OneProcessMoves DEF IInv
  <2> QED
    BY <1>7, <2>5, <2>7 DEF NotifyDone, IInv, SharedOK, files, budget
<1> QED
  BY <1>3, <1>4, <1>5, <1>6, <1>7

LEMMA GoneMoves ==
    ASSUME IInv, NEW p \in Proc, Gone(p)
    PROVE  /\ PipelinesOK'
           /\ agent' \in [Proc -> History]
           /\ turn' \in [Proc -> {"idle", "running", "unseen", "aborting"}]
           /\ permit' \in [Proc -> BOOLEAN]
<1>1. PipelinesOK'
  <2>1. /\ ui' = [ui EXCEPT ![p] = DownUi]
        /\ tasks' = [tasks EXCEPT ![p] = << >>]
        /\ chan' = [chan EXCEPT ![p] = << >>]
    BY DEF Gone
  <2> QED
    BY <2>1, LocalFresh, OneProcessMoves DEF IInv
<1> QED
  BY <1>1, MessageFacts DEF Gone, IInv, SharedOK

\* The final flush.
LEMMA FlushStep ==
    ASSUME IInv, NEW p \in Proc, Flush(p)
    PROVE  IInv'
<1>1. LocalOK(ui[p], tasks[p], chan[p]) /\ ui[p] \in UiType /\ tasks[p] \in Seq(TaskType)
  BY DEF IInv, PipelinesOK
<1>2. CASE AwaitSaves(p)
  <2> DEFINE u == [ui[p] EXCEPT !.wait = IF permit[p] THEN "woken" ELSE "waiting"]
  <2>1. /\ u \in UiType /\ u.pending = ui[p].pending /\ u.phase = ui[p].phase
        /\ u.inFlight = ui[p].inFlight
    BY <1>1 DEF UiType
  <2>2. /\ chan' = [chan EXCEPT ![p] = chan[p]]
        /\ tasks' = [tasks EXCEPT ![p] = tasks[p]]
        /\ ui' = [ui EXCEPT ![p] = u]
    BY <1>2, ExceptSame DEF AwaitSaves, IInv, PipelinesOK
  <2> HIDE DEF u
  <2>3. LocalOK(u, tasks[p], chan[p])
    BY <1>1, <2>1, LocalSame
  <2>4. PipelinesOK'
    BY <2>2, <2>3, OneProcessMoves DEF IInv
  <2> QED
    BY <1>2, <2>4 DEF AwaitSaves, IInv, SharedOK, files, budget
<1>3. CASE AwaitWakes(p)
  <2> DEFINE u == [ui[p] EXCEPT !.wait = "no", !.inFlight = FALSE]
             o == PromotePendingSave(u)
  <2>1. /\ u \in UiType /\ u.pending = ui[p].pending /\ u.phase = "flushing"
        /\ ~u.inFlight
    BY <1>1, <1>3 DEF AwaitWakes, UiType
  <2>2. Commits(p, o)
    BY <1>3 DEF AwaitWakes
  <2>3. chan' = [chan EXCEPT ![p] = chan[p]]
    BY <1>3, ChannelStays DEF AwaitWakes, IInv
  <2> HIDE DEF u
  <2>4. u.pending # NoSnapshot => u.pending.sess \in Session
    BY <1>1, <2>1 DEF LocalOK, UiOK
  <2>5. Fits(o, u)
    BY <2>1, <2>4, PromotePendingSaveFits
  <2> HIDE DEF o
  <2>6. /\ tasks[p] \o o.spawned \in Seq(TaskType)
        /\ \A i \in DOMAIN (tasks[p] \o o.spawned) :
              (tasks[p] \o o.spawned)[i].snap.sess = (tasks[p] \o o.spawned)[i].sess
    <3> DEFINE ts == tasks[p]
               spawned == o.spawned
    <3>1. spawned = << >> \/ \E t : NewTask(t) /\ spawned = <<t>>
      BY <2>5 DEF Fits
    <3>2. ts \in Seq(TaskType) /\ \A i \in DOMAIN ts : ts[i].snap.sess = ts[i].sess
      BY <1>1 DEF LocalOK
    <3> HIDE DEF ts, spawned
    <3>3. /\ ts \o spawned \in Seq(TaskType)
          /\ \A i \in DOMAIN (ts \o spawned) :
                (ts \o spawned)[i].snap.sess = (ts \o spawned)[i].sess
      BY <3>1, <3>2, SpawnedTasks
    <3> QED
      BY <3>3 DEF ts, spawned
  <2>7. LocalOK(o.ui, tasks[p] \o o.spawned, chan[p])
    BY <1>1, <2>1, <2>5, <2>6 DEF Fits, LocalOK, Accounted
  <2>8. PipelinesOK'
    BY <2>2, <2>3, <2>7, CommitMoves DEF IInv
  <2> QED
    BY <1>3, <2>8 DEF AwaitWakes, IInv, SharedOK, files, budget
<1>4. CASE Exit(p)
  <2> DEFINE u == [ui[p] EXCEPT !.phase = "exiting"]
  <2>1. u \in UiType /\ u.phase = "exiting" /\ u.pending = ui[p].pending /\ u.inFlight = ui[p].inFlight
    BY <1>1 DEF UiType
  <2>2. PICK unpolled \in SUBSET {i \in DOMAIN tasks[p] : tasks[p][i].stage = "write"} :
          tasks' = [tasks EXCEPT ![p] =
              [i \in DOMAIN tasks[p] |-> IF i \in unpolled
                                         THEN [tasks[p][i] EXCEPT !.stage = "dropped"]
                                         ELSE tasks[p][i]]]
    BY <1>4 DEF Exit
  <2> DEFINE ts == [i \in DOMAIN tasks[p] |-> IF i \in unpolled
                                              THEN [tasks[p][i] EXCEPT !.stage = "dropped"]
                                              ELSE tasks[p][i]]
  <2>3. \A i \in DOMAIN tasks[p] : ts[i] \in TaskType /\ ts[i].snap.sess = ts[i].sess
    <3>1. \A i \in DOMAIN tasks[p] :
              tasks[p][i] \in TaskType /\ tasks[p][i].snap.sess = tasks[p][i].sess
      BY <1>1 DEF LocalOK
    <3> QED
      BY <3>1 DEF TaskType
  <2>4. Len(tasks[p]) \in Nat /\ DOMAIN tasks[p] = 1..Len(tasks[p]) /\ DOMAIN ts = DOMAIN tasks[p]
    BY <1>1, LenProperties
  <2>5. ui' = [ui EXCEPT ![p] = u] /\ chan' = [chan EXCEPT ![p] = chan[p]]
    BY <1>4, ChannelStays DEF Exit, IInv
  <2>6. tasks' = [tasks EXCEPT ![p] = ts]
    BY <2>2
  <2> HIDE DEF u, ts
  <2>7. ts \in Seq(TaskType)
    <3>1. ts = [i \in 1..Len(tasks[p]) |-> ts[i]]
      BY <2>4 DEF ts
    <3>2. \A i \in 1..Len(tasks[p]) : ts[i] \in TaskType
      BY <2>3, <2>4
    <3> HIDE DEF ts
    <3>3. ts \in [1..Len(tasks[p]) -> TaskType]
      BY <3>1, <3>2
    <3> QED
      BY <2>4, <3>3, SeqDef
  <2>8. LocalOK(u, ts, chan[p])
    BY <1>1, <2>1, <2>3, <2>4, <2>7 DEF LocalOK, UiOK, Accounted
  <2>9. PipelinesOK'
    BY <2>5, <2>6, <2>8, OneProcessMoves DEF IInv
  <2>10. owner' \in [Session -> Proc \cup {NoProc}]
    BY <1>4 DEF Exit, Releases, IInv, SharedOK
  <2> QED
    BY <1>4, <2>9, <2>10 DEF Exit, IInv, SharedOK, files, budget
<1>5. CASE ExitDone(p)
  BY <1>5, GoneMoves DEF ExitDone, IInv, SharedOK, files, budget
<1>6. CASE FinalSave(p)
  <2> DEFINE u == [ui[p] EXCEPT !.phase = "flushing"]
  <2>1. /\ u \in UiType /\ u.pending = ui[p].pending /\ u.phase = "flushing"
        /\ u.inFlight = ui[p].inFlight
    BY <1>1 DEF UiType
  <2>2. chan' = [chan EXCEPT ![p] = chan[p]]
    BY <1>6, ChannelStays DEF FinalSave, IInv
  <2>3. Autosave(p, u, turn[p] # "unseen") /\ (turn[p] # "unseen") \in BOOLEAN
    BY <1>6 DEF FinalSave
  <2> HIDE DEF u
  <2>4. LocalOK(u, tasks[p], chan[p])
    BY <1>1, <1>6, <2>1 DEF LocalOK, UiOK, Accounted, FinalSave
  <2>5. /\ PipelinesOK'
        /\ json' \in [Session -> History] /\ rounds' \in [Session -> JournalType]
        /\ owner' \in [Session -> Proc \cup {NoProc}]
    BY <2>1, <2>2, <2>3, <2>4, AutosaveMoves
  <2> QED
    BY <1>6, <2>5 DEF FinalSave, IInv, SharedOK, budget
<1> QED
  BY <1>2, <1>3, <1>4, <1>5, <1>6 DEF Flush

LEMMA CrashStep ==
    ASSUME IInv, NEW p \in Proc, Crash(p)
    PROVE  IInv'
<1>1. PipelinesOK' /\ agent' \in [Proc -> History] /\ permit' \in [Proc -> BOOLEAN]
      /\ turn' \in [Proc -> {"idle", "running", "unseen", "aborting"}]
  BY GoneMoves DEF Crash
<1>2. owner' \in [Session -> Proc \cup {NoProc}]
  BY DEF Crash, Releases, IInv, SharedOK
<1>3. rounds' \in [Session -> JournalType]
  <2>1. ASSUME NEW i \in DOMAIN tasks[p], NEW r \in TornJournals(tasks[p][i]),
               rounds' = [rounds EXCEPT ![tasks[p][i].sess] = r]
        PROVE  rounds' \in [Session -> JournalType]
    <3>1. tasks[p][i] \in TaskType
      BY ElementOfSeq, LenProperties DEF IInv, PipelinesOK
    <3>2. r \in JournalType
      BY <3>1, TornTypes
    <3> QED
      BY <2>1, <3>2 DEF IInv, SharedOK
  <2>2. CASE UNCHANGED rounds
    BY <2>2 DEF IInv, SharedOK
  <2> QED
    BY <2>1, <2>2 DEF Crash
<1> QED
  BY <1>1, <1>2, <1>3 DEF Crash, IInv, SharedOK, budget

LEMMA StartStep ==
    ASSUME IInv, NEW p \in Proc, Start(p)
    PROVE  IInv'
<1>1. tasks[p] = << >> /\ chan[p] = << >>
  BY DEF Start, IInv, PipelinesOK, LocalOK
<1>2. /\ ui' = [ui EXCEPT ![p] = FreshUi]
      /\ tasks' = [tasks EXCEPT ![p] = tasks[p]]
      /\ chan' = [chan EXCEPT ![p] = chan[p]]
  BY ExceptSame DEF Start, IInv, PipelinesOK
<1>3. PipelinesOK'
  BY <1>1, <1>2, LocalFresh, OneProcessMoves DEF IInv
<1>4. starts' \in 0..MaxStart
  BY BoundsAssumption DEF Start, IInv, SharedOK
<1> QED
  BY <1>3, <1>4 DEF Start, IInv, SharedOK, files

LEMMA InitIInv == Init => IInv
<1> SUFFICES ASSUME Init
             PROVE  IInv
  OBVIOUS
<1>1. SharedOK
  BY MessageFacts, NoneTypes, BoundsAssumption DEF Init, SharedOK, Sys
<1>2. \A p \in Proc : LocalOK(ui[p], tasks[p], chan[p])
  BY LocalFresh DEF Init
<1>3. /\ ui \in [Proc -> UiType]
      /\ tasks \in [Proc -> Seq(TaskType)]
      /\ chan \in [Proc -> Seq(EventType)]
  BY NoneTypes DEF Init
<1> QED
  BY <1>1, <1>2, <1>3 DEF IInv, PipelinesOK

LEMMA StepIInv == IInv /\ [Next]_vars => IInv'
<1> SUFFICES ASSUME IInv, [Next]_vars
             PROVE  IInv'
  OBVIOUS
<1>1. CASE UNCHANGED vars
  BY <1>1 DEF vars, IInv, SharedOK, PipelinesOK
<1>2. CASE Next
  <2> PICK p \in Proc :
          \/ AgentTask(p) \/ User(p) \/ HandleMessage(p)
          \/ SaveTask(p) \/ Flush(p) \/ Crash(p) \/ Start(p)
    BY <1>2 DEF Next
  <2> QED
    BY AgentTaskStep, UserStep, HandleMessageStep, SaveTaskStep, FlushStep, CrashStep, StartStep
<1> QED
  BY <1>1, <1>2

\* What each named invariant asks is part of the inductive one.
LEMMA IInvImplies == IInv => /\ TypeOK
                             /\ OneWriter
                             /\ PendingBehindASave
                             /\ SnapshotKeepsItsSession
<1> SUFFICES ASSUME IInv
             PROVE  TypeOK /\ OneWriter /\ PendingBehindASave /\ SnapshotKeepsItsSession
  OBVIOUS
<1>1. TypeOK
  BY DEF IInv, SharedOK, PipelinesOK, TypeOK
<1>2. OneWriter
  BY DEF IInv, PipelinesOK, LocalOK, Accounted, OneWriter
<1>3. PendingBehindASave
  BY DEF IInv, PipelinesOK, LocalOK, UiOK, PendingBehindASave
<1>4. SnapshotKeepsItsSession
  BY DEF IInv, PipelinesOK, LocalOK, SnapshotKeepsItsSession
<1> QED
  BY <1>1, <1>2, <1>3, <1>4

THEOREM SpecIInv == Spec => []IInv
BY InitIInv, StepIInv, PTL DEF Spec

\* Every variable keeps its type.
THEOREM TypeCorrect == Spec => []TypeOK
BY SpecIInv, IInvImplies, PTL

\* At most one save task of a process runs, and the UI knows of it: the report of
\* one save is read before the next is spawned (enqueue_save_as).
THEOREM AtMostOneWriter == Spec => []OneWriter
BY SpecIInv, IInvImplies, PTL

\* A snapshot waits only behind a save that will report, so none is forgotten
\* (app.rs, pending_save).
THEOREM NoSnapshotForgotten == Spec => []PendingBehindASave
BY SpecIInv, IInvImplies, PTL

\* No snapshot is written under another session, in whatever order sessions are
\* left and saves promoted (promote_pending_save).
THEOREM SessionsNotMixed == Spec => []SnapshotKeepsItsSession
BY SpecIInv, IInvImplies, PTL
=============================================================================
