----------------------------- MODULE LatestWins -----------------------------
(***************************************************************************)
(* What the save pipeline of one process promises, without journals,       *)
(* cursors or channels: every write stores one whole snapshot; at most one *)
(* is being written and at most one waits; a newer snapshot takes the      *)
(* place of the one waiting; the one waiting is written next.              *)
(***************************************************************************)
EXTENDS Sequences

CONSTANTS
    Session,     \* session ids
    NoSession,   \* no session is open
    History      \* what a snapshot may hold

VARIABLES
    stored,      \* [Session -> the history a load returns]
    current,     \* the session open now, or NoSession
    writing,     \* the snapshot being written, or None
    waiting,     \* the snapshot that goes next, or None
    busy         \* a write is under way, or its outcome is still to be told

vars == <<stored, current, writing, waiting, busy>>

Snap(s, h) == [sess |-> s, hist |-> h]
None == Snap(NoSession, << >>)

\* Every snapshot of session s.
Snapshots(s) == [sess : {s}, hist : History]

IsStored(snap) == stored[snap.sess] = snap.hist

Init ==
    /\ stored = [s \in Session |-> << >>]
    /\ current = NoSession
    /\ writing = None /\ waiting = None /\ busy = FALSE

\* A snapshot of the session now open is handed in: it goes at once, or waits.
Request ==
    /\ current' \in Session
    /\ \/ ~busy /\ busy' = TRUE /\ writing' \in Snapshots(current') /\ UNCHANGED waiting
       \/ busy /\ waiting' \in Snapshots(current') /\ UNCHANGED <<writing, busy>>
    /\ UNCHANGED stored

\* The first snapshot of a session may be stored by whoever hands it in.
StoreFirst ==
    /\ current' \in Session
    /\ stored[current'] = << >> /\ stored'[current'] \in History
    /\ stored' = [stored EXCEPT ![current'] = stored'[current']]
    /\ UNCHANGED <<writing, waiting, busy>>

Switch ==
    /\ current' \in Session \cup {NoSession}
    /\ UNCHANGED <<stored, writing, waiting, busy>>

Land ==
    /\ writing # None
    /\ stored' = [stored EXCEPT ![writing.sess] = writing.hist]
    /\ writing' = None
    /\ UNCHANGED <<current, waiting, busy>>

Fail ==
    /\ writing # None
    /\ writing' = None
    /\ UNCHANGED <<stored, current, waiting, busy>>

\* The outcome is told and the snapshot that waits is written next.  It is let go
\* only when it is stored already or its session is no longer the current one.
Acknowledge ==
    /\ busy /\ writing = None
    /\ waiting' = None
    /\ \/ /\ waiting # None /\ waiting.sess = current
          /\ writing' = waiting /\ UNCHANGED busy
       \/ /\ waiting = None \/ waiting.sess # current \/ IsStored(waiting)
          /\ busy' = FALSE /\ UNCHANGED writing
    /\ UNCHANGED <<stored, current>>

\* A crash loses what is not stored.
Lose ==
    /\ current' = NoSession
    /\ writing' = None /\ waiting' = None /\ busy' = FALSE
    /\ UNCHANGED stored

Next ==
    \/ Request \/ StoreFirst
    \/ Switch \/ Land \/ Fail \/ Acknowledge \/ Lose

Spec == Init /\ [][Next]_vars
=============================================================================
