---------------------------- MODULE SessionFiles ----------------------------
(***************************************************************************)
(* The two files that hold one saved conversation, and the pure rules that *)
(* read and write them (crates/hrdr-agent/src/session.rs):                 *)
(*                                                                         *)
(*   <id>.json    the whole history as of the last full save               *)
(*   <id>.rounds  the round journal: a head naming the history it extends, *)
(*                then the messages of every round since                   *)
(*                                                                         *)
(* A message is a positive number, drawn once and never reused, so a       *)
(* message edited in place is a different message.  A history is a         *)
(* sequence of messages; the empty history stands for a file that does not *)
(* exist.                                                                  *)
(***************************************************************************)
EXTENDS Naturals, Sequences, SequencesExt

NoAnchor == 0

\* The digest of the last message; the earlier ones do not take part in it.
Anchor(h) == IF h = << >> THEN NoAnchor ELSE Last(h)

\* The first n messages of a history.
Upto(h, n) == SubSeq(h, 1, n)

\* The messages past the first n.
From(h, n) == SubSeq(h, n + 1, Len(h))

\* A round journal.  tail is what its complete chunks hold; torn says that its
\* last line is incomplete, so that whatever is appended after is unreadable.
Journal(base, anchor, tail, torn) ==
    [open |-> TRUE, base |-> base, anchor |-> anchor, tail |-> tail, torn |-> torn]

NoJournal == [open |-> FALSE, base |-> 0, anchor |-> NoAnchor, tail |-> << >>, torn |-> FALSE]

\* An open journal whose head is unreadable: replay stops before the first
\* chunk, whatever follows.
HeadlessJournal == [NoJournal EXCEPT !.open = TRUE, !.torn = TRUE]

\* The journal extends exactly this history.
Extends(rounds, h) ==
    /\ rounds.open
    /\ rounds.base = Len(h)
    /\ rounds.anchor = Anchor(h)

\* Mutant: the head is not looked at.
RecoveredUnchecked(json, rounds) ==
    IF rounds.open THEN json \o rounds.tail ELSE json

\* What a load of the two files returns: the .json, plus the journal when it
\* extends exactly that.
Recovered(json, rounds) ==
    IF Extends(rounds, json) THEN json \o rounds.tail ELSE json

\* A chunk appended to a journal that is already open.
AppendChunk(rounds, msgs) ==
    IF rounds.torn THEN rounds ELSE [rounds EXCEPT !.tail = @ \o msgs]
=============================================================================
