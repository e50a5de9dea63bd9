--------------------------- MODULE SaveFiles_proofs ---------------------------
(***************************************************************************)
(* What the saves of SavePipeline leave on disk, for any number of         *)
(* processes, sessions, messages, failures and crashes: the cursor tells   *)
(* the truth about the files, the files hold the mirror, a quiet process   *)
(* is durable, and a journal never replays a message the history already   *)
(* has (hrdr-tui/src/app/session.rs, hrdr-agent/src/session.rs).           *)
(*                                                                         *)
(* None of the four is inductive: between two settled states a process has *)
(* a snapshot waiting, a write running, a report on its way and an agent   *)
(* that is ahead of the UI.  The invariant SaveInv is, and says            *)
(*                                                                         *)
(*   - IInv: the types and the bookkeeping (SavePipeline_proofs);          *)
(*   - OwnsOK: a process that has a session holds its open-lock, so no     *)
(*     other process writes those files;                                   *)
(*   - FilesOK: what a file replays to has no message twice, whoever wrote *)
(*     it last and wherever a crash tore it;                               *)
(*   - ProcessesOK: of each process, how the agent's history follows the   *)
(*     mirror, the mirror what is being written, and what is written the   *)
(*     files, through every report still unread (Keeps).                   *)
(*                                                                         *)
(* The theorems take Allowed = {}: the UI is in step with its agent, an    *)
(* abort lands at once, a process keeps its session and never quits, as in *)
(* the run SaveOneProcess.  Crashes, restarts, failed and torn writes and  *)
(* other processes are all there.  The races of Allowed stay with the      *)
(* runs: three of them end in the disagreements the violation runs show.   *)
(*                                                                         *)
(* Two more theorems follow from SaveInv: a lone process implements        *)
(* LatestWins (seen from outside, its journal, cursor and tasks write      *)
(* whole snapshots, one at a time and the newest next), and what a load    *)
(* gives is never older than what it gave before.                          *)
(***************************************************************************)
EXTENDS SavePipeline_proofs, MCSavePipeline, SequenceLemmas

(***************************************************************************)
(* Histories, and how one follows another.                                 *)
(***************************************************************************)

\* No compaction gives one message for one: a history it rewrote is shorter.
Unbroken == 1 \notin CompactHeads

\* Nothing in g is newer than all of h.
NotOlder(g, h) == \A i \in DOMAIN g : \E j \in DOMAIN h : g[i] <= h[j]

\* h is a later state of the conversation than g: it is not older, what they
\* share never moved back, what was not the last message of g is not the last of
\* h, and, unless a compaction may give one message for one, a message that kept
\* its place has nothing changed before it.
Follows(g, h) ==
    /\ NotOlder(g, h)
    /\ \A i \in DOMAIN g, j \in DOMAIN h : g[i] = h[j] =>
          /\ j <= i \/ Len(g) = 1
          /\ i < Len(g) => j < Len(h)
          /\ Unbroken /\ i = j => \A k \in 1..i : g[k] = h[k]

\* If h holds m, something was written after m.
Behind(m, h) == \A j \in DOMAIN h : h[j] = m => j < Len(h)

\* A history of messages drawn before nm, none of them twice.
Good(h, nm) ==
    /\ h \in History /\ IsInjective(h)
    /\ \A j \in DOMAIN h : h[j] < nm /\ (h[j] = Sys => j = 1)

\* h2 is h after one change that drew the message nm.
Changed(h, h2, nm) ==
    /\ Good(h2, nm + 1)
    /\ \E j \in DOMAIN h2 : h2[j] = nm
    /\ \A j \in DOMAIN h2 :
          \/ h2[j] = nm
          \/ h2[j] = Sys /\ j = 1 /\ Len(h2) > 1
          \/ \E i \in DOMAIN h : /\ h2[j] = h[i] /\ j <= i
                                 /\ i < Len(h) => j < Len(h2)
                                 /\ Unbroken /\ i = j => \A k \in 1..i : h2[k] = h[k]

LEMMA HistoryFacts ==
    ASSUME NEW h \in History
    PROVE  /\ Len(h) \in Nat /\ DOMAIN h = 1..Len(h)
           /\ \A i \in DOMAIN h : h[i] \in Message /\ h[i] \in Nat
           /\ h = << >> <=> Len(h) = 0
<1>1. h \in Seq(Message)
  BY DEF History
<1>2. Len(h) \in Nat /\ DOMAIN h = 1..Len(h)
  BY <1>1, LenProperties
<1>3. h = << >> <=> Len(h) = 0
  BY <1>1, EmptySeq
<1>4. \A i \in 1..Len(h) : h[i] \in Message
  BY <1>1, ElementOfSeq
<1>5. Message \subseteq Nat
  BY MessageFacts DEF Message
<1>. QED BY <1>2, <1>3, <1>4, <1>5

LEMMA GoodLater ==
    ASSUME NEW h, NEW nm \in Nat, NEW n \in Nat, nm <= n, Good(h, nm)
    PROVE  Good(h, n)
<1>1. h \in History
  BY DEF Good
<1>. QED BY <1>1, HistoryFacts DEF Good

LEMMA EmptyGood ==
    ASSUME NEW nm
    PROVE  Good(<< >>, nm)
BY MessageFacts DEF Good, IsInjective

LEMMA BlankGood ==
    ASSUME NEW nm \in Nat, nm > Sys
    PROVE  Good(Blank, nm)
<1>1. Blank \in History /\ DOMAIN Blank = {1} /\ Blank[1] = Sys
  BY MessageFacts DEF Blank
<1>. QED BY <1>1 DEF Good, IsInjective

LEMMA FollowsItself ==
    ASSUME NEW h, NEW nm, Good(h, nm)
    PROVE  Follows(h, h)
<1>1. /\ h \in History
      /\ \A a, b \in DOMAIN h : h[a] = h[b] => a = b
  BY DEF Good, IsInjective
<1>2. /\ Len(h) \in Nat /\ DOMAIN h = 1..Len(h)
      /\ \A i \in DOMAIN h : h[i] \in Nat
  BY <1>1, HistoryFacts
<1>2a. NotOlder(h, h)
  BY <1>2 DEF NotOlder
<1>. SUFFICES ASSUME NEW i \in DOMAIN h, NEW j \in DOMAIN h, h[i] = h[j]
              PROVE  /\ j <= i \/ Len(h) = 1
                     /\ i < Len(h) => j < Len(h)
                     /\ Unbroken /\ i = j => \A k \in 1..i : h[k] = h[k]
  BY <1>2a DEF Follows
<1>3. i = j
  BY <1>1
<1>. QED BY <1>2, <1>3

LEMMA EmptyFollowed ==
    ASSUME NEW h
    PROVE  Follows(<< >>, h)
BY DEF Follows, NotOlder

\* What follows a history still follows it after a change.
LEMMA StillFollows ==
    ASSUME NEW nm \in Nat, NEW g, NEW h, NEW h2,
           Good(g, nm), Good(h, nm), Follows(g, h), Changed(h, h2, nm)
    PROVE  Follows(g, h2)
<1>1. /\ g \in History /\ h \in History /\ h2 \in History
      /\ \A j \in DOMAIN g : g[j] < nm /\ (g[j] = Sys => j = 1)
  BY DEF Good, Changed
<1>2. /\ Len(g) \in Nat /\ DOMAIN g = 1..Len(g)
      /\ Len(h) \in Nat /\ DOMAIN h = 1..Len(h)
      /\ Len(h2) \in Nat /\ DOMAIN h2 = 1..Len(h2)
      /\ \A i \in DOMAIN g : g[i] \in Nat
  BY <1>1, HistoryFacts
<1>2a. NotOlder(g, h2)
  BY <1>1, <1>2 DEF NotOlder, Changed
<1>. SUFFICES ASSUME NEW i \in DOMAIN g, NEW j \in DOMAIN h2, g[i] = h2[j]
              PROVE  /\ j <= i \/ Len(g) = 1
                     /\ i < Len(g) => j < Len(h2)
                     /\ Unbroken /\ i = j => \A k \in 1..i : g[k] = h2[k]
  BY <1>2a DEF Follows
<1>3. h2[j] # nm
  BY <1>1
<1>4. CASE h2[j] = Sys /\ j = 1 /\ Len(h2) > 1
  BY <1>1, <1>2, <1>4
<1>5. ASSUME NEW k \in DOMAIN h, h2[j] = h[k], j <= k,
             k < Len(h) => j < Len(h2),
             Unbroken /\ k = j => \A m \in 1..k : h2[m] = h[m]
      PROVE  /\ j <= i \/ Len(g) = 1
             /\ i < Len(g) => j < Len(h2)
             /\ Unbroken /\ i = j => \A m \in 1..i : g[m] = h2[m]
  <2>1. /\ k <= i \/ Len(g) = 1
        /\ i < Len(g) => k < Len(h)
        /\ Unbroken /\ i = k => \A m \in 1..i : g[m] = h[m]
    BY <1>5 DEF Follows
  <2>2. j <= i \/ Len(g) = 1
    BY <1>2, <1>5, <2>1
  <2>3. ASSUME Unbroken, i = j PROVE \A m \in 1..i : g[m] = h2[m]
    <3>1. CASE k = i
      BY <1>5, <2>1, <2>3, <3>1
    <3>2. CASE k # i
      <4>1. i = 1
        BY <1>2, <1>5, <2>1, <2>3, <3>2
      <4>. QED BY <4>1, <2>3
    <3>. QED BY <3>1, <3>2
  <2>. QED BY <1>5, <2>1, <2>2, <2>3
<1>6. \/ h2[j] = nm
      \/ h2[j] = Sys /\ j = 1 /\ Len(h2) > 1
      \/ \E k \in DOMAIN h : /\ h2[j] = h[k] /\ j <= k
                             /\ k < Len(h) => j < Len(h2)
                             /\ Unbroken /\ k = j => \A m \in 1..k : h2[m] = h[m]
  BY DEF Changed
<1>. QED BY <1>3, <1>4, <1>5, <1>6

LEMMA StillBehind ==
    ASSUME NEW nm \in Nat, NEW m \in Nat, m < nm, NEW h, NEW h2,
           Good(h, nm), Behind(m, h), Changed(h, h2, nm)
    PROVE  Behind(m, h2)
<1>. SUFFICES ASSUME NEW j \in DOMAIN h2, h2[j] = m
              PROVE  j < Len(h2)
  BY DEF Behind
<1>1. h2[j] # nm
  OBVIOUS
<1>2. \A k \in DOMAIN h : h[k] = m => k < Len(h)
  BY DEF Behind
<1>. QED BY <1>1, <1>2 DEF Changed

\* The three ways a turn changes the history.
LEMMA AppendChanges ==
    ASSUME NEW nm \in Message, nm > Sys, NEW h, Good(h, nm)
    PROVE  Changed(h, Append(h, nm), nm)
<1>. DEFINE h2 == Append(h, nm)
<1>1. /\ h \in History /\ nm \in Nat
      /\ \A a, b \in DOMAIN h : h[a] = h[b] => a = b
      /\ \A j \in DOMAIN h : h[j] < nm /\ (h[j] = Sys => j = 1)
  BY MessageFacts DEF Good, IsInjective, Message
<1>2. /\ Len(h) \in Nat /\ DOMAIN h = 1..Len(h)
      /\ \A j \in DOMAIN h : h[j] \in Nat
  BY <1>1, HistoryFacts
<1>3. h2 \in History /\ Len(h2) = Len(h) + 1
      /\ h2[Len(h) + 1] = nm /\ \A j \in 1..Len(h) : h2[j] = h[j]
  BY <1>1, AppendProperties, HistoryGrows DEF History
<1>4. DOMAIN h2 = 1..Len(h) + 1
  BY <1>3, HistoryFacts
<1>. HIDE DEF h2
<1>5. Good(h2, nm + 1)
  <2>1. \A a, b \in DOMAIN h2 : h2[a] = h2[b] => a = b
    BY <1>1, <1>2, <1>3, <1>4
  <2>2. \A j \in DOMAIN h2 : h2[j] < nm + 1 /\ (h2[j] = Sys => j = 1)
    BY <1>1, <1>2, <1>3, <1>4
  <2>. QED BY <1>3, <2>1, <2>2 DEF Good, IsInjective
<1>6. ASSUME NEW j \in DOMAIN h2, h2[j] # nm
      PROVE  \E i \in DOMAIN h : /\ h2[j] = h[i] /\ j <= i
                                 /\ i < Len(h) => j < Len(h2)
                                 /\ Unbroken /\ i = j => \A k \in 1..i : h2[k] = h[k]
  <2>1. j \in DOMAIN h /\ h2[j] = h[j]
    BY <1>2, <1>3, <1>4, <1>6
  <2>2. \A k \in 1..j : h2[k] = h[k]
    BY <1>2, <1>3, <2>1
  <2>. QED BY <1>2, <1>3, <2>1, <2>2
<1>7. \E j \in DOMAIN h2 : h2[j] = nm
  BY <1>2, <1>3, <1>4
<1>. QED BY <1>5, <1>6, <1>7 DEF Changed, h2

LEMMA NoteChanges ==
    ASSUME NEW nm \in Message, nm > Sys, NEW h, Good(h, nm), Len(h) > 1
    PROVE  Changed(h, [h EXCEPT ![Len(h)] = nm], nm)
<1>. DEFINE n == Len(h)
            h2 == [h EXCEPT ![n] = nm]
<1>1. /\ h \in History /\ nm \in Nat
      /\ \A a, b \in DOMAIN h : h[a] = h[b] => a = b
      /\ \A j \in DOMAIN h : h[j] < nm /\ (h[j] = Sys => j = 1)
  BY MessageFacts DEF Good, IsInjective, Message
<1>2. /\ n \in Nat /\ n > 1 /\ DOMAIN h = 1..n
      /\ \A j \in DOMAIN h : h[j] \in Nat
  BY <1>1, HistoryFacts
<1>. HIDE DEF n
<1>3. /\ h2 \in History /\ Len(h2) = n /\ h2[n] = nm
      /\ \A j \in 1..n : j # n => h2[j] = h[j]
  <2>1. n \in 1..Len(h) /\ h \in Seq(Message) /\ Len(h) = n
    BY <1>1, <1>2 DEF History, n
  <2>2. /\ [h EXCEPT ![n] = nm] \in Seq(Message)
        /\ Len([h EXCEPT ![n] = nm]) = Len(h)
        /\ \A j \in 1..Len(h) : [h EXCEPT ![n] = nm][j] = IF j = n THEN nm ELSE h[j]
    BY <2>1, ExceptSeq
  <2>3. h2 = [h EXCEPT ![n] = nm]
    OBVIOUS
  <2>. HIDE DEF h2
  <2>. QED BY <1>2, <2>1, <2>2, <2>3 DEF History
<1>4. DOMAIN h2 = 1..n
  BY <1>3, HistoryFacts
<1>. HIDE DEF h2
<1>5. Good(h2, nm + 1)
  <2>1. \A a, b \in DOMAIN h2 : h2[a] = h2[b] => a = b
    BY <1>1, <1>2, <1>3, <1>4
  <2>2. \A j \in DOMAIN h2 : h2[j] < nm + 1 /\ (h2[j] = Sys => j = 1)
    BY <1>1, <1>2, <1>3, <1>4
  <2>. QED BY <1>3, <2>1, <2>2 DEF Good, IsInjective
<1>6. ASSUME NEW j \in DOMAIN h2, h2[j] # nm
      PROVE  \E i \in DOMAIN h : /\ h2[j] = h[i] /\ j <= i
                                 /\ i < n => j < Len(h2)
                                 /\ Unbroken /\ i = j => \A k \in 1..i : h2[k] = h[k]
  <2>1. j \in DOMAIN h /\ h2[j] = h[j] /\ j < n
    BY <1>2, <1>3, <1>4, <1>6
  <2>2. \A k \in 1..j : h2[k] = h[k]
    BY <1>2, <1>3, <2>1
  <2>. QED BY <1>2, <1>3, <2>1, <2>2
<1>7. \E j \in DOMAIN h2 : h2[j] = nm
  BY <1>2, <1>3, <1>4
<1>. QED BY <1>5, <1>6, <1>7 DEF Changed, h2, n

LEMMA CompactChanges ==
    ASSUME NEW nm \in Message, nm > Sys, NEW h, Good(h, nm), Len(h) > 2,
           NEW n \in CompactHeads, n + 1 <= Len(h)
    PROVE  Changed(h, <<Sys, nm>> \o From(h, n + 1), nm)
<1>. DEFINE back == From(h, n + 1)
            h2 == <<Sys, nm>> \o back
<1>1. /\ h \in History /\ nm \in Nat /\ Sys \in Nat /\ Sys \in Message /\ Sys # nm
      /\ \A a, b \in DOMAIN h : h[a] = h[b] => a = b
      /\ \A j \in DOMAIN h : h[j] < nm /\ (h[j] = Sys => j = 1)
  BY MessageFacts DEF Good, IsInjective, Message, Sys
<1>2. /\ Len(h) \in Nat /\ DOMAIN h = 1..Len(h)
      /\ \A j \in DOMAIN h : h[j] \in Nat
  BY <1>1, HistoryFacts
<1>3. n \in Nat \ {0} /\ (Unbroken => n # 1)
  BY BoundsAssumption DEF Unbroken
<1>4. /\ back \in History /\ Len(back) = Len(h) - (n + 1)
      /\ \A j \in 1..Len(h) - (n + 1) : back[j] = h[n + 1 + j]
  <2>1. /\ SubSeq(h, n + 2, Len(h)) \in Seq(Message)
        /\ Len(SubSeq(h, n + 2, Len(h))) =
              IF n + 2 <= Len(h) THEN Len(h) - (n + 2) + 1 ELSE 0
        /\ \A j \in 1..Len(h) - (n + 2) + 1 :
              SubSeq(h, n + 2, Len(h))[j] = h[n + 2 + j - 1]
    <3>1. h \in Seq(Message) /\ \A j \in n + 2 .. Len(h) : h[j] \in Message
      BY <1>1, <1>2, <1>3, ElementOfSeq DEF History
    <3>. QED BY <1>2, <1>3, <3>1, SubSeqProperties
  <2>2. back = SubSeq(h, n + 2, Len(h))
    BY <1>3 DEF From
  <2>. DEFINE f == SubSeq(h, n + 2, Len(h))
  <2>3. f \in Seq(Message) /\ Len(f) = Len(h) - (n + 1)
    <3>1. f \in Seq(Message) /\ Len(f) = IF n + 2 <= Len(h) THEN Len(h) - (n + 2) + 1 ELSE 0
      BY <2>1
    <3>. HIDE DEF f
    <3>2. Len(h) \in Nat /\ n \in Nat /\ n + 1 <= Len(h)
      BY <1>2, <1>3
    <3>. QED BY <3>1, <3>2
  <2>4. \A j \in 1..Len(h) - (n + 1) : f[j] = h[n + 1 + j]
    BY <1>2, <1>3, <2>1
  <2>5. back = f
    BY <2>2
  <2>. HIDE DEF back, f
  <2>. QED BY <2>3, <2>4, <2>5 DEF History
<1>. HIDE DEF back
<1>5. /\ h2 \in History /\ Len(h2) = Len(back) + 2 /\ h2[1] = Sys /\ h2[2] = nm
      /\ \A j \in 3..Len(back) + 2 : h2[j] = back[j - 2]
  <2>1. <<Sys, nm>> \in Seq(Message) /\ Len(<<Sys, nm>>) = 2
        /\ <<Sys, nm>>[1] = Sys /\ <<Sys, nm>>[2] = nm
    BY <1>1
  <2>2. Len(back) \in Nat /\ back \in Seq(Message)
    BY <1>4, HistoryFacts DEF History
  <2>3. /\ <<Sys, nm>> \o back \in Seq(Message)
        /\ Len(<<Sys, nm>> \o back) = 2 + Len(back)
        /\ \A j \in 1..2 + Len(back) :
              (<<Sys, nm>> \o back)[j] = IF j <= 2 THEN <<Sys, nm>>[j] ELSE back[j - 2]
    BY <2>1, <2>2, ConcatProperties
  <2>. HIDE DEF h2
  <2>4. h2 = <<Sys, nm>> \o back
    BY DEF h2
  <2>. QED BY <2>1, <2>2, <2>3, <2>4 DEF History
<1>6. DOMAIN h2 = 1..Len(back) + 2 /\ Len(back) \in Nat
  BY <1>4, <1>5, HistoryFacts
<1>. HIDE DEF h2
<1>7. \A j \in DOMAIN h2 : \/ j = 1 /\ h2[j] = Sys
                           \/ j = 2 /\ h2[j] = nm
                           \/ /\ j > 2 /\ j + n - 1 \in DOMAIN h /\ j + n - 1 > 1
                              /\ h2[j] = h[j + n - 1]
  BY <1>2, <1>3, <1>4, <1>5, <1>6, SMTT(30)
<1>8. Good(h2, nm + 1)
  <2>1. \A a, b \in DOMAIN h2 : h2[a] = h2[b] => a = b
    <3>. SUFFICES ASSUME NEW a \in DOMAIN h2, NEW b \in DOMAIN h2, h2[a] = h2[b]
                  PROVE  a = b
      OBVIOUS
    <3>1. a \in Nat /\ b \in Nat
      BY <1>6
    <3>. QED BY <1>1, <1>2, <1>3, <1>7, <3>1, SMTT(30)
  <2>2. \A j \in DOMAIN h2 : h2[j] < nm + 1 /\ (h2[j] = Sys => j = 1)
    BY <1>1, <1>2, <1>3, <1>6, <1>7
  <2>. QED BY <1>5, <2>1, <2>2 DEF Good, IsInjective
<1>9. ASSUME NEW j \in DOMAIN h2, h2[j] # nm, ~(h2[j] = Sys /\ j = 1 /\ Len(h2) > 1)
      PROVE  \E i \in DOMAIN h : /\ h2[j] = h[i] /\ j <= i
                                 /\ i < Len(h) => j < Len(h2)
                                 /\ Unbroken /\ i = j => \A k \in 1..i : h2[k] = h[k]
  <2>1. Len(h2) > 1 /\ j \in Nat
    BY <1>5, <1>6
  <2>2. j > 2 /\ j + n - 1 \in DOMAIN h /\ h2[j] = h[j + n - 1]
    BY <1>7, <1>9, <2>1
  <2>3. j <= j + n - 1 /\ (Unbroken => j # j + n - 1)
    BY <1>3, <2>1
  <2>4. j + n - 1 < Len(h) => j < Len(h2)
    BY <1>2, <1>3, <1>4, <1>5, <2>1
  <2>. QED BY <2>2, <2>3, <2>4
<1>10. \E j \in DOMAIN h2 : h2[j] = nm
  BY <1>5, <1>6
<1>. QED BY <1>8, <1>9, <1>10 DEF Changed, h2, back

(***************************************************************************)
(* What a round adds.                                                      *)
(***************************************************************************)

\* m keeps g and takes from h what is past it.
Spliced(g, h, m) ==
    /\ g # << >> /\ Len(g) <= Len(h) /\ g[Len(g)] = h[Len(g)]
    /\ m \in History /\ Len(m) = Len(h)
    /\ \A k \in 1..Len(h) : m[k] = IF k <= Len(g) THEN g[k] ELSE h[k]

LEMMA FromProperties ==
    ASSUME NEW h \in History, NEW n \in Nat, n <= Len(h)
    PROVE  /\ From(h, n) \in History /\ Len(From(h, n)) = Len(h) - n
           /\ \A j \in 1..Len(h) - n : From(h, n)[j] = h[n + j]
<1>1. Len(h) \in Nat /\ h \in Seq(Message) /\ \A j \in n + 1 .. Len(h) : h[j] \in Message
  BY HistoryFacts, ElementOfSeq DEF History
<1>2. /\ SubSeq(h, n + 1, Len(h)) \in Seq(Message)
      /\ Len(SubSeq(h, n + 1, Len(h))) =
            IF n + 1 <= Len(h) THEN Len(h) - (n + 1) + 1 ELSE 0
      /\ \A j \in 1..Len(h) - (n + 1) + 1 :
            SubSeq(h, n + 1, Len(h))[j] = h[n + 1 + j - 1]
  BY <1>1, SubSeqProperties
<1>. DEFINE f == SubSeq(h, n + 1, Len(h))
<1>3. From(h, n) = f
  BY DEF From
<1>. HIDE DEF f
<1>4. f \in Seq(Message) /\ Len(f) = Len(h) - n
      /\ \A j \in 1..Len(h) - n : f[j] = h[n + j]
  BY <1>1, <1>2 DEF f
<1>. QED BY <1>3, <1>4 DEF History

LEMMA AnchorIs ==
    ASSUME NEW h \in History
    PROVE  /\ h # << >> => Anchor(h) = h[Len(h)]
           /\ \A n \in 1..Len(h) : Anchor(Upto(h, n)) = h[n]
           /\ h = << >> => Anchor(h) = NoAnchor
<1>1. h # << >> => Anchor(h) = h[Len(h)]
  BY DEF Anchor, Last
<1>2. ASSUME NEW n \in 1..Len(h)
      PROVE  Anchor(Upto(h, n)) = h[n]
  <2>1. Len(h) \in Nat /\ h \in Seq(Message) /\ \A j \in 1..n : h[j] \in Message
    BY HistoryFacts, ElementOfSeq DEF History
  <2>2. /\ SubSeq(h, 1, n) \in Seq(Message)
        /\ Len(SubSeq(h, 1, n)) = IF 1 <= n THEN n - 1 + 1 ELSE 0
        /\ \A j \in 1..n - 1 + 1 : SubSeq(h, 1, n)[j] = h[1 + j - 1]
    BY <2>1, SubSeqProperties
  <2>. DEFINE f == SubSeq(h, 1, n)
  <2>3. Upto(h, n) = f
    BY DEF Upto
  <2>. HIDE DEF f
  <2>4. f \in Seq(Message) /\ Len(f) = n /\ f[n] = h[n]
    BY <2>1, <2>2 DEF f
  <2>5. f # << >>
    BY <2>4, EmptySeq
  <2>. QED BY <2>3, <2>4, <2>5 DEF Anchor, Last
<1>. QED BY <1>1, <1>2 DEF Anchor

\* A snapshot is adopted, or what it adds is spliced onto the mirror.
LEMMA AdoptedIs ==
    ASSUME NEW g \in History, NEW h \in History
    PROVE  /\ Adopted(g, h) \in History
           /\ Adopted(g, h) = h \/ Spliced(g, h, Adopted(g, h))
<1>1. /\ Len(g) \in Nat /\ DOMAIN g = 1..Len(g) /\ (g = << >> <=> Len(g) = 0)
      /\ Len(h) \in Nat /\ DOMAIN h = 1..Len(h)
  BY HistoryFacts
<1>2. CASE Len(g) <= Len(h) /\ Anchor(Upto(h, Len(g))) = Anchor(g)
  <2>. DEFINE f == From(h, Len(g))
              m == g \o f
  <2>1. Adopted(g, h) = m
    BY <1>2 DEF Adopted
  <2>2. /\ f \in History /\ Len(f) = Len(h) - Len(g)
        /\ \A j \in 1..Len(h) - Len(g) : f[j] = h[Len(g) + j]
    BY <1>1, <1>2, FromProperties
  <2>3. Len(g) \in 1..Len(h) => g[Len(g)] = h[Len(g)]
    BY <1>1, <1>2, AnchorIs
  <2>. HIDE DEF f
  <2>4. CASE g = << >>
    <3>1. m = f
      BY <2>2, <2>4, ConcatEmptySeq DEF History
    <3>2. Len(g) = 0
      BY <1>1, <2>4
    <3>3. Len(f) = Len(h) /\ \A j \in 1..Len(h) : f[j] = h[j]
      BY <1>1, <2>2, <3>2
    <3>4. f = h
      <4>. HIDE DEF m
      <4>. QED BY <2>2, <3>3, SeqEqual DEF History
    <3>. HIDE DEF m
    <3>. QED BY <2>1, <3>1, <3>4
  <2>5. CASE g # << >>
    <3>1. /\ g \o f \in Seq(Message) /\ Len(g \o f) = Len(g) + Len(f)
          /\ \A k \in 1..Len(g) + Len(f) :
                (g \o f)[k] = IF k <= Len(g) THEN g[k] ELSE f[k - Len(g)]
      BY <2>2, ConcatProperties DEF History
    <3>2. m \in Seq(Message) /\ Len(m) = Len(g) + Len(f)
      BY <3>1
    <3>3. \A k \in 1..Len(g) + Len(f) : m[k] = IF k <= Len(g) THEN g[k] ELSE f[k - Len(g)]
      BY <3>1
    <3>. HIDE DEF m
    <3>4. Len(m) = Len(h) /\ m \in History
      BY <1>1, <2>2, <3>2 DEF History
    <3>5. ASSUME NEW k \in 1..Len(h) PROVE m[k] = IF k <= Len(g) THEN g[k] ELSE h[k]
      BY <1>1, <2>2, <3>3
    <3>6. g[Len(g)] = h[Len(g)]
      BY <1>1, <1>2, <2>3, <2>5
    <3>. QED BY <1>2, <2>1, <2>5, <3>4, <3>5, <3>6 DEF Spliced
  <2>. QED BY <2>4, <2>5
<1>3. CASE ~(Len(g) <= Len(h) /\ Anchor(Upto(h, Len(g))) = Anchor(g))
  BY <1>3 DEF Adopted
<1>. QED BY <1>2, <1>3

\* The facts about a spliced history that the lemmas below share.
LEMMA SplicedFacts ==
    ASSUME NEW nm \in Nat, NEW g, NEW h, NEW m, Good(g, nm), Good(h, nm), Spliced(g, h, m)
    PROVE  /\ g \in History /\ h \in History /\ m \in History
           /\ Len(g) \in Nat \ {0} /\ DOMAIN g = 1..Len(g)
           /\ Len(h) \in Nat \ {0} /\ DOMAIN h = 1..Len(h)
           /\ Len(m) = Len(h) /\ DOMAIN m = 1..Len(h)
           /\ Len(g) <= Len(h) /\ g[Len(g)] = h[Len(g)]
           /\ \A k \in 1..Len(g) : m[k] = g[k]
           /\ \A k \in 1..Len(h) : k >= Len(g) => m[k] = h[k]
<1>1. /\ g \in History /\ h \in History /\ m \in History
  BY DEF Good, Spliced
<1>2. /\ Len(g) \in Nat /\ DOMAIN g = 1..Len(g) /\ (g = << >> <=> Len(g) = 0)
      /\ Len(h) \in Nat /\ DOMAIN h = 1..Len(h)
      /\ Len(m) \in Nat /\ DOMAIN m = 1..Len(m)
  BY <1>1, HistoryFacts
<1>3. /\ g # << >> /\ Len(g) <= Len(h) /\ g[Len(g)] = h[Len(g)] /\ Len(m) = Len(h)
      /\ \A k \in 1..Len(h) : m[k] = IF k <= Len(g) THEN g[k] ELSE h[k]
  BY DEF Spliced
<1>4. \A k \in 1..Len(g) : m[k] = g[k]
  BY <1>2, <1>3
<1>5. ASSUME NEW k \in 1..Len(h), k >= Len(g) PROVE m[k] = h[k]
  BY <1>2, <1>3, <1>5
<1>. QED BY <1>1, <1>2, <1>3, <1>4, <1>5

LEMMA SplicedGood ==
    ASSUME NEW nm \in Nat, NEW g, NEW h, NEW m, Good(g, nm), Good(h, nm), Spliced(g, h, m),
           Follows(g, h)
    PROVE  Good(m, nm)
<1>1. /\ m \in History
      /\ Len(g) \in Nat \ {0} /\ DOMAIN g = 1..Len(g)
      /\ Len(h) \in Nat \ {0} /\ DOMAIN h = 1..Len(h)
      /\ DOMAIN m = 1..Len(h)
      /\ Len(g) <= Len(h) /\ g[Len(g)] = h[Len(g)]
      /\ \A k \in 1..Len(g) : m[k] = g[k]
      /\ \A k \in 1..Len(h) : k >= Len(g) => m[k] = h[k]
  BY SplicedFacts
<1>2. /\ \A a, b \in DOMAIN g : g[a] = g[b] => a = b
      /\ \A j \in DOMAIN g : g[j] < nm /\ (g[j] = Sys => j = 1)
      /\ \A a, b \in DOMAIN h : h[a] = h[b] => a = b
      /\ \A j \in DOMAIN h : h[j] < nm /\ (h[j] = Sys => j = 1)
  BY DEF Good, IsInjective
<1>3. \A j \in DOMAIN m : m[j] < nm /\ (m[j] = Sys => j = 1)
  BY <1>1, <1>2
<1>4. ASSUME NEW a \in 1..Len(g), NEW b \in 1..Len(h), b > Len(g), m[a] = m[b]
      PROVE  FALSE
  <2>1. g[a] = h[b] /\ a \in DOMAIN g /\ b \in DOMAIN h
    BY <1>1, <1>4
  <2>2. b <= a \/ Len(g) = 1
    BY <2>1 DEF Follows
  <2>3. Len(g) = 1 /\ a = 1
    BY <1>1, <1>4, <2>2
  <2>4. h[1] = h[b] /\ 1 \in DOMAIN h
    BY <1>1, <2>1, <2>3
  <2>. QED BY <1>2, <1>4, <2>1, <2>3, <2>4
<1>5. \A a, b \in DOMAIN m : m[a] = m[b] => a = b
  <2>. SUFFICES ASSUME NEW a \in DOMAIN m, NEW b \in DOMAIN m, m[a] = m[b]
                PROVE  a = b
    OBVIOUS
  <2>1. CASE a <= Len(g) /\ b <= Len(g)
    BY <1>1, <1>2, <2>1
  <2>2. CASE a > Len(g) /\ b > Len(g)
    BY <1>1, <1>2, <2>2
  <2>3. CASE a <= Len(g) /\ b > Len(g)
    BY <1>1, <1>4, <2>3
  <2>4. CASE a > Len(g) /\ b <= Len(g)
    BY <1>1, <1>4, <2>4
  <2>. QED BY <1>1, <2>1, <2>2, <2>3, <2>4
<1>. QED BY <1>1, <1>3, <1>5 DEF Good, IsInjective

LEMMA SplicedUnbroken ==
    ASSUME NEW nm \in Nat, NEW g, NEW h, NEW m, Good(g, nm), Good(h, nm), Spliced(g, h, m),
           Follows(g, h), Unbroken
    PROVE  m = h
<1>1. /\ h \in History /\ m \in History
      /\ Len(g) \in Nat \ {0} /\ DOMAIN g = 1..Len(g)
      /\ Len(h) \in Nat \ {0} /\ DOMAIN h = 1..Len(h)
      /\ Len(m) = Len(h)
      /\ Len(g) <= Len(h) /\ g[Len(g)] = h[Len(g)]
      /\ \A k \in 1..Len(g) : m[k] = g[k]
      /\ \A k \in 1..Len(h) : k >= Len(g) => m[k] = h[k]
  BY SplicedFacts
<1>2. \A k \in 1..Len(g) : g[k] = h[k]
  <2>1. Len(g) \in DOMAIN g /\ Len(g) \in DOMAIN h
    BY <1>1
  <2>. QED BY <1>1, <2>1 DEF Follows
<1>3. \A k \in 1..Len(h) : m[k] = h[k]
  BY <1>1, <1>2
<1>. QED BY <1>1, <1>3, SeqEqual DEF History

LEMMA FollowsSpliced ==
    ASSUME NEW nm \in Nat, NEW g, NEW h, NEW m, Good(g, nm), Good(h, nm), Spliced(g, h, m),
           Follows(g, h), NEW x, Good(x, nm), Follows(x, g), Follows(x, h)
    PROVE  Follows(x, m)
<1>1. /\ Len(g) \in Nat \ {0} /\ DOMAIN g = 1..Len(g)
      /\ Len(h) \in Nat \ {0} /\ DOMAIN h = 1..Len(h)
      /\ DOMAIN m = 1..Len(h) /\ Len(m) = Len(h) /\ Len(g) <= Len(h)
      /\ \A k \in 1..Len(g) : m[k] = g[k]
      /\ \A k \in 1..Len(h) : k >= Len(g) => m[k] = h[k]
  BY SplicedFacts
<1>2. CASE Unbroken
  BY <1>2, SplicedUnbroken
<1>3. CASE ~Unbroken
  <2>0. NotOlder(x, m)
    <3>1. \A i \in DOMAIN x : \E j \in DOMAIN g : x[i] <= g[j]
      BY DEF Follows, NotOlder
    <3>2. \A j \in DOMAIN g : j \in DOMAIN m /\ m[j] = g[j]
      BY <1>1
    <3>. QED BY <3>1, <3>2 DEF NotOlder
  <2>. SUFFICES ASSUME NEW i \in DOMAIN x, NEW j \in DOMAIN m, x[i] = m[j]
                PROVE  (j <= i \/ Len(x) = 1) /\ (i < Len(x) => j < Len(m))
    BY <1>3, <2>0 DEF Follows
  <2>1. CASE j <= Len(g)
    <3>1. j \in DOMAIN g /\ m[j] = g[j]
      BY <1>1, <2>1
    <3>2. (j <= i \/ Len(x) = 1) /\ (i < Len(x) => j < Len(g))
      BY <3>1 DEF Follows
    <3>. QED BY <1>1, <3>2
  <2>2. CASE j > Len(g)
    <3>1. j \in DOMAIN h /\ m[j] = h[j]
      BY <1>1, <2>2
    <3>2. (j <= i \/ Len(x) = 1) /\ (i < Len(x) => j < Len(h))
      BY <3>1 DEF Follows
    <3>. QED BY <1>1, <3>2
  <2>. QED BY <1>1, <2>1, <2>2
<1>. QED BY <1>2, <1>3

LEMMA SplicedFollowed ==
    ASSUME NEW nm \in Nat, NEW g, NEW h, NEW m, Good(g, nm), Good(h, nm), Spliced(g, h, m),
           Follows(g, h), NEW x, Good(x, nm), Follows(g, x), Follows(h, x)
    PROVE  Follows(m, x)
<1>1. /\ Len(g) \in Nat \ {0} /\ DOMAIN g = 1..Len(g)
      /\ Len(h) \in Nat \ {0} /\ DOMAIN h = 1..Len(h)
      /\ DOMAIN m = 1..Len(h) /\ Len(m) = Len(h) /\ Len(g) <= Len(h)
      /\ \A k \in 1..Len(g) : m[k] = g[k]
      /\ \A k \in 1..Len(h) : k >= Len(g) => m[k] = h[k]
  BY SplicedFacts
<1>2. CASE Unbroken
  BY <1>2, SplicedUnbroken
<1>3. CASE ~Unbroken
  <2>0. NotOlder(m, x)
    <3>1. /\ \A i \in DOMAIN g : \E j \in DOMAIN x : g[i] <= x[j]
          /\ \A i \in DOMAIN h : \E j \in DOMAIN x : h[i] <= x[j]
      BY DEF Follows, NotOlder
    <3>2. \A i \in DOMAIN m : \/ i \in DOMAIN g /\ m[i] = g[i]
                              \/ i \in DOMAIN h /\ m[i] = h[i]
      BY <1>1
    <3>. QED BY <3>1, <3>2 DEF NotOlder
  <2>. SUFFICES ASSUME NEW i \in DOMAIN m, NEW j \in DOMAIN x, m[i] = x[j]
                PROVE  (j <= i \/ Len(m) = 1) /\ (i < Len(m) => j < Len(x))
    BY <1>3, <2>0 DEF Follows
  <2>1. CASE i < Len(g)
    <3>1. i \in DOMAIN g /\ m[i] = g[i] /\ Len(g) # 1
      BY <1>1, <2>1
    <3>2. (j <= i \/ Len(g) = 1) /\ (i < Len(g) => j < Len(x))
      BY <3>1 DEF Follows
    <3>. QED BY <2>1, <3>1, <3>2
  <2>2. CASE i >= Len(g)
    <3>1. i \in DOMAIN h /\ m[i] = h[i]
      BY <1>1, <2>2
    <3>2. (j <= i \/ Len(h) = 1) /\ (i < Len(h) => j < Len(x))
      BY <3>1 DEF Follows
    <3>. QED BY <1>1, <3>2
  <2>. QED BY <1>1, <2>1, <2>2
<1>. QED BY <1>2, <1>3

LEMMA BehindSpliced ==
    ASSUME NEW nm \in Nat, NEW g, NEW h, NEW m, Good(g, nm), Good(h, nm), Spliced(g, h, m),
           NEW a, Behind(a, g), Behind(a, h)
    PROVE  Behind(a, m)
<1>1. /\ Len(g) \in Nat \ {0} /\ DOMAIN g = 1..Len(g)
      /\ Len(h) \in Nat \ {0} /\ DOMAIN h = 1..Len(h)
      /\ DOMAIN m = 1..Len(h) /\ Len(m) = Len(h) /\ Len(g) <= Len(h)
      /\ \A k \in 1..Len(g) : m[k] = g[k]
      /\ \A k \in 1..Len(h) : k >= Len(g) => m[k] = h[k]
  BY SplicedFacts
<1>. SUFFICES ASSUME NEW j \in DOMAIN m, m[j] = a
              PROVE  j < Len(m)
  BY DEF Behind
<1>2. CASE j <= Len(g)
  <2>1. j \in DOMAIN g /\ g[j] = a
    BY <1>1, <1>2
  <2>2. j < Len(g)
    BY <2>1 DEF Behind
  <2>. QED BY <1>1, <2>2
<1>3. CASE j > Len(g)
  <2>1. j \in DOMAIN h /\ h[j] = a
    BY <1>1, <1>3
  <2>. QED BY <1>1, <2>1 DEF Behind
<1>. QED BY <1>1, <1>2, <1>3

\* What the UI has after adopting a snapshot that follows its mirror.
LEMMA AdoptedFits ==
    ASSUME NEW nm \in Nat, NEW g, NEW h, Good(g, nm), Good(h, nm), Follows(g, h)
    PROVE  /\ Good(Adopted(g, h), nm)
           /\ Unbroken => Adopted(g, h) = h
           /\ \A x : Good(x, nm) /\ Follows(x, g) /\ Follows(x, h) => Follows(x, Adopted(g, h))
           /\ \A x : Good(x, nm) /\ Follows(g, x) /\ Follows(h, x) => Follows(Adopted(g, h), x)
           /\ \A m : Behind(m, g) /\ Behind(m, h) => Behind(m, Adopted(g, h))
<1>. DEFINE m == Adopted(g, h)
<1>1. m = h \/ Spliced(g, h, m)
  BY AdoptedIs DEF Good
<1>. HIDE DEF m
<1>2. CASE m = h
  BY <1>2 DEF m
<1>3. CASE Spliced(g, h, m)
  BY <1>3, SplicedGood, SplicedUnbroken, FollowsSpliced, SplicedFollowed, BehindSpliced DEF m
<1>. QED BY <1>1, <1>2, <1>3

\* A history that holds more than the system prompt.
Proper(h) == h \notin {<< >>, Blank}

LEMMA AdoptedProper ==
    ASSUME NEW g \in History, NEW h \in History, Proper(h)
    PROVE  /\ Proper(Adopted(g, h))
           /\ Len(Adopted(g, h)) = Len(h)
           /\ Anchor(Adopted(g, h)) = Anchor(h)
<1>. DEFINE m == Adopted(g, h)
<1>1. CASE m = h
  BY <1>1
<1>2. CASE Spliced(g, h, m)
  <2>1. /\ Len(g) \in Nat /\ (g = << >> <=> Len(g) = 0)
        /\ Len(h) \in Nat /\ (h = << >> <=> Len(h) = 0)
        /\ m \in History /\ (m = << >> <=> Len(m) = 0)
    BY <1>2, HistoryFacts DEF Spliced
  <2>2. /\ g # << >> /\ Len(g) <= Len(h) /\ g[Len(g)] = h[Len(g)] /\ Len(m) = Len(h)
        /\ \A k \in 1..Len(h) : m[k] = IF k <= Len(g) THEN g[k] ELSE h[k]
    BY <1>2 DEF Spliced
  <2>. HIDE DEF m
  <2>3. Len(h) \in 1..Len(h) /\ m[Len(h)] = h[Len(h)]
    BY <2>1, <2>2
  <2>4. m # << >> /\ h # << >>
    BY <2>1, <2>2
  <2>5. Anchor(m) = Anchor(h)
    BY <2>1, <2>2, <2>3, <2>4, AnchorIs
  <2>6. m # Blank
    <3>1. SUFFICES ASSUME m = Blank PROVE FALSE
      OBVIOUS
    <3>2. Len(m) = 1 /\ Blank \in History
      BY <3>1, MessageFacts DEF Blank
    <3>3. Len(h) = 1 /\ m[1] = h[1]
      BY <2>2, <2>3, <3>2
    <3>4. h = m
      BY <2>1, <2>2, <3>3, SeqEqual DEF History
    <3>. QED BY <3>1, <3>4 DEF Proper
  <2>. QED BY <2>2, <2>4, <2>5, <2>6 DEF Proper, m
<1>. QED BY <1>1, <1>2, AdoptedIs

(***************************************************************************)
(* The two files of a session.                                             *)
(***************************************************************************)

\* The message a journal with rounds in it says it extends.
Anchors(r) == IF r.open /\ r.tail # << >> THEN {r.anchor} ELSE {}

\* The anchors of a journal are messages of the past of h.
Under(r, h, nm) == \A m \in Anchors(r) : m < nm /\ Behind(m, h)

\* The files of a session: what a load gives is a history, and a journal that
\* a full save has left behind cannot be taken for one that extends it.
FileOK(J, r, nm) ==
    /\ J = << >> => r = NoJournal
    /\ J # Blank
    /\ Good(J, nm) /\ Good(Recovered(J, r), nm)
    /\ Under(r, Recovered(J, r), nm)

\* The cursor c describes the files.
FilesAt(c, J, r) ==
    LET R == Recovered(J, r)
    IN  /\ J # << >>
        /\ c.base = Len(J) /\ c.baseAnchor = Anchor(J)
        /\ c.written = Len(R) /\ c.writtenAnchor = Anchor(R)
        /\ R # J => r.open /\ ~r.torn

LEMMA NoFile ==
    /\ Recovered(<< >>, NoJournal) = << >>
    /\ Anchors(NoJournal) = {}
    /\ \A nm : FileOK(<< >>, NoJournal, nm)
<1>1. Recovered(<< >>, NoJournal) = << >>
  BY DEF Recovered, Extends, NoJournal
<1>2. Anchors(NoJournal) = {}
  BY DEF Anchors, NoJournal
<1>3. << >> # Blank
  BY DEF Blank
<1>. QED BY <1>1, <1>2, <1>3, EmptyGood DEF FileOK, Under

LEMMA FileLater ==
    ASSUME NEW nm \in Nat, NEW n \in Nat, nm <= n,
           NEW J, NEW r \in JournalType, FileOK(J, r, nm)
    PROVE  FileOK(J, r, n)
<1>1. \A m \in Anchors(r) : m \in Nat
  BY MessageFacts DEF Anchors, JournalType, Message, NoAnchor
<1>2. Good(J, n) /\ Good(Recovered(J, r), n)
  BY GoodLater DEF FileOK
<1>3. Under(r, Recovered(J, r), n)
  BY <1>1 DEF FileOK, Under
<1>. QED BY <1>2, <1>3 DEF FileOK

\* A full save: the journal it supersedes no longer counts.
LEMMA FileReplaced ==
    ASSUME NEW nm \in Nat, NEW r \in JournalType,
           NEW h, Good(h, nm), Proper(h), Under(r, h, nm)
    PROVE  /\ Recovered(h, r) = h
           /\ FileOK(h, r, nm)
<1>1. h \in History /\ h # << >> /\ h # Blank
  BY DEF Good, Proper
<1>2. Len(h) \in DOMAIN h /\ Anchor(h) = h[Len(h)] /\ Len(h) \in Nat
  BY <1>1, HistoryFacts, AnchorIs
<1>3. CASE r.open /\ r.tail # << >>
  <2>1. Behind(r.anchor, h)
    BY <1>3 DEF Under, Anchors
  <2>2. r.anchor # Anchor(h)
    BY <1>2, <2>1 DEF Behind
  <2>. QED BY <1>1, <2>2 DEF Recovered, Extends, FileOK
<1>4. CASE ~(r.open /\ r.tail # << >>)
  <2>1. Recovered(h, r) = h
    <3>1. CASE ~r.open
      BY <3>1 DEF Recovered, Extends
    <3>2. CASE r.tail = << >>
      <4>1. h \o r.tail = h
        BY <1>1, <3>2, ConcatEmptySeq DEF History
      <4>. QED BY <4>1 DEF Recovered
    <3>. QED BY <1>4, <3>1, <3>2
  <2>. QED BY <1>1, <2>1 DEF FileOK
<1>. QED BY <1>3, <1>4

LEMMA RoundsRemoved ==
    ASSUME NEW J, NEW nm, Good(J, nm), J # Blank
    PROVE  /\ Recovered(J, NoJournal) = J
           /\ FileOK(J, NoJournal, nm)
<1>1. Recovered(J, NoJournal) = J
  BY DEF Recovered, Extends, NoJournal
<1>. QED BY <1>1, NoFile DEF FileOK, Under

\* A journal that a crash or an error left without what was being appended.
LEMMA RoundsTorn ==
    ASSUME NEW nm \in Nat, NEW J, NEW r \in JournalType, FileOK(J, r, nm), J # << >>,
           NEW r2,
           \/ r2 = HeadlessJournal
           \/ \E b, a : r2 = Journal(b, a, << >>, TRUE)
           \/ r2 = [r EXCEPT !.torn = TRUE]
    PROVE  /\ FileOK(J, r2, nm)
           /\ Recovered(J, r2) \in {J, Recovered(J, r)}
           /\ Anchors(r2) \subseteq Anchors(r)
<1>1. J \in History /\ Len(J) \in Nat /\ Len(J) # 0 /\ J # Blank
      /\ Good(J, nm) /\ Good(Recovered(J, r), nm) /\ Under(r, Recovered(J, r), nm)
  BY HistoryFacts DEF FileOK, Good
<1>2. CASE r2 = HeadlessJournal
  <2>1. r2.open /\ r2.tail = << >> /\ r2.base = 0
    BY <1>2 DEF HeadlessJournal, NoJournal
  <2>2. Recovered(J, r2) = J /\ Anchors(r2) = {}
    BY <1>1, <2>1 DEF Recovered, Extends, Anchors
  <2>. QED BY <1>1, <2>2 DEF FileOK, Under
<1>3. ASSUME NEW b, NEW a, r2 = Journal(b, a, << >>, TRUE)
      PROVE  /\ FileOK(J, r2, nm)
             /\ Recovered(J, r2) \in {J, Recovered(J, r)}
             /\ Anchors(r2) \subseteq Anchors(r)
  <2>1. r2.tail = << >>
    BY <1>3 DEF Journal
  <2>2. J \o r2.tail = J
    BY <1>1, <2>1, ConcatEmptySeq DEF History
  <2>3. Recovered(J, r2) = J /\ Anchors(r2) = {}
    BY <2>1, <2>2 DEF Recovered, Anchors
  <2>. QED BY <1>1, <2>3 DEF FileOK, Under
<1>4. CASE r2 = [r EXCEPT !.torn = TRUE]
  <2>1. r2.open = r.open /\ r2.base = r.base /\ r2.anchor = r.anchor /\ r2.tail = r.tail
    BY <1>4 DEF JournalType
  <2>2. Recovered(J, r2) = Recovered(J, r) /\ Anchors(r2) = Anchors(r)
    BY <2>1 DEF Recovered, Extends, Anchors
  <2>. QED BY <1>1, <2>2 DEF FileOK, Under
<1>. QED BY <1>2, <1>3, <1>4

\* What was not the last message of a history is not the last of one that follows.
LEMMA LaterBehind ==
    ASSUME NEW h \in History, NEW x, Follows(h, x), NEW i \in DOMAIN h, i < Len(h)
    PROVE  Behind(h[i], x)
BY DEF Follows, Behind

LEMMA ConcatTwice ==
    ASSUME NEW s \in Seq(Message), NEW t \in Seq(Message), NEW u \in Seq(Message)
    PROVE  (s \o t) \o u = s \o (t \o u)
BY ConcatAssociative

\* The journal a round leaves: opened on the .json, or with one more chunk.
RoundsAfter(J, r, h) ==
    LET R == Recovered(J, r)
    IN  IF R = J THEN Journal(Len(J), Anchor(J), From(h, Len(R)), FALSE)
        ELSE AppendChunk(r, From(h, Len(R)))

\* A round appended to the files: loading them gives what the UI would get by
\* adopting the snapshot, and nothing written later looks like their .json.
LEMMA RoundAppended ==
    ASSUME NEW nm \in Nat, NEW J, NEW r \in JournalType, FileOK(J, r, nm), J # << >>,
           Recovered(J, r) # J => r.open /\ ~r.torn,
           NEW h, Good(h, nm), Proper(h), Follows(Recovered(J, r), h), Under(r, h, nm),
           Len(Recovered(J, r)) < Len(h),
           Anchor(Upto(h, Len(Recovered(J, r)))) = Anchor(Recovered(J, r))
    PROVE  /\ Recovered(J, RoundsAfter(J, r, h)) = Adopted(Recovered(J, r), h)
           /\ RoundsAfter(J, r, h).open /\ ~RoundsAfter(J, r, h).torn
           /\ FileOK(J, RoundsAfter(J, r, h), nm)
           /\ \A x : Under(r, x, nm) /\ Follows(h, x) => Under(RoundsAfter(J, r, h), x, nm)
<1>. DEFINE R == Recovered(J, r)
            f == From(h, Len(R))
            r2 == RoundsAfter(J, r, h)
            M == Adopted(R, h)
<1>1. /\ J \in History /\ J # Blank /\ Good(J, nm) /\ Good(R, nm) /\ R \in History
      /\ Under(r, R, nm) /\ h \in History
  BY DEF FileOK, Good
<1>2. /\ Len(J) \in Nat /\ Len(J) # 0
      /\ Len(R) \in Nat /\ DOMAIN R = 1..Len(R)
      /\ Len(h) \in Nat /\ DOMAIN h = 1..Len(h) /\ Len(R) < Len(h)
  BY <1>1, HistoryFacts
<1>3. M = R \o f
  <2>1. Len(R) <= Len(h) /\ Anchor(Upto(h, Len(R))) = Anchor(R)
    BY <1>2
  <2>. HIDE DEF R
  <2>. QED BY <2>1 DEF Adopted
<1>4. R # << >>
  <2>1. CASE R = J
    BY <2>1
  <2>2. CASE R # J
    <3>1. R = J \o r.tail
      BY <2>2 DEF Recovered
    <3>2. r.tail \in History
      BY DEF JournalType
    <3>3. Len(J \o r.tail) = Len(J) + Len(r.tail) /\ Len(r.tail) \in Nat
      BY <1>1, <3>2, HistoryFacts, ConcatProperties DEF History
    <3>4. Len(R) # 0
      BY <1>2, <3>1, <3>3
    <3>. QED BY <1>1, <3>4, HistoryFacts
  <2>. QED BY <2>1, <2>2
<1>5. Len(R) \in 1..Len(h) /\ Len(R) \in DOMAIN R /\ Len(R) \in DOMAIN h
  BY <1>1, <1>2, <1>4, HistoryFacts
<1>6. R[Len(R)] = h[Len(R)] /\ Anchor(R) = R[Len(R)]
  BY <1>1, <1>4, <1>5, AnchorIs
<1>7. f \in History /\ Len(f) # 0 /\ Len(f) = Len(h) - Len(R) /\ Len(f) \in Nat
  <2>1. Len(R) \in Nat /\ Len(R) <= Len(h)
    BY <1>2
  <2>2. f \in History /\ Len(f) = Len(h) - Len(R)
    BY <1>1, <2>1, FromProperties
  <2>3. Len(f) \in Nat
    BY <2>2, HistoryFacts
  <2>. DEFINE k == Len(R)
              n == Len(h)
  <2>4. k \in Nat /\ n \in Nat /\ k < n
    BY <1>2
  <2>. HIDE DEF k, n
  <2>5. n - k # 0
    BY <2>4
  <2>. QED BY <2>2, <2>3, <2>5 DEF k, n
<1>8. Recovered(J, r2) = M /\ r2.open /\ ~r2.torn /\ r2.tail # << >>
      /\ r2.anchor \in Anchors(r) \cup {h[Len(R)]}
  <2>1. CASE R = J
    <3>1. r2 = Journal(Len(J), Anchor(J), f, FALSE)
      BY <2>1 DEF RoundsAfter
    <3>2. r2.open /\ ~r2.torn /\ r2.base = Len(J) /\ r2.anchor = Anchor(J) /\ r2.tail = f
      BY <3>1 DEF Journal
    <3>3. Recovered(J, r2) = J \o f
      BY <3>2 DEF Recovered, Extends
    <3>4. f # << >>
      BY <1>7, HistoryFacts
    <3>. QED BY <1>3, <1>6, <2>1, <3>2, <3>3, <3>4
  <2>2. CASE R # J
    <3>1. R = J \o r.tail /\ Extends(r, J) /\ r.open /\ ~r.torn
      BY <2>2 DEF Recovered
    <3>2. r2 = [r EXCEPT !.tail = r.tail \o f]
      BY <2>2, <3>1 DEF RoundsAfter, AppendChunk
    <3>3. /\ r2.open /\ ~r2.torn /\ r2.base = r.base /\ r2.anchor = r.anchor
          /\ r2.tail = r.tail \o f
      BY <3>1, <3>2 DEF JournalType
    <3>4. r.tail \in Seq(Message) /\ f \in Seq(Message) /\ J \in Seq(Message)
      BY <1>1, <1>7 DEF JournalType, History
    <3>5. (J \o r.tail) \o f = J \o (r.tail \o f)
      BY <3>4, ConcatTwice
    <3>6. Recovered(J, r2) = J \o (r.tail \o f)
      BY <3>1, <3>3 DEF Recovered, Extends
    <3>7. r.tail # << >>
      <4>1. J \o << >> = J
        BY <3>4, ConcatEmptySeq
      <4>. QED BY <2>2, <3>1, <4>1
    <3>8. r.tail \o f # << >>
      <4>1. Len(r.tail \o f) = Len(r.tail) + Len(f) /\ Len(r.tail) \in Nat /\ Len(f) \in Nat
        BY <3>4, ConcatProperties, LenProperties
      <4>2. Len(r.tail \o f) # 0
        BY <1>7, <4>1
      <4>. QED BY <4>2
    <3>9. r2.anchor \in Anchors(r)
      BY <3>1, <3>3, <3>7 DEF Anchors
    <3>. QED BY <1>3, <3>1, <3>3, <3>5, <3>6, <3>8, <3>9
  <2>. QED BY <2>1, <2>2
<1>9. Good(M, nm) /\ \A m : Behind(m, R) /\ Behind(m, h) => Behind(m, M)
  BY <1>1, AdoptedFits
<1>10. h[Len(R)] < nm
  BY <1>5 DEF Good
<1>. HIDE DEF r2, M, R, f
<1>11. Anchors(r2) \subseteq Anchors(r) \cup {h[Len(R)]}
  BY <1>8 DEF Anchors
<1>12. ASSUME NEW x, Under(r, x, nm), Follows(h, x)
       PROVE  Under(r2, x, nm)
  <2>1. Behind(h[Len(R)], x)
    BY <1>1, <1>2, <1>5, <1>12, LaterBehind
  <2>. QED BY <1>10, <1>11, <1>12, <2>1 DEF Under
<1>13. Under(r2, M, nm)
  <2>1. Behind(h[Len(R)], M)
    <3>1. Behind(h[Len(R)], h)
      BY <1>1, <1>2, <1>5, FollowsItself, LaterBehind
    <3>2. Len(M) = Len(h) /\ \A k \in 1..Len(R) : M[k] = R[k]
      <4>1. /\ Len(R \o f) = Len(R) + Len(f)
            /\ \A k \in 1..Len(R) + Len(f) :
                  (R \o f)[k] = IF k <= Len(R) THEN R[k] ELSE f[k - Len(R)]
        BY <1>1, <1>7, ConcatProperties DEF History
      <4>2. Len(f) = Len(h) - Len(R) /\ Len(f) \in Nat
        BY <1>7
      <4>. QED BY <1>2, <1>3, <4>1, <4>2
    <3>3. M \in History /\ DOMAIN M = 1..Len(h)
      BY <1>9, <3>2, HistoryFacts DEF Good
    <3>4. Len(R) \in DOMAIN M /\ M[Len(R)] = h[Len(R)]
      BY <1>5, <1>6, <3>2, <3>3
    <3>5. \A j \in DOMAIN M : M[j] = h[Len(R)] => j = Len(R)
      BY <1>9, <3>4 DEF Good, IsInjective
    <3>. QED BY <1>2, <3>2, <3>5 DEF Behind
  <2>2. \A m \in Anchors(r) : m < nm /\ Behind(m, M)
    BY <1>1, <1>9 DEF Under
  <2>. QED BY <1>10, <1>11, <2>1, <2>2 DEF Under
<1>14. FileOK(J, r2, nm)
  BY <1>1, <1>8, <1>9, <1>13 DEF FileOK
<1>. QED BY <1>8, <1>12, <1>14 DEF r2, M, R

(***************************************************************************)
(* One process: where its conversation stands in the files, in the save    *)
(* under way, in the mirror, in the channel and in the agent.  Each is a   *)
(* history that follows the one before.                                    *)
(***************************************************************************)

\* The tasks that have still to write or to report, and the reports not yet read.
Writers(ts) == {ts[i] : i \in {k \in DOMAIN ts : Unreported(ts[k])}}
Reports(ch) == {ch[j].ok : j \in {k \in DOMAIN ch : Saved(ch[k])}}

Posted(e) == e.kind = "history"
Done(ch) == \E j \in DOMAIN ch : ch[j].kind = "done"

\* What the UI has still to see of the conversation: what the agent holds and,
\* while a turn is live, the snapshots on their way.
Later(ch, a, handle) ==
    {a} \cup {h \in {ch[j].hist : j \in {k \in DOMAIN ch : Posted(ch[k])}} : handle}

\* The snapshots in the channel come one after the other, and the agent's last.
Chain(ch, a) ==
    \A i \in DOMAIN ch : Posted(ch[i]) =>
        /\ Follows(ch[i].hist, a)
        /\ \A j \in DOMAIN ch : Posted(ch[j]) /\ i < j => Follows(ch[i].hist, ch[j].hist)

\* R is what the files hold, r their journal, W the snapshots being written, m
\* the mirror and L what comes later.
Ordered(R, r, W, m, L, nm) ==
    /\ Good(m, nm) /\ Follows(R, m) /\ Under(r, m, nm)
    /\ \A h \in L : Good(h, nm) /\ Follows(R, h) /\ Under(r, h, nm) /\ Follows(m, h)
    /\ \A h \in W : /\ Good(h, nm) /\ Follows(R, h) /\ Under(r, h, nm)
                    /\ Follows(h, m) /\ \A k \in L : Follows(h, k)

\* The histories being written.
Hists(U) == {t.snap.hist : t \in U}

\* The turn: whether it runs, and what the mirror misses when none is live.
TurnOK(u, ch, a, tn) ==
    /\ tn \in {"idle", "running"}
    /\ tn = "running" => u.handle /\ ~Done(ch)
    /\ u.handle /\ tn = "idle" => Done(ch)
    /\ a # << >>
    /\ a = Blank => ~u.handle /\ u.sess = NoSession
    /\ ~u.handle => u.mirror = a \/ (a = Blank /\ u.mirror = << >>)
    /\ u.handle => Chain(ch, a) /\ \A h \in Later(ch, a, TRUE) : Proper(h)

\* The UI's books on the session and the save in flight.
BooksOK(u, U, O) ==
    /\ u.phase = "running"
    /\ u.sess = NoSession => U = {} /\ O = {} /\ ~u.inFlight /\ u.cursor.sess = NoSession
    /\ u.sess # NoSession => Proper(u.mirror)
    /\ u.cursor.sess \in {NoSession, u.sess}
    /\ u.inFlight => U # {} \/ O # {}

\* What a task needs in order to write what its snapshot says.
TaskFits(u, t, J, r) ==
    LET R == Recovered(J, r)
        h == t.snap.hist
        c == u.cursor
    IN  /\ t.sess = u.sess /\ c.sess = u.sess /\ Proper(h)
        /\ t.stage \in {"write", "clean"} => t.ok
        /\ t.kind = "full" /\ t.stage \in {"write", "clean"} => c = AfterFullSave(u.sess, h)
        /\ t.kind = "full" /\ t.stage = "clean" => J = h
        /\ t.kind = "append" => t.stage # "clean"
        /\ t.kind = "append" /\ t.stage = "write" =>
              /\ J # << >> /\ c.base = Len(J) /\ c.baseAnchor = Anchor(J)
              /\ c.written = Len(h) /\ c.writtenAnchor = Anchor(h)
              /\ R # J => r.open /\ ~r.torn
              /\ t.base = c.base /\ t.baseAnchor = c.baseAnchor
              /\ Len(R) < Len(h) /\ Anchor(Upto(h, Len(R))) = Anchor(R)
              /\ t.tail = From(h, Len(R)) /\ t.fresh = (R = J)
        /\ t.stage = "send" /\ t.ok => FilesAt(c, J, r)

\* Between two saves the cursor describes the files, unless an error is known.
FilesKnown(u, U, O, J, r) ==
    u.cursor.sess # NoSession /\ U = {} /\ FALSE \notin O => FilesAt(u.cursor, J, r)

\* What is in flight, or else what waits, is the mirror; and it reaches the files
\* whole.  While a turn is live this takes an unbroken history.
Exact(u, U, O, R) ==
    u.cursor.sess # NoSession /\ (Unbroken \/ ~u.handle) =>
        /\ u.pending # NoSnapshot => Unbroken \/ u.pendingFull
        /\ u.pending = NoSnapshot =>
              /\ \A t \in U : /\ t.snap.hist = u.mirror
                              /\ t.stage \in {"write", "clean"} => Unbroken \/ t.kind = "full"
                              /\ t.stage = "send" /\ t.ok => R = u.mirror
              /\ U = {} /\ FALSE \notin O => R = u.mirror

\* All that a handler of the UI may rely on, but for what waits.
Ready(u, U, O, J, r, L, nm) ==
    /\ BooksOK(u, U, O)
    /\ Ordered(Recovered(J, r), r, Hists(U), u.mirror, L, nm)
    /\ \A t \in U : TaskFits(u, t, J, r)
    /\ FilesKnown(u, U, O, J, r)

Held(u, U, O, J, r, L, nm) ==
    /\ Ready(u, U, O, J, r, L, nm)
    /\ u.pending # NoSnapshot => u.pending = Snapshot(u.sess, u.mirror)
    /\ Exact(u, U, O, Recovered(J, r))

\* The whole of it.
Keeps(u, U, O, ch, a, tn, J, r, nm) ==
    /\ TurnOK(u, ch, a, tn)
    /\ Held(u, U, O, J, r, Later(ch, a, u.handle), nm)

\* What IInv says of one process, in these terms.
Alone(u, U, O) ==
    /\ u \in UiType /\ U \subseteq TaskType /\ O \subseteq BOOLEAN
    /\ \A t, w \in U : t = w
    /\ U = {} \/ O = {}
    /\ U # {} \/ O # {} => u.inFlight
    /\ u.pending # NoSnapshot => u.inFlight

LEMMA OrderedGrows ==
    ASSUME NEW nm \in Nat, NEW R, NEW r \in JournalType, NEW W, NEW m, NEW L, NEW L2, NEW a, NEW a2,
           Good(R, nm), Ordered(R, r, W, m, L, nm), a \in L, Changed(a, a2, nm),
           L2 \subseteq L \cup {a2}
    PROVE  Ordered(R, r, W, m, L2, nm + 1)
<1>1. nm + 1 \in Nat /\ nm <= nm + 1
  OBVIOUS
<1>2. \A h : Good(h, nm) => Good(h, nm + 1)
  BY <1>1, GoodLater
<1>3. \A x \in Anchors(r) : x \in Nat
  BY MessageFacts DEF Anchors, JournalType, Message, NoAnchor
<1>4. \A h : Under(r, h, nm) => Under(r, h, nm + 1)
  BY <1>3 DEF Under
<1>5. Good(a, nm) /\ Good(a2, nm + 1) /\ Under(r, a, nm)
  BY DEF Ordered, Changed
<1>6. ASSUME NEW g, Good(g, nm), Follows(g, a) PROVE Follows(g, a2)
  BY <1>5, <1>6, StillFollows
<1>7. Under(r, a2, nm + 1)
  <2>. SUFFICES ASSUME NEW x \in Anchors(r) PROVE x < nm + 1 /\ Behind(x, a2)
    BY DEF Under
  <2>1. x \in Nat /\ x < nm /\ Behind(x, a)
    BY <1>3, <1>5 DEF Under
  <2>. QED BY <1>5, <2>1, StillBehind
<1>8. ASSUME NEW h \in L2
      PROVE  /\ Good(h, nm + 1) /\ Follows(R, h) /\ Under(r, h, nm + 1) /\ Follows(m, h)
             /\ \A k \in W : Follows(k, h)
  <2>1. CASE h \in L
    BY <1>2, <1>4, <2>1 DEF Ordered
  <2>2. CASE h = a2
    BY <1>5, <1>6, <1>7, <2>2 DEF Ordered
  <2>. QED BY <2>1, <2>2
<1>. QED BY <1>2, <1>4, <1>8 DEF Ordered

\* The same with nothing drawn.
LEMMA OrderedLater ==
    ASSUME NEW nm \in Nat, NEW n \in Nat, nm <= n, NEW R, NEW r \in JournalType,
           NEW W, NEW m, NEW L, Ordered(R, r, W, m, L, nm)
    PROVE  Ordered(R, r, W, m, L, n)
<1>2. \A h : Good(h, nm) => Good(h, n)
  BY GoodLater
<1>3. \A x \in Anchors(r) : x \in Nat
  BY MessageFacts DEF Anchors, JournalType, Message, NoAnchor
<1>4. \A h : Under(r, h, nm) => Under(r, h, n)
  BY <1>3 DEF Under
<1>. QED BY <1>2, <1>4 DEF Ordered

\* A mirror that adopts what comes later.
LEMMA OrderedAdopts ==
    ASSUME NEW nm \in Nat, NEW R, NEW r, NEW W, NEW m, NEW L, NEW L2, NEW h,
           Good(R, nm), Ordered(R, r, W, m, L, nm), h \in L,
           L2 \subseteq L, \A k \in L2 : Follows(h, k)
    PROVE  /\ Ordered(R, r, W, Adopted(m, h), L2, nm)
           /\ Ordered(R, r, W, h, L2, nm)
<1>1. /\ Good(m, nm) /\ Good(h, nm) /\ Follows(m, h) /\ Follows(R, m) /\ Follows(R, h)
      /\ Under(r, m, nm) /\ Under(r, h, nm)
      /\ \A k \in L2 : Good(k, nm) /\ Follows(R, k) /\ Under(r, k, nm) /\ Follows(m, k)
                       /\ Follows(h, k)
      /\ \A g \in W : /\ Good(g, nm) /\ Follows(R, g) /\ Under(r, g, nm)
                      /\ Follows(g, m) /\ Follows(g, h) /\ \A k \in L2 : Follows(g, k)
  BY DEF Ordered
<1>. DEFINE n == Adopted(m, h)
<1>2. /\ Good(n, nm)
      /\ \A x : Good(x, nm) /\ Follows(x, m) /\ Follows(x, h) => Follows(x, n)
      /\ \A x : Good(x, nm) /\ Follows(m, x) /\ Follows(h, x) => Follows(n, x)
      /\ \A x : Behind(x, m) /\ Behind(x, h) => Behind(x, n)
  BY <1>1, AdoptedFits
<1>. HIDE DEF n
<1>3. Under(r, n, nm)
  BY <1>1, <1>2 DEF Under
<1>4. Ordered(R, r, W, n, L2, nm)
  BY <1>1, <1>2, <1>3 DEF Ordered
<1>5. Ordered(R, r, W, h, L2, nm)
  BY <1>1 DEF Ordered
<1>. QED BY <1>4, <1>5 DEF n

(***************************************************************************)
(* What the UI's operations leave.                                         *)
(***************************************************************************)

Spawns(o) == {o.spawned[i] : i \in DOMAIN o.spawned}

\* Two UI states that agree on all but the save in flight and what waits.
SameView(w, v) ==
    /\ w.phase = v.phase /\ w.sess = v.sess /\ w.mirror = v.mirror
    /\ w.handle = v.handle

LEMMA SpawnsOf ==
    ASSUME NEW u
    PROVE  /\ Outcome(u, << >>).ui = u /\ Spawns(Outcome(u, << >>)) = {}
           /\ \A t : Outcome(u, <<t>>).ui = u /\ Spawns(Outcome(u, <<t>>)) = {t}
BY DEF Outcome, Spawns

LEMMA SamePlace ==
    ASSUME NEW nm \in Nat, NEW R \in History, NEW h \in History,
           Good(R, nm), Good(h, nm), Follows(R, h), Unbroken, R # << >>,
           Len(h) = Len(R), Anchor(Upto(h, Len(R))) = Anchor(R)
    PROVE  R = h
<1>1. Len(R) \in Nat /\ Len(R) # 0 /\ Len(h) \in Nat
      /\ DOMAIN R = 1..Len(R) /\ DOMAIN h = 1..Len(h)
  BY HistoryFacts
<1>2. Len(R) \in 1..Len(R) /\ Len(R) \in 1..Len(h)
  BY <1>1
<1>3. R[Len(R)] = h[Len(R)]
  BY <1>2, AnchorIs
<1>4. \A k \in 1..Len(R) : R[k] = h[k]
  BY <1>1, <1>2, <1>3 DEF Follows
<1>. QED BY <1>4, SeqEqual DEF History

LEMMA RecoveredNotEmpty ==
    ASSUME NEW J \in History, J # << >>, NEW r \in JournalType
    PROVE  /\ Recovered(J, r) # << >>
           /\ Len(Recovered(J, r)) = Len(J) <=> Recovered(J, r) = J
<1>1. r.tail \in History
  BY DEF JournalType
<1>2. /\ Len(J) \in Nat /\ Len(J) # 0 /\ Len(r.tail) \in Nat
      /\ r.tail = << >> <=> Len(r.tail) = 0
  BY <1>1, HistoryFacts
<1>3. J \o r.tail \in Seq(Message) /\ Len(J \o r.tail) = Len(J) + Len(r.tail)
  BY <1>1, ConcatProperties DEF History
<1>4. J \o << >> = J
  BY ConcatEmptySeq DEF History
<1>. DEFINE j == Len(J)
            k == Len(r.tail)
<1>5. j \in Nat /\ j # 0 /\ k \in Nat /\ Len(J \o r.tail) = j + k /\ Len(J) = j
      /\ (r.tail = << >> <=> k = 0)
  BY <1>2, <1>3
<1>. HIDE DEF j, k
<1>6. j + k # 0 /\ (j + k = j <=> k = 0)
  BY <1>5
<1>7. J \o r.tail # << >> /\ (Len(J \o r.tail) = Len(J) <=> J \o r.tail = J)
  <2>1. J \o r.tail # << >>
    BY <1>3, <1>5, <1>6, EmptySeq
  <2>2. Len(J \o r.tail) = Len(J) => J \o r.tail = J
    BY <1>4, <1>5, <1>6
  <2>. QED BY <2>1, <2>2
<1>8. Recovered(J, r) \in {J, J \o r.tail}
  BY DEF Recovered
<1>. QED BY <1>7, <1>8

\* The cursor says there is nothing to write.
LEMMA SpawnsNothing ==
    ASSUME NEW nm \in Nat, NEW v \in UiType, NEW J \in History, NEW r \in JournalType,
           FileOK(J, r, nm), NEW L, Ready(v, {}, {}, J, r, L, nm),
           v.pending = NoSnapshot, v.sess # NoSession, Unbroken \/ v.handle,
           CanAppend(v.cursor, v.sess, v.mirror), Len(v.mirror) = v.cursor.written,
           NEW w, w = [v EXCEPT !.pendingFull = FALSE]
    PROVE  Held(w, {}, {}, J, r, L, nm) /\ SameView(w, v)
<1>. DEFINE R == Recovered(J, r)
<1>1. /\ w.phase = v.phase /\ w.sess = v.sess /\ w.mirror = v.mirror /\ w.handle = v.handle
      /\ w.cursor = v.cursor /\ w.inFlight = v.inFlight /\ w.pending = v.pending
  BY DEF UiType
<1>2. Ready(w, {}, {}, J, r, L, nm)
  BY <1>1 DEF Ready, BooksOK, FilesKnown
<1>3. R \in History /\ v.mirror \in History
  BY RecoveredType DEF UiType
<1>4. /\ Good(R, nm) /\ Good(v.mirror, nm) /\ Follows(R, v.mirror)
  BY DEF Ready, Ordered, FileOK
<1>5. v.cursor.sess = v.sess /\ FilesAt(v.cursor, J, r)
      /\ Anchor(Upto(v.mirror, v.cursor.written)) = v.cursor.writtenAnchor
  BY DEF CanAppend, Ready, FilesKnown
<1>6. J # << >> /\ Len(v.mirror) = Len(R) /\ Anchor(Upto(v.mirror, Len(R))) = Anchor(R)
  BY <1>5 DEF FilesAt
<1>7. R # << >>
  BY <1>6, RecoveredNotEmpty
<1>8. Unbroken => R = v.mirror
  BY <1>3, <1>4, <1>6, <1>7, SamePlace
<1>. HIDE DEF R
<1>9. Exact(w, {}, {}, R)
  BY <1>1, <1>8 DEF Exact
<1>. QED BY <1>1, <1>2, <1>9 DEF Held, SameView, R

\* An append: the snapshot goes on from where the files are.
LEMMA SpawnsAppend ==
    ASSUME NEW nm \in Nat, NEW v \in UiType, NEW J \in History, NEW r \in JournalType,
           FileOK(J, r, nm), NEW L, Ready(v, {}, {}, J, r, L, nm),
           v.pending = NoSnapshot, v.sess # NoSession, Unbroken \/ v.handle,
           CanAppend(v.cursor, v.sess, v.mirror), Len(v.mirror) # v.cursor.written,
           NEW w, w = [v EXCEPT !.inFlight = TRUE,
                                !.cursor.written = Len(v.mirror),
                                !.cursor.writtenAnchor = Anchor(v.mirror)],
           NEW t, t = AppendTask(Snapshot(v.sess, v.mirror), v.cursor)
    PROVE  Held(w, {t}, {}, J, r, L, nm) /\ SameView(w, v)
<1>. DEFINE R == Recovered(J, r)
            m == v.mirror
            c == v.cursor
            d == w.cursor
<1>1. /\ w.phase = v.phase /\ w.sess = v.sess /\ w.mirror = m /\ w.handle = v.handle
      /\ w.inFlight /\ w.pending = v.pending
      /\ d.sess = c.sess /\ d.base = c.base /\ d.baseAnchor = c.baseAnchor
      /\ d.written = Len(m) /\ d.writtenAnchor = Anchor(m)
  BY DEF UiType, CursorType
<1>2. /\ t.kind = "append" /\ t.snap.hist = m /\ t.sess = c.sess /\ t.stage = "write" /\ t.ok
      /\ t.base = c.base /\ t.baseAnchor = c.baseAnchor /\ t.fresh = (c.written = c.base)
      /\ t.tail = From(m, c.written)
  BY DEF AppendTask, Snapshot
<1>3. /\ c.sess = v.sess /\ FilesAt(c, J, r) /\ Len(m) >= c.written
      /\ Anchor(Upto(m, c.written)) = c.writtenAnchor
  BY DEF CanAppend, Ready, FilesKnown
<1>4. /\ J # << >> /\ c.base = Len(J) /\ c.baseAnchor = Anchor(J)
      /\ c.written = Len(R) /\ c.writtenAnchor = Anchor(R)
      /\ R # J => r.open /\ ~r.torn
  BY <1>3 DEF FilesAt
<1>5. m \in History /\ R \in History
  BY RecoveredType DEF UiType
<1>6. Len(R) < Len(m)
  <2>1. Len(R) \in Nat /\ Len(m) \in Nat
    BY <1>5, HistoryFacts
  <2>2. Len(m) >= Len(R) /\ Len(m) # Len(R)
    BY <1>3, <1>4
  <2>. DEFINE a == Len(R)
              b == Len(m)
  <2>3. a \in Nat /\ b \in Nat /\ b >= a /\ b # a
    BY <2>1, <2>2
  <2>. HIDE DEF a, b
  <2>4. a < b
    BY <2>3
  <2>. QED BY <2>4 DEF a, b
<1>7. /\ BooksOK(v, {}, {}) /\ Ordered(R, r, Hists({}), m, L, nm)
  BY DEF Ready
<1>8. Proper(m)
  BY <1>7 DEF BooksOK
<1>9. t.fresh = (R = J)
  BY <1>2, <1>4, RecoveredNotEmpty
<1>. HIDE DEF R, m, c, d
<1>10. TaskFits(w, t, J, r)
  BY <1>1, <1>2, <1>3, <1>4, <1>6, <1>8, <1>9 DEF TaskFits, R, d
<1>11. BooksOK(w, {t}, {})
  BY <1>1, <1>3, <1>7 DEF BooksOK, d, m
<1>12. Ordered(R, r, Hists({t}), m, L, nm)
  <2>1. \A h \in Hists({t}) : h = m
    BY <1>2 DEF Hists
  <2>2. Follows(m, m)
    BY <1>7, FollowsItself DEF Ordered
  <2>. QED BY <1>7, <2>1, <2>2 DEF Ordered
<1>13. FilesKnown(w, {t}, {}, J, r)
  BY DEF FilesKnown
<1>14. Exact(w, {t}, {}, R)
  BY <1>1, <1>2 DEF Exact
<1>15. Ready(w, {t}, {}, J, r, L, nm)
  BY <1>1, <1>10, <1>11, <1>12, <1>13 DEF Ready, R
<1>. QED BY <1>1, <1>14, <1>15 DEF Held, SameView, R, m

\* A full save.
LEMMA SpawnsFull ==
    ASSUME NEW nm \in Nat, NEW v \in UiType, NEW J, NEW r,
           NEW L, Ready(v, {}, {}, J, r, L, nm),
           v.pending = NoSnapshot, v.sess # NoSession,
           NEW w, w = [v EXCEPT !.inFlight = TRUE,
                                !.cursor = AfterFullSave(v.sess, v.mirror)],
           NEW t, t = FullTask(Snapshot(v.sess, v.mirror), v.sess)
    PROVE  Held(w, {t}, {}, J, r, L, nm) /\ SameView(w, v)
<1>. DEFINE R == Recovered(J, r)
            m == v.mirror
<1>1. /\ w.phase = v.phase /\ w.sess = v.sess /\ w.mirror = m /\ w.handle = v.handle
      /\ w.inFlight /\ w.pending = v.pending
      /\ w.cursor = AfterFullSave(v.sess, m)
  BY DEF UiType
<1>2. /\ t.kind = "full" /\ t.snap.hist = m /\ t.sess = v.sess /\ t.stage = "write" /\ t.ok
  BY DEF FullTask, Snapshot
<1>3. w.cursor.sess = v.sess
  BY <1>1 DEF AfterFullSave, Cursor
<1>7. /\ BooksOK(v, {}, {}) /\ Ordered(R, r, Hists({}), m, L, nm)
  BY DEF Ready
<1>8. Proper(m)
  BY <1>7 DEF BooksOK
<1>. HIDE DEF R, m
<1>10. TaskFits(w, t, J, r)
  BY <1>1, <1>2, <1>3, <1>8 DEF TaskFits
<1>11. BooksOK(w, {t}, {})
  BY <1>1, <1>3, <1>7 DEF BooksOK, m
<1>12. Ordered(R, r, Hists({t}), m, L, nm)
  <2>1. \A h \in Hists({t}) : h = m
    BY <1>2 DEF Hists
  <2>2. Follows(m, m)
    BY <1>7, FollowsItself DEF Ordered
  <2>. QED BY <1>7, <2>1, <2>2 DEF Ordered
<1>13. FilesKnown(w, {t}, {}, J, r)
  BY DEF FilesKnown
<1>14. Exact(w, {t}, {}, R)
  BY <1>1, <1>2 DEF Exact
<1>15. Ready(w, {t}, {}, J, r, L, nm)
  BY <1>1, <1>10, <1>11, <1>12, <1>13 DEF Ready, R
<1>. QED BY <1>1, <1>14, <1>15 DEF Held, SameView, R, m

\* A save is spawned for the mirror, by journal or in full.
LEMMA SpawnKeeps ==
    ASSUME NEW nm \in Nat, NEW v \in UiType, NEW J \in History, NEW r \in JournalType,
           FileOK(J, r, nm), NEW L, Ready(v, {}, {}, J, r, L, nm),
           v.pending = NoSnapshot, v.sess # NoSession, NEW full \in BOOLEAN,
           full \/ Unbroken \/ v.handle \/ v.cursor.sess = NoSession,
           NEW o, o = SpawnSave(v, Snapshot(v.sess, v.mirror), full)
    PROVE  Held(o.ui, Spawns(o), {}, J, r, L, nm) /\ SameView(o.ui, v)
<1>. DEFINE snap == Snapshot(v.sess, v.mirror)
<1>1. snap.hist = v.mirror
  BY DEF Snapshot
<1>. HIDE DEF snap
<1>2. CASE ~full /\ CanAppend(v.cursor, v.sess, v.mirror)
  <2>1. o = SpawnRound(v, snap)
    BY <1>1, <1>2 DEF SpawnSave, snap
  <2>2. Unbroken \/ v.handle
    BY <1>2 DEF CanAppend
  <2>3. CASE Len(v.mirror) = v.cursor.written
    <3>. DEFINE w == [v EXCEPT !.pendingFull = FALSE]
    <3>1. o = Outcome(w, << >>)
      BY <1>1, <2>1, <2>3 DEF SpawnRound
    <3>2. o.ui = w /\ Spawns(o) = {}
      BY <3>1, SpawnsOf
    <3>3. Held(w, {}, {}, J, r, L, nm) /\ SameView(w, v)
      BY <1>2, <2>2, <2>3, SpawnsNothing
    <3>. HIDE DEF w
    <3>. QED BY <3>2, <3>3
  <2>4. CASE Len(v.mirror) # v.cursor.written
    <3>. DEFINE w == [v EXCEPT !.inFlight = TRUE,
                               !.cursor.written = Len(v.mirror),
                               !.cursor.writtenAnchor = Anchor(v.mirror)]
                t == AppendTask(Snapshot(v.sess, v.mirror), v.cursor)
    <3>1. o = Outcome(w, <<t>>)
      BY <1>1, <2>1, <2>4 DEF SpawnRound, snap
    <3>2. Held(w, {t}, {}, J, r, L, nm) /\ SameView(w, v)
      BY <1>2, <2>2, <2>4, SpawnsAppend
    <3>. HIDE DEF w, t
    <3>3. o.ui = w /\ Spawns(o) = {t}
      BY <3>1, SpawnsOf
    <3>. QED BY <3>2, <3>3
  <2>. QED BY <2>3, <2>4
<1>3. CASE ~(~full /\ CanAppend(v.cursor, v.sess, v.mirror))
  <2>. DEFINE w == [v EXCEPT !.inFlight = TRUE,
                             !.cursor = AfterFullSave(v.sess, v.mirror)]
              t == FullTask(Snapshot(v.sess, v.mirror), v.sess)
  <2>1. o = Outcome(w, <<t>>)
    BY <1>1, <1>3 DEF SpawnSave, snap
  <2>2. Held(w, {t}, {}, J, r, L, nm) /\ SameView(w, v)
    BY SpawnsFull
  <2>. HIDE DEF w, t
  <2>3. o.ui = w /\ Spawns(o) = {t}
    BY <2>1, SpawnsOf
  <2>. QED BY <2>2, <2>3
<1>. QED BY <1>2, <1>3

LEMMA EnqueueKeeps ==
    ASSUME NEW nm \in Nat, NEW v \in UiType, NEW J \in History, NEW r \in JournalType,
           FileOK(J, r, nm), NEW L, NEW U, NEW O,
           Alone(v, U, O), Ready(v, U, O, J, r, L, nm),
           v.sess # NoSession, NEW full \in BOOLEAN,
           full \/ Unbroken \/ v.handle,
           NEW o, o = EnqueueSave(v, full)
    PROVE  Held(o.ui, U \cup Spawns(o), O, J, r, L, nm) /\ SameView(o.ui, v)
<1>1. CASE v.inFlight
  <2>. DEFINE snap == Snapshot(v.sess, v.mirror)
              w == [v EXCEPT !.pending = snap, !.pendingFull = v.pendingFull \/ full]
  <2>1. o = Outcome(w, << >>)
    BY <1>1 DEF EnqueueSave
  <2>2. o.ui = w /\ U \cup Spawns(o) = U
    BY <2>1, SpawnsOf
  <2>3. /\ w.phase = v.phase /\ w.sess = v.sess /\ w.mirror = v.mirror /\ w.handle = v.handle
        /\ w.inFlight = v.inFlight /\ w.cursor = v.cursor /\ w.pending = snap
        /\ w.pendingFull = (v.pendingFull \/ full)
    BY DEF UiType
  <2>. HIDE DEF w
  <2>4. BooksOK(w, U, O)
    BY <2>3 DEF Ready, BooksOK
  <2>5. \A t \in U : TaskFits(w, t, J, r)
    BY <2>3 DEF Ready, TaskFits
  <2>6. FilesKnown(w, U, O, J, r) /\ Ordered(Recovered(J, r), r, Hists(U), w.mirror, L, nm)
    BY <2>3 DEF Ready, FilesKnown
  <2>7. snap # NoSnapshot
    BY DEF Snapshot, NoSnapshot
  <2>8. Exact(w, U, O, Recovered(J, r))
    BY <2>3, <2>7 DEF Exact
  <2>. QED BY <2>2, <2>3, <2>4, <2>5, <2>6, <2>8 DEF Held, Ready, SameView
<1>2. CASE ~v.inFlight
  <2>1. U = {} /\ O = {} /\ v.pending = NoSnapshot
    BY <1>2 DEF Alone
  <2>2. o = SpawnSave(v, Snapshot(v.sess, v.mirror), full)
    BY <1>2 DEF EnqueueSave
  <2>3. Held(o.ui, Spawns(o), {}, J, r, L, nm) /\ SameView(o.ui, v)
    BY <2>1, <2>2, SpawnKeeps
  <2>. QED BY <2>1, <2>3
<1>. QED BY <1>1, <1>2

\* A report is read: an error drops the cursor, and what waits is spawned.
LEMMA DoneKeeps ==
    ASSUME NEW nm \in Nat, NEW u \in UiType, NEW J \in History, NEW r \in JournalType,
           FileOK(J, r, nm), NEW L, NEW ok \in BOOLEAN,
           Held(u, {}, {ok}, J, r, L, nm), u.sess # NoSession,
           NEW o, o = OnSaveDone(u, ok)
    PROVE  Held(o.ui, Spawns(o), {}, J, r, L, nm) /\ SameView(o.ui, u)
<1>. DEFINE w == [u EXCEPT !.inFlight = FALSE, !.cursor = IF ok THEN u.cursor ELSE NoCursor]
            v == [w EXCEPT !.pending = NoSnapshot, !.pendingFull = FALSE]
<1>1. /\ w.phase = u.phase /\ w.sess = u.sess /\ w.mirror = u.mirror /\ w.handle = u.handle
      /\ ~w.inFlight /\ w.cursor = (IF ok THEN u.cursor ELSE NoCursor)
      /\ w.pending = u.pending /\ w.pendingFull = u.pendingFull
      /\ w \in UiType
  BY NoneTypes DEF UiType
<1>2. o = PromotePendingSave(w)
  BY DEF OnSaveDone
<1>. HIDE DEF w
<1>3. /\ v.phase = u.phase /\ v.sess = u.sess /\ v.mirror = u.mirror /\ v.handle = u.handle
      /\ ~v.inFlight /\ v.cursor = (IF ok THEN u.cursor ELSE NoCursor)
      /\ v.pending = NoSnapshot
      /\ v \in UiType
  BY <1>1, NoneTypes DEF UiType
<1>. HIDE DEF v
<1>4. NoCursor.sess = NoSession
  BY DEF NoCursor, Cursor
<1>5. Ready(v, {}, {}, J, r, L, nm)
  <2>1. BooksOK(v, {}, {})
    BY <1>3, <1>4 DEF Held, Ready, BooksOK
  <2>2. FilesKnown(v, {}, {}, J, r)
    BY <1>3, <1>4 DEF Held, Ready, FilesKnown
  <2>3. Ordered(Recovered(J, r), r, Hists({}), v.mirror, L, nm)
    BY <1>3 DEF Held, Ready
  <2>. QED BY <2>1, <2>2, <2>3 DEF Ready
<1>6. CASE u.pending # NoSnapshot
  <2>1. u.pending = Snapshot(v.sess, v.mirror)
    BY <1>3, <1>6 DEF Held
  <2>2. w.pending # NoSnapshot /\ w.pending.sess = w.sess
    BY <1>1, <1>3, <1>6, <2>1 DEF Snapshot
  <2>3. o = SpawnSave(v, Snapshot(v.sess, v.mirror), u.pendingFull)
    BY <1>1, <1>2, <2>1, <2>2 DEF PromotePendingSave, v
  <2>4. u.pendingFull \/ Unbroken \/ v.handle \/ v.cursor.sess = NoSession
    BY <1>3, <1>4, <1>6 DEF Held, Exact
  <2>5. u.pendingFull \in BOOLEAN /\ v.sess # NoSession
    BY <1>3 DEF UiType
  <2>6. Held(o.ui, Spawns(o), {}, J, r, L, nm) /\ SameView(o.ui, v)
    BY <1>3, <1>5, <2>3, <2>4, <2>5, SpawnKeeps
  <2>. QED BY <1>3, <2>6 DEF SameView
<1>7. CASE u.pending = NoSnapshot
  <2>1. o = Outcome(v, << >>)
    BY <1>1, <1>2, <1>7 DEF PromotePendingSave, v
  <2>2. o.ui = v /\ Spawns(o) = {}
    BY <2>1, SpawnsOf
  <2>3. Exact(v, {}, {}, Recovered(J, r))
    BY <1>3, <1>4, <1>7 DEF Held, Exact
  <2>. QED BY <1>3, <1>5, <2>2, <2>3 DEF Held, SameView
<1>. QED BY <1>6, <1>7

\* Without a session nothing is in flight and nothing waits.
LEMMA NoSessionKeeps ==
    ASSUME NEW nm \in Nat, NEW v, NEW J, NEW r, NEW L, NEW U, NEW O,
           Alone(v, U, O), Ready(v, U, O, J, r, L, nm), v.sess = NoSession
    PROVE  U = {} /\ O = {} /\ Held(v, U, O, J, r, L, nm)
<1>1. U = {} /\ O = {} /\ ~v.inFlight /\ v.cursor.sess = NoSession
  BY DEF Ready, BooksOK
<1>2. v.pending = NoSnapshot
  BY <1>1 DEF Alone
<1>. QED BY <1>1, <1>2 DEF Held, Exact

\* The first save of a session writes the mirror itself.
LEMMA FirstSaveKeeps ==
    ASSUME NEW nm \in Nat, NEW v \in UiType, NEW L,
           Alone(v, {}, {}), Ready(v, {}, {}, << >>, NoJournal, L, nm), v.sess = NoSession,
           Proper(v.mirror), NEW s \in Session,
           NEW w, w = [v EXCEPT !.sess = s, !.cursor = AfterFullSave(s, v.mirror)]
    PROVE  /\ Held(w, {}, {}, v.mirror, NoJournal, L, nm)
           /\ FileOK(v.mirror, NoJournal, nm)
<1>. DEFINE m == v.mirror
<1>1. /\ w.phase = v.phase /\ w.sess = s /\ w.mirror = m /\ w.handle = v.handle
      /\ w.inFlight = v.inFlight /\ w.pending = v.pending
      /\ w.cursor = AfterFullSave(s, m)
  BY DEF UiType
<1>2. /\ w.cursor.sess = s /\ w.cursor.base = Len(m) /\ w.cursor.baseAnchor = Anchor(m)
      /\ w.cursor.written = Len(m) /\ w.cursor.writtenAnchor = Anchor(m)
  BY <1>1 DEF AfterFullSave, Cursor
<1>3. s # NoSession
  BY NamesAssumption
<1>4. ~v.inFlight /\ v.phase = "running" /\ v.pending = NoSnapshot
  BY DEF Alone, Ready, BooksOK
<1>5. /\ Good(m, nm) /\ \A h \in L : Good(h, nm) /\ Follows(m, h)
  BY DEF Ready, Ordered
<1>6. m # << >> /\ m # Blank
  BY DEF Proper
<1>. HIDE DEF m
<1>7. Recovered(m, NoJournal) = m /\ FileOK(m, NoJournal, nm)
  BY <1>5, <1>6, RoundsRemoved
<1>8. BooksOK(w, {}, {})
  BY <1>1, <1>2, <1>3, <1>4 DEF BooksOK, m
<1>9. Ordered(m, NoJournal, Hists({}), m, L, nm)
  <2>1. Follows(m, m) /\ Hists({}) = {}
    BY <1>5, FollowsItself DEF Hists
  <2>2. \A h : Under(NoJournal, h, nm)
    BY NoFile DEF Under
  <2>. QED BY <1>5, <2>1, <2>2 DEF Ordered
<1>10. FilesKnown(w, {}, {}, m, NoJournal)
  BY <1>2, <1>6, <1>7 DEF FilesKnown, FilesAt
<1>11. Exact(w, {}, {}, m)
  BY <1>1, <1>4 DEF Exact
<1>12. Ready(w, {}, {}, m, NoJournal, L, nm)
  BY <1>1, <1>7, <1>8, <1>9, <1>10 DEF Ready
<1>. QED BY <1>1, <1>4, <1>7, <1>11, <1>12 DEF Held, m

(***************************************************************************)
(* What a task's steps leave.                                              *)
(***************************************************************************)

LEMMA HistsOf ==
    ASSUME NEW t
    PROVE  Hists({t}) = {t.snap.hist} /\ Hists({}) = {}
BY DEF Hists

\* The .json is replaced.
LEMMA WrittenKeeps ==
    ASSUME NEW nm \in Nat, NEW u \in UiType, NEW t \in TaskType, NEW J, NEW r \in JournalType,
           FileOK(J, r, nm), NEW L, Held(u, {t}, {}, J, r, L, nm),
           t.kind = "full", t.stage = "write",
           NEW t2, t2 = [t EXCEPT !.stage = "clean"]
    PROVE  /\ FileOK(t.snap.hist, r, nm)
           /\ Held(u, {t2}, {}, t.snap.hist, r, L, nm)
<1>. DEFINE h == t.snap.hist
            R == Recovered(J, r)
            m == u.mirror
<1>1. /\ t2.kind = "full" /\ t2.stage = "clean" /\ t2.ok = t.ok /\ t2.snap.hist = h
      /\ t2.sess = t.sess
  BY DEF TaskType
<1>2. /\ BooksOK(u, {t}, {}) /\ Ordered(R, r, {h}, m, L, nm) /\ TaskFits(u, t, J, r)
      /\ Exact(u, {t}, {}, R)
      /\ u.pending # NoSnapshot => u.pending = Snapshot(u.sess, u.mirror)
  BY HistsOf DEF Held, Ready
<1>3. /\ t.sess = u.sess /\ u.cursor.sess = u.sess /\ Proper(h) /\ t.ok
      /\ u.cursor = AfterFullSave(u.sess, h)
  BY <1>2 DEF TaskFits
<1>. HIDE DEF h, R, m
<1>4. /\ Good(h, nm) /\ Under(r, h, nm) /\ Follows(h, m) /\ \A k \in L : Follows(h, k)
      /\ Good(m, nm) /\ Under(r, m, nm)
      /\ \A k \in L : Good(k, nm) /\ Under(r, k, nm) /\ Follows(m, k)
  BY <1>2 DEF Ordered
<1>5. Recovered(h, r) = h /\ FileOK(h, r, nm)
  BY <1>3, <1>4, FileReplaced
<1>6. Ordered(h, r, {h}, m, L, nm)
  BY <1>4, FollowsItself DEF Ordered
<1>7. TaskFits(u, t2, h, r)
  BY <1>1, <1>3, <1>5 DEF TaskFits
<1>8. BooksOK(u, {t2}, {})
  BY <1>2 DEF BooksOK
<1>9. Exact(u, {t2}, {}, h)
  BY <1>1, <1>2 DEF Exact, h
<1>10. Ready(u, {t2}, {}, h, r, L, nm)
  BY <1>1, <1>5, <1>6, <1>7, <1>8, HistsOf DEF Ready, FilesKnown, m
<1>. QED BY <1>2, <1>5, <1>9, <1>10 DEF Held, h

\* A write fails; what the files give is as before.
LEMMA FailedKeeps ==
    ASSUME NEW nm \in Nat, NEW u \in UiType, NEW t \in TaskType, NEW J, NEW r, NEW r2,
           NEW L, Held(u, {t}, {}, J, r, L, nm),
           Recovered(J, r2) = Recovered(J, r), Anchors(r2) \subseteq Anchors(r),
           NEW t2, t2 = [t EXCEPT !.stage = "send", !.ok = FALSE]
    PROVE  Held(u, {t2}, {}, J, r2, L, nm)
<1>. DEFINE h == t.snap.hist
            R == Recovered(J, r)
            m == u.mirror
<1>1. /\ t2.kind = t.kind /\ t2.stage = "send" /\ ~t2.ok /\ t2.snap.hist = h
      /\ t2.sess = t.sess
  BY DEF TaskType
<1>2. /\ BooksOK(u, {t}, {}) /\ Ordered(R, r, {h}, m, L, nm) /\ TaskFits(u, t, J, r)
      /\ Exact(u, {t}, {}, R)
      /\ u.pending # NoSnapshot => u.pending = Snapshot(u.sess, u.mirror)
  BY HistsOf DEF Held, Ready
<1>3. t.sess = u.sess /\ u.cursor.sess = u.sess /\ Proper(h)
  BY <1>2 DEF TaskFits
<1>. HIDE DEF h, R, m
<1>4. Ordered(R, r2, {h}, m, L, nm)
  <2>1. \A k : Under(r, k, nm) => Under(r2, k, nm)
    BY DEF Under
  <2>. QED BY <1>2, <2>1 DEF Ordered
<1>5. TaskFits(u, t2, J, r2)
  BY <1>1, <1>3 DEF TaskFits, h
<1>6. BooksOK(u, {t2}, {})
  BY <1>2 DEF BooksOK
<1>7. Exact(u, {t2}, {}, R)
  BY <1>1, <1>2 DEF Exact, h
<1>8. Ready(u, {t2}, {}, J, r2, L, nm)
  BY <1>1, <1>4, <1>5, <1>6, HistsOf DEF Ready, FilesKnown, m, R
<1>. QED BY <1>2, <1>7, <1>8 DEF Held, R

\* The journal of before the full save is removed, or could not be.
LEMMA RemovedKeeps ==
    ASSUME NEW nm \in Nat, NEW u \in UiType, NEW t \in TaskType, NEW J, NEW r \in JournalType,
           FileOK(J, r, nm), NEW L, Held(u, {t}, {}, J, r, L, nm),
           t.kind = "full", t.stage = "clean",
           NEW r2 \in {r, NoJournal},
           NEW t2, t2 = [t EXCEPT !.stage = "send"]
    PROVE  /\ FileOK(J, r2, nm)
           /\ Held(u, {t2}, {}, J, r2, L, nm)
<1>. DEFINE h == t.snap.hist
            R == Recovered(J, r)
            m == u.mirror
<1>1. /\ t2.kind = t.kind /\ t2.stage = "send" /\ t2.ok = t.ok /\ t2.snap.hist = h
      /\ t2.sess = t.sess
  BY DEF TaskType
<1>2. /\ BooksOK(u, {t}, {}) /\ Ordered(R, r, {h}, m, L, nm) /\ TaskFits(u, t, J, r)
      /\ Exact(u, {t}, {}, R)
      /\ u.pending # NoSnapshot => u.pending = Snapshot(u.sess, u.mirror)
  BY HistsOf DEF Held, Ready
<1>3. /\ t.sess = u.sess /\ u.cursor.sess = u.sess /\ Proper(h) /\ t.ok /\ J = h
      /\ u.cursor = AfterFullSave(u.sess, h)
  BY <1>2 DEF TaskFits
<1>4. /\ u.cursor.base = Len(h) /\ u.cursor.baseAnchor = Anchor(h)
      /\ u.cursor.written = Len(h) /\ u.cursor.writtenAnchor = Anchor(h)
  BY <1>3 DEF AfterFullSave, Cursor
<1>. HIDE DEF h, m
<1>5. Good(h, nm) /\ Under(r, h, nm) /\ h # << >> /\ h # Blank
  BY <1>2, <1>3 DEF Ordered, Proper
<1>6. Recovered(h, r) = h /\ Recovered(h, NoJournal) = h /\ FileOK(h, NoJournal, nm)
  BY <1>3, <1>5, FileReplaced, RoundsRemoved
<1>7. Recovered(J, r2) = h /\ R = h /\ FileOK(J, r2, nm)
  BY <1>3, <1>6
<1>. HIDE DEF R
<1>8. Ordered(h, r2, {h}, m, L, nm)
  <2>1. \A k : Under(r, k, nm) => Under(r2, k, nm)
    BY NoFile DEF Under
  <2>. QED BY <1>2, <1>7, <2>1 DEF Ordered
<1>9. FilesAt(u.cursor, J, r2)
  BY <1>3, <1>4, <1>5, <1>7 DEF FilesAt
<1>10. TaskFits(u, t2, J, r2)
  BY <1>1, <1>3, <1>9 DEF TaskFits, h
<1>11. BooksOK(u, {t2}, {})
  BY <1>2 DEF BooksOK
<1>12. Exact(u, {t2}, {}, h)
  BY <1>1, <1>2 DEF Exact, h
<1>13. Ready(u, {t2}, {}, J, r2, L, nm)
  BY <1>1, <1>7, <1>8, <1>10, <1>11, HistsOf DEF Ready, FilesKnown, m
<1>. QED BY <1>2, <1>7, <1>12, <1>13 DEF Held

\* The round is appended.
LEMMA AppendedKeeps ==
    ASSUME NEW nm \in Nat, NEW u \in UiType, NEW t \in TaskType, NEW J \in History,
           NEW r \in JournalType, FileOK(J, r, nm), NEW L, Held(u, {t}, {}, J, r, L, nm),
           t.kind = "append", t.stage = "write",
           NEW r2, r2 = IF t.fresh THEN Journal(t.base, t.baseAnchor, t.tail, FALSE)
                        ELSE AppendChunk(r, t.tail),
           NEW t2, t2 = [t EXCEPT !.stage = "send"]
    PROVE  /\ FileOK(J, r2, nm)
           /\ Held(u, {t2}, {}, J, r2, L, nm)
<1>. DEFINE h == t.snap.hist
            R == Recovered(J, r)
            M == Adopted(R, h)
            m == u.mirror
            c == u.cursor
<1>1. /\ t2.kind = t.kind /\ t2.stage = "send" /\ t2.ok = t.ok /\ t2.snap.hist = h
      /\ t2.sess = t.sess
  BY DEF TaskType
<1>2. /\ BooksOK(u, {t}, {}) /\ Ordered(R, r, {h}, m, L, nm) /\ TaskFits(u, t, J, r)
      /\ Exact(u, {t}, {}, R)
      /\ u.pending # NoSnapshot => u.pending = Snapshot(u.sess, u.mirror)
  BY HistsOf DEF Held, Ready
<1>3. /\ t.sess = u.sess /\ c.sess = u.sess /\ Proper(h)
      /\ J # << >> /\ c.base = Len(J) /\ c.baseAnchor = Anchor(J)
      /\ c.written = Len(h) /\ c.writtenAnchor = Anchor(h)
      /\ R # J => r.open /\ ~r.torn
      /\ t.base = c.base /\ t.baseAnchor = c.baseAnchor
      /\ Len(R) < Len(h) /\ Anchor(Upto(h, Len(R))) = Anchor(R)
      /\ t.tail = From(h, Len(R)) /\ t.fresh = (R = J)
  BY <1>2 DEF TaskFits
<1>4. r2 = RoundsAfter(J, r, h)
  BY <1>3 DEF RoundsAfter
<1>5. /\ Good(R, nm) /\ Good(h, nm) /\ Follows(R, h) /\ Under(r, h, nm)
      /\ R \in History /\ h \in History
  BY <1>2 DEF Ordered, FileOK, Good
<1>6. /\ Recovered(J, r2) = M /\ r2.open /\ ~r2.torn /\ FileOK(J, r2, nm)
      /\ \A x : Under(r, x, nm) /\ Follows(h, x) => Under(r2, x, nm)
  <2>1. /\ Good(h, nm) /\ Proper(h) /\ Follows(Recovered(J, r), h) /\ Under(r, h, nm)
        /\ J # << >> /\ (Recovered(J, r) # J => r.open /\ ~r.torn)
        /\ Len(Recovered(J, r)) < Len(h)
        /\ Anchor(Upto(h, Len(Recovered(J, r)))) = Anchor(Recovered(J, r))
    BY <1>3, <1>5
  <2>. HIDE DEF h, M, c, m
  <2>2. /\ Recovered(J, RoundsAfter(J, r, h)) = Adopted(Recovered(J, r), h)
        /\ RoundsAfter(J, r, h).open /\ ~RoundsAfter(J, r, h).torn
        /\ FileOK(J, RoundsAfter(J, r, h), nm)
        /\ \A x : Under(r, x, nm) /\ Follows(h, x) => Under(RoundsAfter(J, r, h), x, nm)
    BY <2>1, RoundAppended
  <2>. QED BY <1>4, <2>2 DEF M
<1>7. /\ Good(M, nm)
      /\ Unbroken => M = h
      /\ \A x : Good(x, nm) /\ Follows(R, x) /\ Follows(h, x) => Follows(M, x)
  BY <1>5, AdoptedFits
<1>8. Len(M) = Len(h) /\ Anchor(M) = Anchor(h)
  BY <1>3, <1>5, AdoptedProper
<1>. HIDE DEF h, R, M, m, c
<1>9. Ordered(M, r2, {h}, m, L, nm)
  <2>1. Follows(h, h)
    BY <1>5, FollowsItself
  <2>2. \A x \in L \cup {m} : Good(x, nm) /\ Follows(R, x) /\ Follows(h, x) /\ Under(r, x, nm)
    BY <1>2 DEF Ordered
  <2>3. \A x \in L \cup {m, h} : Follows(M, x) /\ Under(r2, x, nm)
    BY <1>5, <1>6, <1>7, <2>1, <2>2
  <2>. QED BY <1>2, <2>3 DEF Ordered
<1>10. FilesAt(c, J, r2)
  BY <1>3, <1>6, <1>8 DEF FilesAt
<1>11. TaskFits(u, t2, J, r2)
  BY <1>1, <1>3, <1>10 DEF TaskFits, h, c
<1>12. BooksOK(u, {t2}, {})
  BY <1>2 DEF BooksOK
<1>13. Exact(u, {t2}, {}, M)
  <2>. SUFFICES ASSUME u.cursor.sess # NoSession, Unbroken \/ ~u.handle
                PROVE  /\ u.pending # NoSnapshot => Unbroken \/ u.pendingFull
                       /\ u.pending = NoSnapshot => t2.snap.hist = u.mirror /\ M = u.mirror
    BY <1>1 DEF Exact
  <2>1. u.pending # NoSnapshot => Unbroken \/ u.pendingFull
    BY <1>2 DEF Exact
  <2>2. ASSUME u.pending = NoSnapshot
        PROVE  t.snap.hist = u.mirror /\ Unbroken
    BY <1>2, <2>2 DEF Exact
  <2>. QED BY <1>1, <1>7, <2>1, <2>2 DEF h
<1>14. Ready(u, {t2}, {}, J, r2, L, nm)
  BY <1>1, <1>6, <1>9, <1>11, <1>12, HistsOf DEF Ready, FilesKnown, m
<1>. QED BY <1>2, <1>6, <1>13, <1>14 DEF Held

\* The result is posted.
LEMMA SentKeeps ==
    ASSUME NEW nm \in Nat, NEW u \in UiType, NEW t \in TaskType, NEW J, NEW r,
           NEW L, Held(u, {t}, {}, J, r, L, nm), t.stage = "send"
    PROVE  Held(u, {}, {t.ok}, J, r, L, nm)
<1>. DEFINE h == t.snap.hist
            R == Recovered(J, r)
            m == u.mirror
<1>2. /\ BooksOK(u, {t}, {}) /\ Ordered(R, r, {h}, m, L, nm) /\ TaskFits(u, t, J, r)
      /\ Exact(u, {t}, {}, R)
      /\ u.pending # NoSnapshot => u.pending = Snapshot(u.sess, u.mirror)
  BY HistsOf DEF Held, Ready
<1>3. t.ok \in BOOLEAN
  BY DEF TaskType
<1>4. t.ok => FilesAt(u.cursor, J, r)
  BY <1>2 DEF TaskFits
<1>. HIDE DEF h, R, m
<1>5. BooksOK(u, {}, {t.ok})
  BY <1>2 DEF BooksOK
<1>6. Ordered(R, r, {}, m, L, nm)
  BY <1>2 DEF Ordered
<1>7. FilesKnown(u, {}, {t.ok}, J, r)
  BY <1>3, <1>4 DEF FilesKnown
<1>8. Exact(u, {}, {t.ok}, R)
  BY <1>2, <1>3 DEF Exact
<1>9. Ready(u, {}, {t.ok}, J, r, L, nm)
  BY <1>5, <1>6, <1>7, HistsOf DEF Ready, R, m
<1>. QED BY <1>2, <1>8, <1>9 DEF Held, R

(***************************************************************************)
(* What the agent's steps, the user's and the UI's handlers leave.         *)
(***************************************************************************)

\* An event joins the channel.
LEMMA AppendedEvent ==
    ASSUME NEW ch \in Seq(EventType), NEW e \in EventType, NEW ch2, ch2 = Append(ch, e)
    PROVE  /\ ch2 \in Seq(EventType)
           /\ DOMAIN ch \subseteq DOMAIN ch2
           /\ \A i \in DOMAIN ch : i \in Nat /\ i < Len(ch) + 1 /\ ch2[i] = ch[i]
           /\ Len(ch) + 1 \in DOMAIN ch2 /\ ch2[Len(ch) + 1] = e
           /\ \A i \in DOMAIN ch2 : i \in DOMAIN ch \/ i = Len(ch) + 1
<1>1. Len(ch) \in Nat /\ DOMAIN ch = 1..Len(ch)
  BY LenProperties
<1>2. /\ ch2 \in Seq(EventType) /\ Len(ch2) = Len(ch) + 1
      /\ \A j \in 1..Len(ch) : ch2[j] = ch[j]
      /\ ch2[Len(ch) + 1] = e
  BY AppendProperties
<1>3. DOMAIN ch2 = 1..Len(ch) + 1
  BY <1>2, LenProperties
<1>. QED BY <1>1, <1>2, <1>3

LEMMA EventsAfter ==
    ASSUME NEW ch \in Seq(EventType), NEW e \in EventType, NEW ch2, ch2 = Append(ch, e),
           NEW a, NEW handle \in BOOLEAN
    PROVE  /\ Done(ch2) <=> Done(ch) \/ e.kind = "done"
           /\ Reports(ch2) = Reports(ch) \cup (IF Saved(e) THEN {e.ok} ELSE {})
           /\ Later(ch2, a, handle) \subseteq Later(ch, a, handle)
                                              \cup (IF Posted(e) THEN {e.hist} ELSE {})
<1>1. /\ \A i \in DOMAIN ch : i \in DOMAIN ch2 /\ ch2[i] = ch[i]
      /\ Len(ch) + 1 \in DOMAIN ch2 /\ ch2[Len(ch) + 1] = e
      /\ \A i \in DOMAIN ch2 : i \in DOMAIN ch \/ i = Len(ch) + 1
  BY AppendedEvent
<1>2. Done(ch2) <=> Done(ch) \/ e.kind = "done"
  BY <1>1 DEF Done
<1>3. Reports(ch2) = Reports(ch) \cup (IF Saved(e) THEN {e.ok} ELSE {})
  BY <1>1 DEF Reports
<1>4. Later(ch2, a, handle) \subseteq Later(ch, a, handle)
                                      \cup (IF Posted(e) THEN {e.hist} ELSE {})
  BY <1>1 DEF Later
<1>. QED BY <1>2, <1>3, <1>4

LEMMA EventsWithout ==
    ASSUME NEW ch \in Seq(EventType), ch # << >>, NEW a, NEW handle \in BOOLEAN
    PROVE  /\ Done(Tail(ch)) => Done(ch)
           /\ Done(ch) => Done(Tail(ch)) \/ Head(ch).kind = "done"
           /\ ~Saved(Head(ch)) => Reports(Tail(ch)) = Reports(ch)
           /\ Later(Tail(ch), a, handle) \subseteq Later(ch, a, handle)
           /\ Chain(ch, a) => Chain(Tail(ch), a)
           /\ Posted(Head(ch)) => /\ handle => Head(ch).hist \in Later(ch, a, handle)
                                  /\ Chain(ch, a) => \A h \in Later(Tail(ch), a, handle) :
                                                         Follows(Head(ch).hist, h)
<1>. DEFINE w == Tail(ch)
            e == Head(ch)
<1>1. /\ 1 \in DOMAIN ch /\ ch[1] = e
      /\ \A j \in DOMAIN w : /\ j \in Nat /\ j > 0
                             /\ j + 1 \in DOMAIN ch /\ j + 1 # 1 /\ w[j] = ch[j + 1]
      /\ \A i \in DOMAIN ch : i # 1 => i - 1 \in DOMAIN w /\ w[i - 1] = ch[i]
  <2>1. Len(ch) \in Nat \ {0} /\ DOMAIN ch = 1..Len(ch)
    BY EmptySeq, LenProperties
  <2>2. /\ w \in Seq(EventType) /\ Len(w) = Len(ch) - 1
        /\ \A j \in 1 .. Len(w) : w[j] = ch[j + 1]
    BY HeadTailProperties
  <2>3. DOMAIN w = 1 .. Len(ch) - 1
    BY <2>2, LenProperties
  <2>4. ch[1] = e
    BY <2>1
  <2>. HIDE DEF w, e
  <2>5. \A j \in DOMAIN w : w[j] = ch[j + 1]
    BY <2>2, <2>3
  <2>6. ASSUME NEW i \in DOMAIN ch, i # 1
        PROVE  i - 1 \in DOMAIN w /\ w[i - 1] = ch[i]
    <3>. DEFINE n == Len(ch)
    <3>0. n \in Nat /\ i \in 1..n /\ DOMAIN w = 1..n-1
      BY <2>1, <2>3
    <3>. HIDE DEF n
    <3>1. i - 1 \in DOMAIN w /\ (i - 1) + 1 = i
      BY <2>6, <3>0
    <3>. QED BY <2>5, <3>1
  <2>. QED BY <2>1, <2>3, <2>4, <2>5, <2>6
<1>. HIDE DEF w, e
<1>2. Done(w) => Done(ch)
  BY <1>1 DEF Done
<1>3. Done(ch) => Done(w) \/ e.kind = "done"
  BY <1>1 DEF Done
<1>4. ~Saved(e) => Reports(w) = Reports(ch)
  <2>. SUFFICES ASSUME ~Saved(e) PROVE Reports(w) = Reports(ch)
    OBVIOUS
  <2>1. Reports(w) \subseteq Reports(ch)
    BY <1>1 DEF Reports
  <2>2. ASSUME NEW k \in DOMAIN ch, Saved(ch[k])
        PROVE  ch[k].ok \in Reports(w)
    <3>1. k # 1
      BY <1>1, <2>2
    <3>2. k - 1 \in DOMAIN w /\ w[k - 1] = ch[k]
      BY <1>1, <3>1
    <3>. DEFINE j == k - 1
    <3>3. j \in DOMAIN w /\ w[j] = ch[k]
      BY <3>2
    <3>. HIDE DEF j
    <3>. QED BY <2>2, <3>3 DEF Reports
  <2>3. Reports(ch) \subseteq Reports(w)
    BY <2>2 DEF Reports
  <2>. QED BY <2>1, <2>3
<1>5. Later(w, a, handle) \subseteq Later(ch, a, handle)
  BY <1>1 DEF Later
<1>6. Chain(ch, a) => Chain(w, a)
  <2>. SUFFICES ASSUME Chain(ch, a), NEW i \in DOMAIN w, Posted(w[i])
                PROVE  /\ Follows(w[i].hist, a)
                       /\ \A j \in DOMAIN w : Posted(w[j]) /\ i < j =>
                              Follows(w[i].hist, w[j].hist)
    BY DEF Chain
  <2>1. i + 1 \in DOMAIN ch /\ w[i] = ch[i + 1]
    BY <1>1
  <2>2. Follows(w[i].hist, a)
    BY <2>1 DEF Chain
  <2>3. ASSUME NEW j \in DOMAIN w, Posted(w[j]), i < j
        PROVE  Follows(w[i].hist, w[j].hist)
    <3>1. j + 1 \in DOMAIN ch /\ w[j] = ch[j + 1] /\ i + 1 < j + 1
      BY <1>1, <2>3
    <3>. QED BY <2>1, <2>3, <3>1 DEF Chain
  <2>. QED BY <2>2, <2>3
<1>7. ASSUME Posted(e)
      PROVE  /\ handle => e.hist \in Later(ch, a, handle)
             /\ Chain(ch, a) => \A h \in Later(w, a, handle) : Follows(e.hist, h)
  <2>1. handle => e.hist \in Later(ch, a, handle)
    BY <1>1, <1>7 DEF Later
  <2>2. ASSUME Chain(ch, a), NEW h \in Later(w, a, handle) PROVE Follows(e.hist, h)
    <3>1. CASE h = a
      BY <1>1, <1>7, <2>2, <3>1 DEF Chain
    <3>2. ASSUME NEW j \in DOMAIN w, Posted(w[j]), h = w[j].hist PROVE Follows(e.hist, h)
      <4>1. j + 1 \in DOMAIN ch /\ w[j] = ch[j + 1] /\ 1 < j + 1
        BY <1>1
      <4>. QED BY <1>1, <1>7, <2>2, <3>2, <4>1 DEF Chain
    <3>. QED BY <2>2, <3>1, <3>2 DEF Later
  <2>. QED BY <2>1, <2>2
<1>. QED BY <1>2, <1>3, <1>4, <1>5, <1>6, <1>7 DEF w, e

\* The agent's history changes, and the change may be posted.
LEMMA GrowsKeeps ==
    ASSUME NEW nm \in Nat, NEW u \in UiType, NEW U, NEW O, NEW ch \in Seq(EventType),
           NEW a \in History, NEW J, NEW r \in JournalType, FileOK(J, r, nm),
           Keeps(u, U, O, ch, a, "running", J, r, nm),
           NEW a2 \in History, Changed(a, a2, nm), Len(a2) > 1,
           NEW e \in EventType, Posted(e), e.hist = a2,
           NEW ch2, ch2 = ch \/ ch2 = Append(ch, e)
    PROVE  /\ Keeps(u, U, O, ch2, a2, "running", J, r, nm + 1)
           /\ Reports(ch2) = Reports(ch)
<1>. DEFINE L == Later(ch, a, TRUE)
            R == Recovered(J, r)
            m == u.mirror
<1>1. e \in EventType /\ Posted(e) /\ ~Saved(e) /\ e.kind # "done" /\ e.hist = a2
  BY DEF Posted, Saved
<1>2. /\ u.handle /\ ~Done(ch) /\ Chain(ch, a) /\ \A h \in L : Proper(h)
      /\ u.sess = NoSession \/ u.sess # NoSession
  BY DEF Keeps, TurnOK
<1>3. Ordered(R, r, Hists(U), m, L, nm) /\ Good(R, nm)
  BY <1>2 DEF Keeps, Held, Ready, FileOK
<1>4. a \in L
  BY DEF Later
<1>5. Good(a, nm) /\ Good(a2, nm + 1)
  BY <1>3, <1>4 DEF Ordered, Changed
<1>6. /\ ~Done(ch2) /\ Reports(ch2) = Reports(ch)
      /\ Later(ch2, a2, TRUE) \subseteq L \cup {a2}
  <2>1. Later(ch, a2, TRUE) \subseteq L \cup {a2}
    BY DEF Later
  <2>2. CASE ch2 = ch
    BY <1>2, <2>1, <2>2
  <2>3. CASE ch2 = Append(ch, e)
    <3>1. /\ Done(ch2) <=> Done(ch) \/ e.kind = "done"
          /\ Reports(ch2) = Reports(ch) \cup (IF Saved(e) THEN {e.ok} ELSE {})
          /\ Later(ch2, a2, TRUE) \subseteq Later(ch, a2, TRUE)
                                            \cup (IF Posted(e) THEN {e.hist} ELSE {})
      BY <1>1, <2>3, EventsAfter
    <3>. HIDE DEF L
    <3>. QED BY <1>1, <1>2, <2>1, <3>1
  <2>. QED BY <2>2, <2>3
<1>7. a2 # << >> /\ a2 # Blank
  <2>1. Len(Blank) = 1 /\ Len(<< >>) = 0
    BY DEF Blank
  <2>2. Len(a2) # 1 /\ Len(a2) # 0
    <3>. DEFINE n == Len(a2)
    <3>1. n \in Nat /\ n > 1
      BY HistoryFacts
    <3>. HIDE DEF n
    <3>2. n # 1 /\ n # 0
      BY <3>1
    <3>. QED BY <3>2 DEF n
  <2>. QED BY <2>1, <2>2
<1>8. \A i \in DOMAIN ch : Posted(ch[i]) => Follows(ch[i].hist, a2) /\ ch[i].hist \in L
  <2>. SUFFICES ASSUME NEW i \in DOMAIN ch, Posted(ch[i])
                PROVE  Follows(ch[i].hist, a2) /\ ch[i].hist \in L
    OBVIOUS
  <2>1. ch[i].hist \in L /\ Follows(ch[i].hist, a)
    BY <1>2 DEF Chain, Later
  <2>2. Good(ch[i].hist, nm)
    BY <1>3, <2>1 DEF Ordered
  <2>. HIDE DEF L
  <2>. QED BY <1>5, <2>1, <2>2, StillFollows
<1>9. Chain(ch2, a2)
  <2>1. CASE ch2 = ch
    BY <1>2, <1>8, <2>1 DEF Chain
  <2>2. CASE ch2 = Append(ch, e)
    <3>. HIDE DEF L
    <3>1. /\ \A i \in DOMAIN ch : i \in Nat /\ i < Len(ch) + 1 /\ ch2[i] = ch[i]
          /\ Len(ch) + 1 \in DOMAIN ch2 /\ ch2[Len(ch) + 1] = e
          /\ \A i \in DOMAIN ch2 : i \in DOMAIN ch \/ i = Len(ch) + 1
      BY <1>1, <2>2, AppendedEvent
    <3>2. Follows(a2, a2)
      BY <1>5, FollowsItself
    <3>. DEFINE n == Len(ch) + 1
    <3>3. /\ \A i \in DOMAIN ch : i \in Nat /\ i < n /\ ch2[i] = ch[i]
          /\ ch2[n] = e /\ n \in Nat
          /\ \A i \in DOMAIN ch2 : i \in DOMAIN ch \/ i = n
      BY <3>1, LenProperties
    <3>. HIDE DEF n
    <3>4. ASSUME NEW i \in DOMAIN ch2, Posted(ch2[i])
          PROVE  Follows(ch2[i].hist, a2)
      BY <1>1, <1>8, <3>2, <3>3, <3>4
    <3>5. ASSUME NEW i \in DOMAIN ch2, Posted(ch2[i]),
                 NEW j \in DOMAIN ch2, Posted(ch2[j]), i < j
          PROVE  Follows(ch2[i].hist, ch2[j].hist)
      <4>1. CASE j = n
        BY <1>1, <3>3, <3>4, <3>5, <4>1
      <4>2. CASE j # n
        <5>1. j \in DOMAIN ch /\ i \in DOMAIN ch
          BY <3>3, <3>5, <4>2
        <5>2. ch2[i] = ch[i] /\ ch2[j] = ch[j]
          BY <3>3, <5>1
        <5>. QED BY <1>2, <3>5, <5>1, <5>2 DEF Chain
      <4>. QED BY <4>1, <4>2
    <3>. QED BY <3>4, <3>5 DEF Chain
  <2>. QED BY <2>1, <2>2
<1>10. \A h \in Later(ch2, a2, TRUE) : Proper(h)
  BY <1>2, <1>6, <1>7 DEF Proper
<1>11. TurnOK(u, ch2, a2, "running")
  BY <1>2, <1>6, <1>7, <1>9, <1>10 DEF TurnOK
<1>12. Ordered(R, r, Hists(U), m, Later(ch2, a2, TRUE), nm + 1)
  <2>. HIDE DEF L, R, m
  <2>. QED BY <1>3, <1>4, <1>6, OrderedGrows
<1>13. Held(u, U, O, J, r, Later(ch2, a2, TRUE), nm + 1)
  BY <1>12 DEF Keeps, Held, Ready
<1>. HIDE DEF L
<1>. QED BY <1>2, <1>6, <1>11, <1>13 DEF Keeps

\* The turn ends.
LEMMA EndKeeps ==
    ASSUME NEW nm \in Nat, NEW u \in UiType, NEW U, NEW O, NEW ch \in Seq(EventType),
           NEW a, NEW J, NEW r, Keeps(u, U, O, ch, a, "running", J, r, nm),
           NEW e \in EventType, e.kind = "done", NEW ch2, ch2 = Append(ch, e)
    PROVE  Keeps(u, U, O, ch2, a, "idle", J, r, nm)
<1>. DEFINE L == Later(ch, a, TRUE)
<1>1. e \in EventType /\ ~Posted(e) /\ ~Saved(e) /\ e.kind = "done"
  BY DEF Posted, Saved
<1>2. /\ u.handle /\ Chain(ch, a) /\ \A h \in L : Proper(h)
      /\ a # << >> /\ a # Blank
  BY DEF Keeps, TurnOK
<1>3. /\ Done(ch2) /\ Reports(ch2) = Reports(ch) /\ Later(ch2, a, TRUE) \subseteq L
  <2>1. /\ Done(ch2) <=> Done(ch) \/ e.kind = "done"
        /\ Reports(ch2) = Reports(ch) \cup (IF Saved(e) THEN {e.ok} ELSE {})
        /\ Later(ch2, a, TRUE) \subseteq Later(ch, a, TRUE)
                                         \cup (IF Posted(e) THEN {e.hist} ELSE {})
    BY <1>1, EventsAfter
  <2>. QED BY <1>1, <2>1
<1>4. Chain(ch2, a)
  <2>1. /\ \A i \in DOMAIN ch : i \in Nat /\ i < Len(ch) + 1 /\ ch2[i] = ch[i]
        /\ Len(ch) + 1 \in DOMAIN ch2 /\ ch2[Len(ch) + 1] = e
        /\ \A i \in DOMAIN ch2 : i \in DOMAIN ch \/ i = Len(ch) + 1
    BY <1>1, AppendedEvent
  <2>2. \A i \in DOMAIN ch2 : Posted(ch2[i]) => i \in DOMAIN ch /\ ch2[i] = ch[i]
    BY <1>1, <2>1
  <2>. QED BY <1>2, <2>2 DEF Chain
<1>5. TurnOK(u, ch2, a, "idle")
  BY <1>2, <1>3, <1>4 DEF TurnOK
<1>6. Held(u, U, O, J, r, Later(ch2, a, TRUE), nm)
  BY <1>2, <1>3 DEF Keeps, Held, Ready, Ordered
<1>. QED BY <1>2, <1>3, <1>5, <1>6 DEF Keeps

\* A turn starts with a message of the user's.
LEMMA StartKeeps ==
    ASSUME NEW nm \in Nat, NEW u \in UiType, NEW U, NEW O, NEW ch \in Seq(EventType),
           NEW a \in History, NEW J, NEW r \in JournalType, FileOK(J, r, nm),
           Keeps(u, U, O, ch, a, "idle", J, r, nm),
           \A i \in DOMAIN ch : Saved(ch[i]),
           NEW a2 \in History, Changed(a, a2, nm), Proper(a2),
           NEW v, v = [u EXCEPT !.handle = TRUE]
    PROVE  Keeps(v, U, O, ch, a2, "running", J, r, nm + 1)
<1>1. ~Done(ch) /\ \A i \in DOMAIN ch : ~Posted(ch[i])
  BY DEF Done, Posted, Saved
<1>2. ~u.handle
  BY <1>1 DEF Keeps, TurnOK
<1>2a. u.handle = FALSE
  BY <1>2 DEF UiType
<1>3. /\ v.phase = u.phase /\ v.sess = u.sess /\ v.mirror = u.mirror /\ v.handle
      /\ v.cursor = u.cursor /\ v.inFlight = u.inFlight /\ v.pending = u.pending
      /\ v.pendingFull = u.pendingFull
  BY DEF UiType
<1>4. Later(ch, a, FALSE) = {a} /\ Later(ch, a2, TRUE) = {a2}
  BY <1>1 DEF Later
<1>5. Chain(ch, a2)
  BY <1>1 DEF Chain
<1>6. TurnOK(v, ch, a2, "running")
  BY <1>1, <1>3, <1>4, <1>5 DEF TurnOK, Proper
<1>7. Held(u, U, O, J, r, {a}, nm)
  BY <1>2a, <1>4 DEF Keeps
<1>8. Ordered(Recovered(J, r), r, Hists(U), v.mirror, {a2}, nm + 1)
  <2>1. Ordered(Recovered(J, r), r, Hists(U), u.mirror, {a}, nm) /\ Good(Recovered(J, r), nm)
    BY <1>7 DEF Held, Ready, FileOK
  <2>. QED BY <1>3, <2>1, OrderedGrows
<1>9. Ready(v, U, O, J, r, {a2}, nm + 1)
  <2>1. BooksOK(v, U, O)
    BY <1>3, <1>7 DEF Held, Ready, BooksOK
  <2>2. \A t \in U : TaskFits(v, t, J, r)
    BY <1>3, <1>7 DEF Held, Ready, TaskFits
  <2>3. FilesKnown(v, U, O, J, r)
    BY <1>3, <1>7 DEF Held, Ready, FilesKnown
  <2>. QED BY <1>8, <2>1, <2>2, <2>3 DEF Ready
<1>10. Exact(v, U, O, Recovered(J, r))
  BY <1>2, <1>3, <1>7 DEF Held, Exact
<1>11. Held(v, U, O, J, r, {a2}, nm + 1)
  BY <1>3, <1>7, <1>9, <1>10 DEF Held
<1>. QED BY <1>3, <1>4, <1>6, <1>11 DEF Keeps

\* What is left to say of a session without files.
LEMMA MintRest ==
    ASSUME NEW n \in Nat, NEW v, v \in UiType, v.phase = "running", v.sess # NoSession,
           v.cursor.sess = NoSession, ~v.inFlight, v.pending = NoSnapshot, v.handle,
           Good(v.mirror, n), Proper(v.mirror),
           NEW a, Good(a, n), Proper(a), Follows(v.mirror, a),
           NEW ch, Later(ch, a, TRUE) = {a}, Chain(ch, a), ~Done(ch)
    PROVE  /\ Ready(v, {}, {}, << >>, NoJournal, {a}, n)
           /\ Alone(v, {}, {})
           /\ TurnOK(v, ch, a, "running")
<1>1. TurnOK(v, ch, a, "running")
  BY DEF TurnOK, Proper
<1>2. Alone(v, {}, {})
  BY DEF Alone
<1>3. BooksOK(v, {}, {})
  BY DEF BooksOK
<1>4. Ordered(<< >>, NoJournal, {}, v.mirror, {a}, n)
  <2>1. \A h : Follows(<< >>, h) /\ Under(NoJournal, h, n)
    BY EmptyFollowed, NoFile DEF Under
  <2>. QED BY <2>1 DEF Ordered
<1>5. FilesKnown(v, {}, {}, << >>, NoJournal)
  BY DEF FilesKnown
<1>. QED BY <1>1, <1>2, <1>3, <1>4, <1>5, NoFile, HistsOf DEF Ready

\* The first message of a conversation reserves its id.
LEMMA MintReady ==
    ASSUME NEW nm \in Message, nm > Sys, NEW u \in UiType, NEW U, NEW O,
           NEW ch \in Seq(EventType), NEW a \in History,
           Alone(u, U, O), Keeps(u, U, O, ch, a, "idle", << >>, NoJournal, nm),
           \A i \in DOMAIN ch : Saved(ch[i]), u.sess = NoSession, NEW s \in Session,
           NEW v \in UiType, v.phase = u.phase, v.sess = s, v.mirror = Append(u.mirror, nm),
           v.handle = TRUE, v.cursor = u.cursor, v.inFlight = u.inFlight, v.pending = u.pending
    PROVE  /\ U = {} /\ O = {}
           /\ Ready(v, {}, {}, << >>, NoJournal, Later(ch, Append(a, nm), v.handle), nm + 1)
           /\ TurnOK(v, ch, Append(a, nm), "running")
<1>. DEFINE a2 == Append(a, nm)
            m == u.mirror
            m2 == Append(m, nm)
<1>1. ~Done(ch) /\ \A i \in DOMAIN ch : ~Posted(ch[i])
  BY DEF Done, Posted, Saved
<1>2. ~u.handle /\ a # << >> /\ (m = a \/ (a = Blank /\ m = << >>))
  BY <1>1 DEF Keeps, TurnOK
<1>2a. u.handle = FALSE
  BY <1>2 DEF UiType
<1>3. m \in History /\ nm \in Nat /\ m2 \in History /\ a2 \in History
  BY MessageFacts, HistoryGrows DEF UiType, Message
<1>4. /\ v.phase = u.phase /\ v.sess = s /\ v.mirror = m2 /\ v.handle
      /\ v.cursor = u.cursor /\ v.inFlight = u.inFlight /\ v.pending = u.pending
      /\ v \in UiType
  OBVIOUS
<1>5. Later(ch, a, FALSE) = {a} /\ Later(ch, a2, TRUE) = {a2} /\ Chain(ch, a2)
  BY <1>1 DEF Later, Chain
<1>6. Held(u, U, O, << >>, NoJournal, {a}, nm)
  BY <1>2a, <1>5 DEF Keeps
<1>7. U = {} /\ O = {} /\ ~u.inFlight /\ u.cursor.sess = NoSession /\ u.phase = "running"
      /\ u.pending = NoSnapshot
  BY <1>6 DEF Held, Ready, BooksOK, Alone
<1>8. Ordered(<< >>, NoJournal, {}, m, {a}, nm)
  BY <1>6, <1>7, NoFile, HistsOf DEF Held, Ready
<1>9. Good(a, nm) /\ Good(m, nm)
  BY <1>8 DEF Ordered
<1>10. Good(a2, nm + 1) /\ Good(m2, nm + 1)
  BY <1>9, AppendChanges DEF Changed
<1>11. /\ Len(a2) = Len(a) + 1 /\ a2[Len(a) + 1] = nm /\ Len(a) \in Nat /\ Len(a) # 0
       /\ Len(m2) = Len(m) + 1 /\ m2[Len(m) + 1] = nm /\ Len(m) \in Nat
       /\ Len(Blank) = 1 /\ Blank[1] = Sys /\ Len(<< >>) = 0
       /\ \A k \in 1..Len(a) : a2[k] = a[k]
  <2>1. a \in Seq(Message) /\ m \in Seq(Message)
    BY <1>3 DEF History
  <2>2. /\ Len(a2) = Len(a) + 1 /\ a2[Len(a) + 1] = nm
        /\ Len(m2) = Len(m) + 1 /\ m2[Len(m) + 1] = nm
        /\ \A k \in 1..Len(a) : a2[k] = a[k]
    BY <2>1, AppendProperties
  <2>3. Len(a) \in Nat /\ Len(a) # 0 /\ Len(m) \in Nat
    BY <1>2, <1>3, HistoryFacts
  <2>4. Len(Blank) = 1 /\ Blank[1] = Sys /\ Len(<< >>) = 0
    BY DEF Blank
  <2>. QED BY <2>2, <2>3, <2>4
<1>. HIDE DEF a2, m2, m
<1>12. Proper(a2)
  <2>. DEFINE n == Len(a)
  <2>1. n \in Nat /\ n # 0 /\ Len(a2) = n + 1
    BY <1>11
  <2>. HIDE DEF n
  <2>2. Len(a2) # 0 /\ Len(a2) # 1
    BY <2>1
  <2>. QED BY <1>11, <2>2 DEF Proper
<1>13. Follows(m2, a2) /\ Proper(m2)
  <2>1. CASE m = a
    <3>1. m2 = a2
      BY <2>1 DEF m2, a2
    <3>. QED BY <1>10, <1>12, <3>1, FollowsItself
  <2>2. CASE a = Blank /\ m = << >>
    <3>0. Len(m) = 0 /\ Len(a) = 1 /\ a[1] = Sys
      BY <1>11, <2>2
    <3>1. Len(m2) = 1 /\ m2[1] = nm /\ Len(a2) = 2 /\ a2[1] = Sys /\ a2[2] = nm
      BY <1>11, <3>0
    <3>2. DOMAIN m2 = 1..1 /\ DOMAIN a2 = 1..2
      BY <1>3, <3>1, HistoryFacts
    <3>3. Sys # nm
      BY <1>3 DEF Sys
    <3>4. NotOlder(m2, a2) /\ Follows(m2, a2)
      <4>1. NotOlder(m2, a2)
        BY <1>3, <3>1, <3>2 DEF NotOlder
      <4>. QED BY <3>1, <3>2, <3>3, <4>1 DEF Follows
    <3>5. m2 # << >> /\ m2 # Blank
      BY <1>11, <3>1, <3>3
    <3>. QED BY <3>4, <3>5 DEF Proper
  <2>. QED BY <1>2, <2>1, <2>2
<1>14. nm + 1 \in Nat /\ v.sess # NoSession
  BY <1>3, <1>4, NamesAssumption
<1>15. /\ v \in UiType /\ v.phase = "running" /\ v.cursor.sess = NoSession
       /\ ~v.inFlight /\ v.pending = NoSnapshot /\ v.handle
       /\ Good(v.mirror, nm + 1) /\ Proper(v.mirror) /\ Follows(v.mirror, a2)
  BY <1>4, <1>7, <1>10, <1>13
<1>16. /\ Ready(v, {}, {}, << >>, NoJournal, {a2}, nm + 1)
       /\ Alone(v, {}, {})
       /\ TurnOK(v, ch, a2, "running")
  BY <1>1, <1>5, <1>10, <1>12, <1>14, <1>15, MintRest
<1>. QED BY <1>5, <1>7, <1>16 DEF a2


(***************************************************************************)
(* One process's tasks and reports, as they come and go.                   *)
(***************************************************************************)
LEMMA WritersAlone ==
    ASSUME NEW u, NEW ts, NEW ch, LocalOK(u, ts, ch), u.phase = "running"
    PROVE  Alone(u, Writers(ts), Reports(ch))
<1>. DEFINE U == Writers(ts)
            O == Reports(ch)
<1>1. /\ u \in UiType /\ ts \in Seq(TaskType) /\ ch \in Seq(EventType)
      /\ u.pending # NoSnapshot => u.inFlight
  BY DEF LocalOK, UiOK
<1>2. /\ \A i, j \in DOMAIN ts : Unreported(ts[i]) /\ Unreported(ts[j]) => i = j
      /\ \A i \in DOMAIN ts, j \in DOMAIN ch : ~(Unreported(ts[i]) /\ Saved(ch[j]))
      /\ \A i \in DOMAIN ts : Unreported(ts[i]) => u.inFlight
      /\ \A j \in DOMAIN ch : Saved(ch[j]) => u.inFlight
  BY DEF LocalOK, Accounted
<1>3. U \subseteq TaskType
  <2>1. \A i \in DOMAIN ts : ts[i] \in TaskType
    BY <1>1, LenProperties, ElementOfSeq
  <2>. QED BY <2>1 DEF Writers
<1>4. O \subseteq BOOLEAN
  <2>1. \A i \in DOMAIN ch : ch[i] \in EventType
    BY <1>1, LenProperties, ElementOfSeq
  <2>2. \A i \in DOMAIN ch : ch[i].ok \in BOOLEAN
    BY <2>1 DEF EventType
  <2>. QED BY <2>2 DEF Reports
<1>5. \A t, w \in U : t = w
  BY <1>2 DEF Writers
<1>6. U = {} \/ O = {}
  BY <1>2 DEF Writers, Reports
<1>7. U # {} \/ O # {} => u.inFlight
  BY <1>2 DEF Writers, Reports
<1>. HIDE DEF U, O
<1>. QED BY <1>1, <1>3, <1>4, <1>5, <1>6, <1>7 DEF Alone, U, O

LEMMA WritersSpawned ==
    ASSUME NEW ts \in Seq(TaskType), NEW o,
           o.spawned = << >> \/ \E t : NewTask(t) /\ o.spawned = <<t>>,
           \A i \in DOMAIN ts : ts[i].snap.sess = ts[i].sess
    PROVE  Writers(ts \o o.spawned) = Writers(ts) \cup Spawns(o)
<1>1. CASE o.spawned = << >>
  <2>1. ts \o o.spawned = ts /\ DOMAIN o.spawned = {}
    BY <1>1, ConcatEmptySeq
  <2>. QED BY <2>1 DEF Spawns
<1>2. ASSUME NEW t, NewTask(t), o.spawned = <<t>>
      PROVE  Writers(ts \o o.spawned) = Writers(ts) \cup Spawns(o)
  <2>. DEFINE us == ts \o <<t>>
              n == Len(ts) + 1
  <2>1. Unreported(t) /\ t \in TaskType
    BY <1>2 DEF NewTask, Unreported
  <2>2. Spawns(o) = {t}
    BY <1>2 DEF Spawns
  <2>3. us = Append(ts, t)
    BY AppendIsConcat, <2>1
  <2>4. /\ \A i \in DOMAIN ts : i \in DOMAIN us /\ us[i] = ts[i]
        /\ n \in DOMAIN us /\ us[n] = t
        /\ \A i \in DOMAIN us : i \in DOMAIN ts \/ i = n
    <3>1. Len(ts) \in Nat /\ DOMAIN ts = 1..Len(ts)
      BY LenProperties
    <3>2. /\ us \in Seq(TaskType) /\ Len(us) = Len(ts) + 1
          /\ \A j \in 1..Len(ts) : us[j] = ts[j]
          /\ us[n] = t
      BY <2>1, <2>3, AppendProperties
    <3>3. DOMAIN us = 1..Len(ts) + 1
      BY <3>2, LenProperties
    <3>. HIDE DEF us
    <3>. QED BY <3>1, <3>2, <3>3
  <2>. HIDE DEF us, n
  <2>5. Writers(us) = Writers(ts) \cup {t}
    BY <2>1, <2>4 DEF Writers
  <2>. QED BY <1>2, <2>2, <2>5 DEF us
<1>. QED BY <1>1, <1>2

\* A task moves on: it was the only one that had still to write or to report.
LEMMA WriterMoves ==
    ASSUME NEW u, NEW ts, NEW ch, LocalOK(u, ts, ch), u.phase = "running",
           NEW i \in DOMAIN ts, Unreported(ts[i]), NEW t \in TaskType
    PROVE  /\ Writers(ts) = {ts[i]} /\ Reports(ch) = {}
           /\ Writers([ts EXCEPT ![i] = t]) = IF Unreported(t) THEN {t} ELSE {}
<1>. DEFINE us == [ts EXCEPT ![i] = t]
<1>1. /\ \A k \in DOMAIN ts : Unreported(ts[k]) => k = i
      /\ \A j \in DOMAIN ch : ~Saved(ch[j])
  BY DEF LocalOK, Accounted
<1>2. DOMAIN us = DOMAIN ts /\ us[i] = t /\ \A k \in DOMAIN ts : k # i => us[k] = ts[k]
  OBVIOUS
<1>. HIDE DEF us
<1>3. Writers(ts) = {ts[i]} /\ Reports(ch) = {}
  BY <1>1 DEF Writers, Reports
<1>4. CASE Unreported(t)
  BY <1>1, <1>2, <1>3, <1>4 DEF Writers, us
<1>5. CASE ~Unreported(t)
  BY <1>1, <1>2, <1>3, <1>5 DEF Writers, us
<1>. QED BY <1>3, <1>4, <1>5

\* A task that has reported leaves.
LEMMA WriterLeaves ==
    ASSUME NEW ts \in Seq(TaskType), NEW i \in DOMAIN ts, ~Unreported(ts[i])
    PROVE  Writers(RemoveAt(ts, i)) = Writers(ts)
<1>. DEFINE us == RemoveAt(ts, i)
            n == Len(ts)
<1>1. n \in Nat /\ DOMAIN ts = 1..n /\ i \in 1..n
  BY LenProperties
<1>2. /\ us \in Seq(TaskType) /\ Len(us) = n - 1
      /\ \A j \in 1..n - 1 : us[j] = IF j < i THEN ts[j] ELSE ts[j + 1]
  BY <1>1, RemoveAtProperties
<1>3. DOMAIN us = 1..n - 1
  BY <1>2, LenProperties
<1>. HIDE DEF us, n
<1>4. \A j \in DOMAIN us : \E k \in DOMAIN ts : us[j] = ts[k]
  <2>. SUFFICES ASSUME NEW j \in DOMAIN us PROVE \E k \in DOMAIN ts : us[j] = ts[k]
    OBVIOUS
  <2>1. j \in DOMAIN ts /\ j + 1 \in DOMAIN ts
    BY <1>1, <1>3
  <2>2. us[j] = ts[j] \/ us[j] = ts[j + 1]
    BY <1>2, <1>3
  <2>. QED BY <2>1, <2>2
<1>5. \A k \in DOMAIN ts : k # i => \E j \in DOMAIN us : us[j] = ts[k]
  <2>. SUFFICES ASSUME NEW k \in DOMAIN ts, k # i PROVE \E j \in DOMAIN us : us[j] = ts[k]
    OBVIOUS
  <2>1. CASE k < i
    <3>1. k \in DOMAIN us /\ us[k] = ts[k]
      BY <1>1, <1>2, <1>3, <2>1
    <3>. QED BY <3>1
  <2>2. CASE k > i
    <3>1. k - 1 \in DOMAIN us /\ ~(k - 1 < i) /\ (k - 1) + 1 = k
      BY <1>1, <1>3, <2>2
    <3>2. us[k - 1] = ts[k]
      BY <1>2, <1>3, <3>1
    <3>. QED BY <3>1, <3>2
  <2>. QED BY <1>1, <2>1, <2>2
<1>6. Writers(us) \subseteq Writers(ts)
  BY <1>4 DEF Writers
<1>7. Writers(ts) \subseteq Writers(us)
  BY <1>5 DEF Writers
<1>. QED BY <1>6, <1>7 DEF us

(***************************************************************************)
(* What the UI's handlers find and leave.                                  *)
(***************************************************************************)
LEMMA ViewTurn ==
    ASSUME NEW u, NEW v, SameView(u, v), NEW ch, NEW a, NEW tn, TurnOK(v, ch, a, tn)
    PROVE  TurnOK(u, ch, a, tn)
BY DEF SameView, TurnOK

LEMMA HeldFewer ==
    ASSUME NEW u, NEW U, NEW O, NEW J, NEW r, NEW L, NEW nm, Held(u, U, O, J, r, L, nm),
           NEW L2, L2 \subseteq L
    PROVE  Held(u, U, O, J, r, L2, nm)
<1>1. Ordered(Recovered(J, r), r, Hists(U), u.mirror, L, nm)
  BY DEF Held, Ready
<1>2. Ordered(Recovered(J, r), r, Hists(U), u.mirror, L2, nm)
  BY <1>1 DEF Ordered
<1>. QED BY <1>2 DEF Held, Ready

LEMMA KeepsLater ==
    ASSUME NEW nm \in Nat, NEW n \in Nat, nm <= n, NEW u, NEW U, NEW O, NEW ch, NEW a, NEW tn,
           NEW J, NEW r \in JournalType, Keeps(u, U, O, ch, a, tn, J, r, nm)
    PROVE  Keeps(u, U, O, ch, a, tn, J, r, n)
<1>. DEFINE R == Recovered(J, r)
            W == Hists(U)
            m == u.mirror
            L == Later(ch, a, u.handle)
<1>1. Ordered(R, r, W, m, L, nm)
  BY DEF Keeps, Held, Ready
<1>. HIDE DEF R, W, m, L
<1>2. Ordered(R, r, W, m, L, n)
  BY <1>1, OrderedLater
<1>. QED BY <1>2 DEF Keeps, Held, Ready, R, W, m, L

LEMMA ProperAppend ==
    ASSUME NEW a \in History, a # << >>, NEW m \in Message
    PROVE  Append(a, m) \in History /\ Len(Append(a, m)) > 1 /\ Proper(Append(a, m))
<1>. DEFINE h == Append(a, m)
            n == Len(a)
            k == Len(h)
<1>1. h \in History /\ k = n + 1 /\ n \in Nat /\ n # 0
  <2>1. a \in Seq(Message)
    BY DEF History
  <2>. QED BY <2>1, AppendProperties, HistoryGrows, HistoryFacts
<1>2. Len(Blank) = 1 /\ Len(<< >>) = 0
  BY DEF Blank
<1>. HIDE DEF n
<1>3. k > 1 /\ k # 0 /\ k # 1
  <2>. HIDE DEF k
  <2>. QED BY <1>1
<1>4. h # << >> /\ h # Blank
  BY <1>2, <1>3
<1>. QED BY <1>1, <1>3, <1>4 DEF Proper

\* The UI adopts a snapshot.
LEMMA AdoptReady ==
    ASSUME NEW nm \in Nat, NEW u \in UiType, NEW U, NEW O, NEW ch \in Seq(EventType),
           ch # << >>, NEW a, NEW tn, NEW J, NEW r \in JournalType, FileOK(J, r, nm),
           Keeps(u, U, O, ch, a, tn, J, r, nm), u.handle, Posted(Head(ch)),
           NEW v, v.phase = u.phase, v.sess = u.sess, v.cursor = u.cursor,
           v.inFlight = u.inFlight, v.handle = TRUE,
           v.mirror = Adopted(u.mirror, Head(ch).hist)
    PROVE  /\ Ready(v, U, O, J, r, Later(Tail(ch), a, v.handle), nm)
           /\ TurnOK(v, Tail(ch), a, tn)
<1>. DEFINE e == Head(ch)
            h == e.hist
            m == u.mirror
            L == Later(ch, a, TRUE)
            L2 == Later(Tail(ch), a, TRUE)
            R == Recovered(J, r)
            W == Hists(U)
<1>0. u.handle = TRUE /\ m \in History
  BY DEF UiType
<1>1. /\ v.phase = u.phase /\ v.sess = u.sess /\ v.handle = TRUE
      /\ v.cursor = u.cursor /\ v.inFlight = u.inFlight /\ v.mirror = Adopted(m, h)
  OBVIOUS
<1>2. Chain(ch, a) /\ \A k \in L : Proper(k)
  BY DEF Keeps, TurnOK
<1>3. /\ Done(Tail(ch)) => Done(ch)
      /\ Done(ch) => Done(Tail(ch))
      /\ Reports(Tail(ch)) = Reports(ch)
      /\ L2 \subseteq L /\ Chain(Tail(ch), a)
      /\ h \in L /\ \A k \in L2 : Follows(h, k)
  <2>1. ~Saved(e) /\ e.kind # "done"
    BY DEF Posted, Saved
  <2>. QED BY <1>2, <2>1, EventsWithout
<1>4. Ordered(R, r, W, m, L, nm) /\ Good(R, nm)
  BY <1>0 DEF Keeps, Held, Ready, FileOK
<1>. HIDE DEF L, L2, R, W, e
<1>5. Ordered(R, r, W, Adopted(m, h), L2, nm)
  BY <1>3, <1>4, OrderedAdopts
<1>6. Proper(Adopted(m, h))
  <2>1. Proper(h) /\ h \in History
    BY <1>2, <1>3, <1>4 DEF Ordered, Good
  <2>. QED BY <1>0, <2>1, AdoptedProper
<1>7. Ready(u, U, O, J, r, L, nm)
  BY <1>0 DEF Keeps, Held, L
<1>8. Ready(v, U, O, J, r, L2, nm)
  <2>1. BooksOK(v, U, O)
    BY <1>1, <1>6, <1>7 DEF Ready, BooksOK
  <2>2. \A t \in U : TaskFits(v, t, J, r)
    BY <1>1, <1>7 DEF Ready, TaskFits
  <2>3. FilesKnown(v, U, O, J, r)
    BY <1>1, <1>7 DEF Ready, FilesKnown
  <2>. QED BY <1>1, <1>5, <2>1, <2>2, <2>3 DEF Ready, R, W
<1>9. TurnOK(v, Tail(ch), a, tn)
  <2>1. \A k \in L2 : Proper(k)
    BY <1>2, <1>3
  <2>2. TurnOK(u, ch, a, tn)
    BY DEF Keeps
  <2>. QED BY <1>0, <1>1, <1>3, <2>1, <2>2 DEF TurnOK, L2
<1>. QED BY <1>1, <1>3, <1>8, <1>9 DEF L2

\* A turn is over for the UI: it reads the agent's history.
LEMMA TurnOverReady ==
    ASSUME NEW nm \in Nat, NEW u \in UiType, NEW U, NEW O, NEW ch,
           NEW a \in History, NEW tn, NEW J, NEW r \in JournalType, FileOK(J, r, nm),
           Keeps(u, U, O, ch, a, tn, J, r, nm), u.handle, NEW ch2,
           NEW v, v.phase = u.phase, v.sess = u.sess, v.cursor = u.cursor,
           v.inFlight = u.inFlight, v.handle = FALSE, v.mirror = a
    PROVE  /\ Ready(v, U, O, J, r, Later(ch2, a, v.handle), nm)
           /\ TurnOK(v, ch2, a, "idle")
<1>. DEFINE m == u.mirror
            L == Later(ch, a, TRUE)
            R == Recovered(J, r)
            W == Hists(U)
<1>0. u.handle = TRUE
  BY DEF UiType
<1>1. /\ v.phase = u.phase /\ v.sess = u.sess /\ v.handle = FALSE
      /\ v.cursor = u.cursor /\ v.inFlight = u.inFlight /\ v.mirror = a
  OBVIOUS
<1>2. a \in L /\ \A k \in L : Proper(k)
  BY DEF Keeps, TurnOK, Later
<1>3. Later(ch2, a, FALSE) = {a}
  BY DEF Later
<1>4. Ordered(R, r, W, m, L, nm) /\ Good(R, nm) /\ Ready(u, U, O, J, r, L, nm)
  BY <1>0 DEF Keeps, Held, Ready, FileOK
<1>. HIDE DEF L, R, W
<1>5. Ordered(R, r, W, a, {a}, nm)
  <2>1. Follows(a, a)
    BY <1>2, <1>4, FollowsItself DEF Ordered
  <2>2. {a} \subseteq L /\ \A k \in {a} : Follows(a, k)
    BY <1>2, <2>1
  <2>. QED BY <1>2, <1>4, <2>2, OrderedAdopts
<1>6. Ready(v, U, O, J, r, {a}, nm)
  <2>1. BooksOK(v, U, O)
    BY <1>1, <1>2, <1>4 DEF Ready, BooksOK
  <2>2. \A t \in U : TaskFits(v, t, J, r)
    BY <1>1, <1>4 DEF Ready, TaskFits
  <2>3. FilesKnown(v, U, O, J, r)
    BY <1>1, <1>4 DEF Ready, FilesKnown
  <2>. QED BY <1>1, <1>5, <2>1, <2>2, <2>3 DEF Ready, R, W
<1>7. TurnOK(v, ch2, a, "idle")
  BY <1>1, <1>2 DEF TurnOK, Proper
<1>. QED BY <1>1, <1>3, <1>6, <1>7

\* An event of a turn that is no longer live is dropped.
LEMMA DropKeeps ==
    ASSUME NEW nm \in Nat, NEW u \in UiType, NEW U, NEW O, NEW ch \in Seq(EventType),
           ch # << >>, NEW a, NEW tn, NEW J, NEW r,
           Keeps(u, U, O, ch, a, tn, J, r, nm), ~u.handle, ~Saved(Head(ch))
    PROVE  /\ Reports(Tail(ch)) = Reports(ch)
           /\ Keeps(u, U, O, Tail(ch), a, tn, J, r, nm)
<1>0. u.handle = FALSE
  BY DEF UiType
<1>1. Reports(Tail(ch)) = Reports(ch)
  BY EventsWithout
<1>2. Later(Tail(ch), a, FALSE) = Later(ch, a, FALSE)
  BY DEF Later
<1>3. TurnOK(u, Tail(ch), a, tn)
  BY DEF Keeps, TurnOK
<1>. QED BY <1>0, <1>1, <1>2, <1>3 DEF Keeps

\* A report is read.
LEMMA ReadKeeps ==
    ASSUME NEW nm \in Nat, NEW u \in UiType, NEW U, NEW ch \in Seq(EventType),
           ch # << >>, NEW a, NEW tn, NEW J \in History, NEW r \in JournalType, FileOK(J, r, nm),
           Alone(u, U, Reports(ch)), Keeps(u, U, Reports(ch), ch, a, tn, J, r, nm),
           Saved(Head(ch)), \A i, j \in DOMAIN ch : Saved(ch[i]) /\ Saved(ch[j]) => i = j,
           NEW o, o = OnSaveDone(u, Head(ch).ok)
    PROVE  /\ U = {} /\ Reports(Tail(ch)) = {}
           /\ Keeps(o.ui, Spawns(o), {}, Tail(ch), a, tn, J, r, nm)
           /\ o.ui.sess = u.sess
<1>. DEFINE e == Head(ch)
            L == Later(ch, a, u.handle)
<1>1. /\ e \in EventType /\ 1 \in DOMAIN ch /\ ch[1] = e
      /\ \A j \in DOMAIN Tail(ch) : /\ j + 1 \in DOMAIN ch /\ j + 1 # 1
                                    /\ Tail(ch)[j] = ch[j + 1]
  BY TailOfChannel
<1>2. e.ok \in BOOLEAN
  BY <1>1 DEF EventType
<1>. HIDE DEF e
<1>3. \A k \in DOMAIN ch : Saved(ch[k]) => k = 1
  BY <1>1 DEF e
<1>4. Reports(ch) = {e.ok}
  BY <1>1, <1>3 DEF Reports, e
<1>5. Reports(Tail(ch)) = {}
  <2>1. \A j \in DOMAIN Tail(ch) : ~Saved(Tail(ch)[j])
    BY <1>1, <1>3
  <2>. QED BY <2>1 DEF Reports
<1>6. U = {}
  BY <1>4 DEF Alone
<1>7. Held(u, {}, {e.ok}, J, r, L, nm)
  BY <1>4, <1>6 DEF Keeps
<1>8. u.sess # NoSession
  BY <1>7 DEF Held, Ready, BooksOK
<1>9. Held(o.ui, Spawns(o), {}, J, r, L, nm) /\ SameView(o.ui, u)
  <2>. HIDE DEF L
  <2>1. o = OnSaveDone(u, e.ok)
    BY DEF e
  <2>. QED BY <1>2, <1>7, <1>8, <2>1, DoneKeeps
<1>10. /\ Done(Tail(ch)) <=> Done(ch)
       /\ Later(Tail(ch), a, u.handle) \subseteq L
       /\ Chain(ch, a) => Chain(Tail(ch), a)
  <2>1. u.handle \in BOOLEAN /\ Head(ch).kind # "done"
    BY DEF UiType, Saved
  <2>. QED BY <2>1, EventsWithout
<1>11. TurnOK(u, Tail(ch), a, tn)
  <2>1. u.handle => Later(Tail(ch), a, TRUE) \subseteq Later(ch, a, TRUE)
    BY <1>10 DEF UiType
  <2>. QED BY <1>10, <2>1 DEF Keeps, TurnOK
<1>12. TurnOK(o.ui, Tail(ch), a, tn)
  BY <1>9, <1>11, ViewTurn
<1>13. o.ui.handle = u.handle /\ o.ui.sess = u.sess
  BY <1>9 DEF SameView
<1>14. Held(o.ui, Spawns(o), {}, J, r, Later(Tail(ch), a, o.ui.handle), nm)
  <2>. HIDE DEF L
  <2>. QED BY <1>9, <1>10, <1>13, HeldFewer
<1>. QED BY <1>5, <1>6, <1>12, <1>13, <1>14 DEF Keeps

\* A process that has just started.
LEMMA FreshKeeps ==
    ASSUME NEW nm \in Nat, nm > Sys
    PROVE  Keeps(FreshUi, {}, {}, << >>, Blank, "idle", << >>, NoJournal, nm)
<1>1. /\ FreshUi.phase = "running" /\ FreshUi.sess = NoSession /\ FreshUi.mirror = << >>
      /\ FreshUi.cursor.sess = NoSession /\ FreshUi.inFlight = FALSE
      /\ FreshUi.pending = NoSnapshot /\ FreshUi.handle = FALSE
  BY DEF FreshUi, NoCursor, Cursor
<1>2. Later(<< >>, Blank, FALSE) = {Blank}
  BY DEF Later
<1>3. Recovered(<< >>, NoJournal) = << >> /\ Anchors(NoJournal) = {} /\ Hists({}) = {}
  BY NoFile, HistsOf
<1>4. Ordered(<< >>, NoJournal, {}, << >>, {Blank}, nm)
  <2>1. Good(<< >>, nm) /\ Good(Blank, nm) /\ \A h : Follows(<< >>, h)
    BY EmptyGood, BlankGood, EmptyFollowed
  <2>. QED BY <1>3, <2>1 DEF Ordered, Under
<1>5. TurnOK(FreshUi, << >>, Blank, "idle")
  BY <1>1 DEF TurnOK, Blank
<1>6. BooksOK(FreshUi, {}, {})
  BY <1>1 DEF BooksOK
<1>7. FilesKnown(FreshUi, {}, {}, << >>, NoJournal) /\ Exact(FreshUi, {}, {}, << >>)
  BY <1>1 DEF FilesKnown, Exact
<1>8. Held(FreshUi, {}, {}, << >>, NoJournal, {Blank}, nm)
  BY <1>1, <1>3, <1>4, <1>6, <1>7 DEF Held, Ready
<1>. QED BY <1>1, <1>2, <1>5, <1>8 DEF Keeps

LEMMA RecoveredProper ==
    ASSUME NEW J \in History, J # << >>, J # Blank, NEW r \in JournalType
    PROVE  Proper(Recovered(J, r))
<1>. DEFINE R == Recovered(J, r)
<1>1. R \in History /\ R # << >> /\ (Len(R) = Len(J) <=> R = J)
  BY RecoveredType, RecoveredNotEmpty
<1>2. ASSUME R = Blank PROVE FALSE
  <2>1. Len(R) = 1
    BY <1>2 DEF Blank
  <2>2. r.tail \in History /\ (R = J \/ R = J \o r.tail)
    BY DEF Recovered, JournalType
  <2>3. Len(J) \in Nat /\ Len(J) # 0 /\ Len(r.tail) \in Nat
    BY <2>2, HistoryFacts
  <2>4. Len(J \o r.tail) = Len(J) + Len(r.tail)
    BY <2>2, ConcatProperties DEF History
  <2>. DEFINE n == Len(J)
              k == Len(r.tail)
              b == Len(R)
  <2>5. b = n \/ b = n + k
    BY <2>2, <2>4
  <2>6. b = 1 /\ n \in Nat /\ n # 0 /\ k \in Nat
    BY <2>1, <2>3
  <2>. HIDE DEF n, k, b
  <2>7. b = n
    BY <2>5, <2>6
  <2>8. R = J
    BY <1>1, <2>7 DEF n, b
  <2>. QED BY <1>2, <2>8
<1>. QED BY <1>1, <1>2 DEF Proper

\* A session is opened by a process that has none.
LEMMA ResumeKeeps ==
    ASSUME NEW nm \in Nat, NEW u \in UiType, NEW U, NEW O, NEW ch, NEW J0, NEW r0,
           Alone(u, U, O), Keeps(u, U, O, ch, Blank, "idle", J0, r0, nm),
           NEW s \in Session, NEW J \in History, J # << >>, NEW r \in JournalType,
           FileOK(J, r, nm),
           NEW v, v.phase = u.phase, v.sess = s, v.mirror = Recovered(J, r),
           v.handle = u.handle, v.cursor = u.cursor, v.inFlight = u.inFlight,
           v.pending = u.pending
    PROVE  /\ u.sess = NoSession /\ U = {} /\ O = {}
           /\ Keeps(v, {}, {}, ch, Recovered(J, r), "idle", J, r, nm)
<1>. DEFINE R == Recovered(J, r)
<1>1. u.handle = FALSE /\ u.sess = NoSession
  BY DEF Alone, Keeps, TurnOK, UiType
<1>2. BooksOK(u, U, O)
  BY DEF Keeps, Held, Ready
<1>3. /\ U = {} /\ O = {} /\ ~u.inFlight /\ u.cursor.sess = NoSession
      /\ u.phase = "running" /\ u.pending = NoSnapshot
  BY <1>1, <1>2 DEF BooksOK, Alone
<1>4. Proper(R) /\ Good(R, nm) /\ Under(r, R, nm)
  BY RecoveredProper DEF FileOK
<1>. HIDE DEF R
<1>5. /\ v.phase = "running" /\ v.sess = s /\ v.handle = FALSE
      /\ v.cursor = u.cursor /\ ~v.inFlight /\ v.mirror = R /\ v.pending = NoSnapshot
  BY <1>1, <1>3 DEF R
<1>6. Later(ch, R, FALSE) = {R} /\ Hists({}) = {}
  BY HistsOf DEF Later
<1>7. Ordered(R, r, {}, R, {R}, nm)
  BY <1>4, FollowsItself DEF Ordered
<1>8. BooksOK(v, {}, {})
  BY <1>3, <1>4, <1>5 DEF BooksOK
<1>9. FilesKnown(v, {}, {}, J, r) /\ Exact(v, {}, {}, R)
  BY <1>3, <1>5 DEF FilesKnown, Exact
<1>10. TurnOK(v, ch, R, "idle")
  BY <1>4, <1>5 DEF TurnOK, Proper
<1>11. Held(v, {}, {}, J, r, {R}, nm)
  BY <1>5, <1>6, <1>7, <1>8, <1>9 DEF Held, Ready, R
<1>. QED BY <1>1, <1>3, <1>5, <1>6, <1>10, <1>11 DEF Keeps, R

\* The waiter of the final flush is no part of it.
LEMMA WaitKeeps ==
    ASSUME NEW u \in UiType, NEW v, v.phase = u.phase, v.sess = u.sess, v.mirror = u.mirror,
           v.handle = u.handle, v.cursor = u.cursor, v.inFlight = u.inFlight,
           v.pending = u.pending, v.pendingFull = u.pendingFull,
           NEW U, NEW O, NEW ch, NEW a, NEW tn, NEW J, NEW r, NEW nm,
           Keeps(u, U, O, ch, a, tn, J, r, nm)
    PROVE  Keeps(v, U, O, ch, a, tn, J, r, nm)
<1>1. /\ v.phase = u.phase /\ v.sess = u.sess /\ v.mirror = u.mirror /\ v.handle = u.handle
      /\ v.cursor = u.cursor /\ v.inFlight = u.inFlight /\ v.pending = u.pending
      /\ v.pendingFull = u.pendingFull
  OBVIOUS
<1>2. TurnOK(v, ch, a, tn)
  BY <1>1 DEF Keeps, TurnOK
<1>3. BooksOK(v, U, O)
  BY <1>1 DEF Keeps, Held, Ready, BooksOK
<1>4. \A t \in U : TaskFits(v, t, J, r)
  BY <1>1 DEF Keeps, Held, Ready, TaskFits
<1>5. FilesKnown(v, U, O, J, r)
  BY <1>1 DEF Keeps, Held, Ready, FilesKnown
<1>6. Exact(v, U, O, Recovered(J, r))
  BY <1>1 DEF Keeps, Held, Exact
<1>. QED BY <1>1, <1>2, <1>3, <1>4, <1>5, <1>6 DEF Keeps, Held, Ready

(***************************************************************************)
(* Every process and every session.                                        *)
(***************************************************************************)

\* The files of the session a UI has open; none, before it has an id.
FileOf(u, js) == IF u.sess = NoSession THEN << >> ELSE js[u.sess]
RoundsOf(u, rs) == IF u.sess = NoSession THEN NoJournal ELSE rs[u.sess]

\* A process is down, or its conversation is where it should be.
Stands(u, ts, ch, a, tn, js, rs, nm) ==
    \/ u = DownUi /\ a = Blank /\ tn = "idle"
    \/ Keeps(u, Writers(ts), Reports(ch), ch, a, tn, FileOf(u, js), RoundsOf(u, rs), nm)

OwnsOK == \A p \in Proc : ui[p].sess # NoSession => owner[ui[p].sess] = p

FilesOK == \A s \in Session : FileOK(json[s], rounds[s], nextMsg)

ProcessesOK ==
    \A p \in Proc : Stands(ui[p], tasks[p], chan[p], agent[p], turn[p], json, rounds, nextMsg)

\* The inductive invariant, for an instance without the races and the quitting.
SaveInv ==
    /\ Allowed = {} /\ IInv /\ nextMsg > Sys
    /\ OwnsOK /\ FilesOK /\ ProcessesOK

\* A step of process p leaves the others' sessions alone.
LEMMA ProcessMoves ==
    ASSUME SaveInv, IInv', NEW p \in Proc, NEW u, NEW ts, NEW ch, NEW a, NEW tn,
           ui' = [ui EXCEPT ![p] = u], tasks' = [tasks EXCEPT ![p] = ts],
           chan' = [chan EXCEPT ![p] = ch], agent' = [agent EXCEPT ![p] = a],
           turn' = [turn EXCEPT ![p] = tn], nextMsg <= nextMsg',
           \A s \in Session : owner[s] \in Proc \ {p} =>
               owner'[s] = owner[s] /\ json'[s] = json[s] /\ rounds'[s] = rounds[s],
           \A s \in Session : FileOK(json'[s], rounds'[s], nextMsg'),
           u.sess # NoSession => owner'[u.sess] = p,
           Stands(u, ts, ch, a, tn, json', rounds', nextMsg')
    PROVE  SaveInv'
<1>1. /\ ui \in [Proc -> UiType] /\ tasks \in [Proc -> Seq(TaskType)]
      /\ chan \in [Proc -> Seq(EventType)] /\ agent \in [Proc -> History]
      /\ turn \in [Proc -> {"idle", "running", "unseen", "aborting"}]
      /\ rounds \in [Session -> JournalType]
  BY DEF SaveInv, IInv, PipelinesOK, SharedOK
<1>2. nextMsg \in Nat /\ nextMsg' \in Nat /\ nextMsg' > Sys
  <2>1. nextMsg \in 1..MaxMsg + 1 /\ nextMsg' \in 1..MaxMsg + 1
    BY DEF SaveInv, IInv, SharedOK
  <2>. QED BY <2>1, MessageFacts DEF SaveInv, Sys
<1>3. \A q \in Proc : q # p =>
        /\ ui'[q] = ui[q] /\ tasks'[q] = tasks[q] /\ chan'[q] = chan[q]
        /\ agent'[q] = agent[q] /\ turn'[q] = turn[q]
  BY <1>1
<1>4. /\ ui'[p] = u /\ tasks'[p] = ts /\ chan'[p] = ch /\ agent'[p] = a /\ turn'[p] = tn
  BY <1>1
<1>5. ASSUME NEW q \in Proc, q # p, ui[q].sess # NoSession
      PROVE  LET s == ui[q].sess
             IN  /\ s \in Session /\ owner'[s] = q
                 /\ json'[s] = json[s] /\ rounds'[s] = rounds[s]
  <2>1. ui[q].sess \in Session
    BY <1>1, <1>5 DEF UiType
  <2>2. owner[ui[q].sess] = q
    BY <1>5 DEF SaveInv, OwnsOK
  <2>. QED BY <1>5, <2>1, <2>2
<1>6. OwnsOK'
  BY <1>3, <1>4, <1>5 DEF OwnsOK
<1>7. FilesOK'
  BY DEF FilesOK
<1>8. ASSUME NEW q \in Proc
      PROVE  Stands(ui'[q], tasks'[q], chan'[q], agent'[q], turn'[q], json', rounds', nextMsg')
  <2>1. CASE q = p
    BY <1>4, <2>1
  <2>2. CASE q # p
    <3>1. Stands(ui[q], tasks[q], chan[q], agent[q], turn[q], json, rounds, nextMsg)
      BY DEF SaveInv, ProcessesOK
    <3>. DEFINE J == FileOf(ui[q], json)
                r == RoundsOf(ui[q], rounds)
    <3>2. FileOf(ui[q], json') = J /\ RoundsOf(ui[q], rounds') = r
      BY <1>5, <2>2 DEF FileOf, RoundsOf
    <3>3. r \in JournalType
      BY <1>1, NoneTypes DEF RoundsOf, UiType
    <3>4. CASE ui[q] = DownUi /\ agent[q] = Blank /\ turn[q] = "idle"
      BY <1>3, <2>2, <3>4 DEF Stands
    <3>5. CASE Keeps(ui[q], Writers(tasks[q]), Reports(chan[q]), chan[q], agent[q], turn[q],
                     J, r, nextMsg)
      <4>. HIDE DEF J, r
      <4>1. Keeps(ui[q], Writers(tasks[q]), Reports(chan[q]), chan[q], agent[q], turn[q],
                  J, r, nextMsg')
        BY <1>2, <3>3, <3>5, KeepsLater
      <4>. QED BY <1>3, <2>2, <3>2, <4>1 DEF Stands
    <3>. QED BY <3>1, <3>4, <3>5 DEF Stands
  <2>. QED BY <2>1, <2>2
<1>9. ProcessesOK'
  BY <1>8 DEF ProcessesOK
<1>. QED BY <1>2, <1>6, <1>7, <1>9 DEF SaveInv

\* One that leaves the files and the open-locks as they are.
LEMMA ProcessStays ==
    ASSUME SaveInv, IInv', NEW p \in Proc, NEW u, NEW ts, NEW ch, NEW a, NEW tn,
           ui' = [ui EXCEPT ![p] = u], tasks' = [tasks EXCEPT ![p] = ts],
           chan' = [chan EXCEPT ![p] = ch], agent' = [agent EXCEPT ![p] = a],
           turn' = [turn EXCEPT ![p] = tn], nextMsg <= nextMsg',
           UNCHANGED <<json, rounds, owner>>, u.sess = ui[p].sess,
           Keeps(u, Writers(ts), Reports(ch), ch, a, tn,
                 FileOf(u, json), RoundsOf(u, rounds), nextMsg')
    PROVE  SaveInv'
<1>1. nextMsg \in Nat /\ nextMsg' \in Nat
  <2>1. nextMsg \in 1..MaxMsg + 1 /\ nextMsg' \in 1..MaxMsg + 1
    BY DEF SaveInv, IInv, SharedOK
  <2>. QED BY <2>1, MessageFacts
<1>2. \A s \in Session : rounds[s] \in JournalType /\ FileOK(json[s], rounds[s], nextMsg)
  BY DEF SaveInv, IInv, SharedOK, FilesOK
<1>3. \A s \in Session : FileOK(json[s], rounds[s], nextMsg')
  BY <1>1, <1>2, FileLater
<1>4. u.sess # NoSession => owner[u.sess] = p
  BY DEF SaveInv, OwnsOK
<1>5. json' = json /\ rounds' = rounds /\ owner' = owner
  OBVIOUS
<1>6. Stands(u, ts, ch, a, tn, json', rounds', nextMsg')
  BY <1>5 DEF Stands
<1>. QED BY <1>3, <1>4, <1>5, <1>6, ProcessMoves

\* One that writes the files of its own session.
LEMMA ProcessWrites ==
    ASSUME SaveInv, IInv', NEW p \in Proc, NEW u, NEW ts, NEW ch, NEW a, NEW tn, NEW J, NEW r,
           ui' = [ui EXCEPT ![p] = u], tasks' = [tasks EXCEPT ![p] = ts],
           chan' = [chan EXCEPT ![p] = ch], agent' = [agent EXCEPT ![p] = a],
           turn' = [turn EXCEPT ![p] = tn], UNCHANGED <<nextMsg, owner>>,
           u.sess = ui[p].sess, u.sess \in Session,
           json'[u.sess] = J, rounds'[u.sess] = r,
           \A s \in Session \ {u.sess} : json'[s] = json[s] /\ rounds'[s] = rounds[s],
           FileOK(J, r, nextMsg),
           Keeps(u, Writers(ts), Reports(ch), ch, a, tn, J, r, nextMsg)
    PROVE  SaveInv'
<1>1. /\ json \in [Session -> History] /\ rounds \in [Session -> JournalType] /\ nextMsg \in Nat
  BY DEF SaveInv, IInv, SharedOK
<1>2. u.sess # NoSession /\ owner[u.sess] = p
  BY NamesAssumption DEF SaveInv, OwnsOK
<1>3. /\ json'[u.sess] = J /\ rounds'[u.sess] = r
      /\ \A s \in Session : s # u.sess => json'[s] = json[s] /\ rounds'[s] = rounds[s]
  BY <1>1
<1>4. \A s \in Session : FileOK(json'[s], rounds'[s], nextMsg')
  BY <1>3 DEF SaveInv, FilesOK
<1>5. \A s \in Session : owner[s] \in Proc \ {p} =>
          owner'[s] = owner[s] /\ json'[s] = json[s] /\ rounds'[s] = rounds[s]
  BY <1>2, <1>3
<1>6. FileOf(u, json') = J /\ RoundsOf(u, rounds') = r
  BY <1>2, <1>3 DEF FileOf, RoundsOf
<1>7. Stands(u, ts, ch, a, tn, json', rounds', nextMsg')
  BY <1>6 DEF Stands
<1>8. nextMsg <= nextMsg' /\ (u.sess # NoSession => owner'[u.sess] = p)
  BY <1>1, <1>2
<1>. QED BY <1>4, <1>5, <1>7, <1>8, ProcessMoves

\* What holds of one process.
LEMMA OneStands ==
    ASSUME SaveInv, NEW p \in Proc
    PROVE  /\ ui[p] \in UiType /\ tasks[p] \in Seq(TaskType) /\ chan[p] \in Seq(EventType)
           /\ agent[p] \in History /\ nextMsg \in Nat /\ nextMsg > Sys /\ Allowed = {}
           /\ LocalOK(ui[p], tasks[p], chan[p])
           /\ FileOf(ui[p], json) \in History /\ RoundsOf(ui[p], rounds) \in JournalType
           /\ FileOK(FileOf(ui[p], json), RoundsOf(ui[p], rounds), nextMsg)
           /\ \/ ui[p] = DownUi /\ agent[p] = Blank /\ turn[p] = "idle"
              \/ /\ ui[p].phase = "running"
                 /\ Alone(ui[p], Writers(tasks[p]), Reports(chan[p]))
                 /\ Keeps(ui[p], Writers(tasks[p]), Reports(chan[p]), chan[p], agent[p], turn[p],
                          FileOf(ui[p], json), RoundsOf(ui[p], rounds), nextMsg)
<1>1. /\ ui[p] \in UiType /\ tasks[p] \in Seq(TaskType) /\ chan[p] \in Seq(EventType)
      /\ agent[p] \in History /\ nextMsg \in Nat /\ nextMsg > Sys /\ Allowed = {}
      /\ LocalOK(ui[p], tasks[p], chan[p])
  BY DEF SaveInv, IInv, SharedOK, PipelinesOK
<1>4. /\ FileOf(ui[p], json) \in History /\ RoundsOf(ui[p], rounds) \in JournalType
      /\ FileOK(FileOf(ui[p], json), RoundsOf(ui[p], rounds), nextMsg)
  <2>1. CASE ui[p].sess = NoSession
    BY <2>1, NoFile, NoneTypes, MessageFacts DEF FileOf, RoundsOf
  <2>2. CASE ui[p].sess # NoSession
    <3>1. ui[p].sess \in Session
      BY <1>1, <2>2 DEF UiType
    <3>. QED BY <2>2, <3>1 DEF FileOf, RoundsOf, SaveInv, IInv, SharedOK, FilesOK
  <2>. QED BY <2>1, <2>2
<1>5. Stands(ui[p], tasks[p], chan[p], agent[p], turn[p], json, rounds, nextMsg)
  BY DEF SaveInv, ProcessesOK
<1>6. ASSUME Keeps(ui[p], Writers(tasks[p]), Reports(chan[p]), chan[p], agent[p], turn[p],
                   FileOf(ui[p], json), RoundsOf(ui[p], rounds), nextMsg)
      PROVE  ui[p].phase = "running" /\ Alone(ui[p], Writers(tasks[p]), Reports(chan[p]))
  <2>1. ui[p].phase = "running"
    BY <1>6 DEF Keeps, Held, Ready, BooksOK
  <2>. QED BY <1>1, <2>1, WritersAlone
<1>. QED BY <1>1, <1>4, <1>5, <1>6 DEF Stands

(***************************************************************************)
(* One lemma per party.                                                    *)
(***************************************************************************)

\* What does not change is its own update.
LEMMA Unchanged ==
    ASSUME IInv, NEW p \in Proc
    PROVE  /\ ui = [ui EXCEPT ![p] = ui[p]] /\ tasks = [tasks EXCEPT ![p] = tasks[p]]
           /\ chan = [chan EXCEPT ![p] = chan[p]] /\ agent = [agent EXCEPT ![p] = agent[p]]
           /\ turn = [turn EXCEPT ![p] = turn[p]]
BY DEF IInv, SharedOK, PipelinesOK

\* The agent's history grows, is noted in or compacted.
LEMMA AgentGrows ==
    ASSUME SaveInv, NEW p \in Proc, AgentRuns(p),
           NEW a2 \in History, Changed(agent[p], a2, nextMsg), Len(a2) > 1,
           NEW e \in EventType, Posted(e), e.hist = a2,
           NEW ch2, ch2 = chan[p] \/ ch2 = Append(chan[p], e)
    PROVE  /\ Keeps(ui[p], Writers(tasks[p]), Reports(ch2), ch2, a2, "running",
                    FileOf(ui[p], json), RoundsOf(ui[p], rounds), nextMsg + 1)
           /\ turn[p] = "running"
<1>. DEFINE u == ui[p]
            U == Writers(tasks[p])
            O == Reports(chan[p])
            J == FileOf(ui[p], json)
            r == RoundsOf(ui[p], rounds)
<1>1. /\ u \in UiType /\ chan[p] \in Seq(EventType) /\ agent[p] \in History
      /\ nextMsg \in Nat /\ r \in JournalType /\ FileOK(J, r, nextMsg)
      /\ u = DownUi \/ Keeps(u, U, O, chan[p], agent[p], turn[p], J, r, nextMsg)
  BY OneStands
<1>2. Keeps(u, U, O, chan[p], agent[p], "running", J, r, nextMsg) /\ turn[p] = "running"
  <2>1. u # DownUi
    BY DEF AgentRuns, DownUi, FreshUi
  <2>2. Keeps(u, U, O, chan[p], agent[p], turn[p], J, r, nextMsg)
    BY <1>1, <2>1
  <2>3. turn[p] = "running"
    BY <2>2 DEF Keeps, TurnOK, AgentRuns
  <2>. QED BY <2>2, <2>3
<1>. HIDE DEF J, r, U, O, u
<1>3. /\ Keeps(u, U, O, ch2, a2, "running", J, r, nextMsg + 1)
      /\ Reports(ch2) = Reports(chan[p])
  BY <1>1, <1>2, GrowsKeeps
<1>. QED BY <1>2, <1>3 DEF J, r, U, O, u

LEMMA AgentTaskKeeps ==
    ASSUME SaveInv, IInv', NEW p \in Proc, AgentTask(p)
    PROVE  SaveInv'
<1>. DEFINE nm == nextMsg
            u == ui[p]
            U == Writers(tasks[p])
            O == Reports(chan[p])
            J == FileOf(ui[p], json)
            r == RoundsOf(ui[p], rounds)
<1>0. IInv
  BY DEF SaveInv
<1>1. /\ u \in UiType /\ chan[p] \in Seq(EventType) /\ agent[p] \in History
      /\ nm \in Nat /\ nm > Sys /\ r \in JournalType /\ FileOK(J, r, nm)
      /\ \/ u = DownUi /\ turn[p] = "idle"
         \/ Keeps(u, U, O, chan[p], agent[p], turn[p], J, r, nm)
  BY OneStands
<1>2. ASSUME AgentRuns(p)
      PROVE  /\ Keeps(u, U, O, chan[p], agent[p], "running", J, r, nm)
             /\ agent[p] # << >> /\ Good(agent[p], nm)
  <2>1. u # DownUi
    BY <1>2 DEF AgentRuns, DownUi, FreshUi
  <2>2. Keeps(u, U, O, chan[p], agent[p], turn[p], J, r, nm)
    BY <1>1, <2>1
  <2>3. turn[p] = "running" /\ agent[p] # << >>
    BY <1>2, <2>2 DEF Keeps, TurnOK, AgentRuns
  <2>4. agent[p] \in Later(chan[p], agent[p], u.handle)
    BY DEF Later
  <2>5. Good(agent[p], nm)
    BY <2>2, <2>4 DEF Keeps, Held, Ready, Ordered
  <2>. QED BY <2>2, <2>3, <2>5
<1>3. ASSUME TakesMessage PROVE nm \in Message
  BY <1>0, <1>3, NextMessage
<1>4. agent \in [Proc -> History]
  BY <1>0 DEF IInv, SharedOK
<1>5. CASE AgentRound(p)
  <2>. DEFINE a2 == Append(agent[p], nextMsg)
              e == Event("history", a2, TRUE)
              ch2 == Append(chan[p], e)
  <2>1. AgentRuns(p) /\ TakesMessage
    BY <1>5 DEF AgentRound
  <2>2. a2 \in History /\ Len(a2) > 1 /\ Changed(agent[p], a2, nextMsg)
    BY <1>1, <1>2, <1>3, <2>1, ProperAppend, AppendChanges
  <2>3. agent' = [agent EXCEPT ![p] = a2] /\ agent'[p] = a2
    BY <1>4, <1>5 DEF AgentRound
  <2>4. chan' = [chan EXCEPT ![p] = ch2]
    BY <1>5, <2>3 DEF AgentRound
  <2>5. UNCHANGED <<json, rounds, owner, ui, turn, tasks>>
    BY <1>5 DEF AgentRound, files
  <2>6. /\ e \in EventType /\ Posted(e) /\ e.hist = a2
        /\ ch2 = chan[p] \/ ch2 = Append(chan[p], e)
    BY <2>2 DEF Event, EventType, Posted
  <2>. HIDE DEF a2, e, ch2
  <2>7. /\ Keeps(ui[p], Writers(tasks[p]), Reports(ch2), ch2, a2, "running",
                   FileOf(ui[p], json), RoundsOf(ui[p], rounds), nextMsg + 1)
         /\ turn[p] = "running"
    BY <2>1, <2>2, <2>3, <2>4, <2>5, <2>6, AgentGrows
  <2>8. Keeps(ui[p], Writers(tasks[p]), Reports(ch2), ch2, a2, "running",
                FileOf(ui[p], json), RoundsOf(ui[p], rounds), nextMsg')
    BY <2>1, <2>7 DEF TakesMessage
  <2>9. /\ ui' = [ui EXCEPT ![p] = ui[p]] /\ tasks' = [tasks EXCEPT ![p] = tasks[p]]
         /\ turn' = [turn EXCEPT ![p] = "running"]
    BY <1>0, <2>7, <2>5, Unchanged
  <2>10. UNCHANGED <<json, rounds, owner>> /\ nextMsg <= nextMsg'
    BY <1>1, <2>1, <2>5 DEF TakesMessage
  <2>. QED BY <2>3, <2>4, <2>8, <2>9, <2>10, ProcessStays
<1>6. CASE AgentNote(p)
  <2>. DEFINE a2 == [agent[p] EXCEPT ![Len(agent[p])] = nextMsg]
              e == Event("history", a2, TRUE)
              ch2 == chan[p]
  <2>1. AgentRuns(p) /\ TakesMessage /\ Len(agent[p]) > 1
    BY <1>6 DEF AgentNote
  <2>2. Changed(agent[p], a2, nextMsg)
    BY <1>1, <1>2, <1>3, <2>1, NoteChanges
  <2>3. a2 \in History
    BY <2>2 DEF Changed, Good
  <2>4. Len(a2) > 1
    <3>1. DOMAIN a2 = DOMAIN agent[p]
      OBVIOUS
    <3>2. /\ Len(a2) \in Nat /\ Len(agent[p]) \in Nat
          /\ DOMAIN a2 = 1..Len(a2) /\ DOMAIN agent[p] = 1..Len(agent[p])
      BY <1>1, <2>3, HistoryFacts
    <3>. DEFINE k == Len(a2)
                n == Len(agent[p])
    <3>. HIDE DEF a2
    <3>3. k \in Nat /\ n \in Nat /\ 1..k = 1..n /\ n > 1
      BY <2>1, <3>1, <3>2
    <3>. HIDE DEF k, n
    <3>4. n \in 1..k
      BY <3>3
    <3>5. k > 1
      BY <3>3, <3>4
    <3>. QED BY <3>5 DEF k
  <2>5. agent' = [agent EXCEPT ![p] = a2]
    BY <1>6 DEF AgentNote
  <2>6. chan' = [chan EXCEPT ![p] = ch2]
    BY <1>0, <1>6, Unchanged DEF AgentNote
  <2>7. UNCHANGED <<json, rounds, owner, ui, turn, tasks>>
    BY <1>6 DEF AgentNote, files
  <2>8. /\ e \in EventType /\ Posted(e) /\ e.hist = a2
        /\ ch2 = chan[p] \/ ch2 = Append(chan[p], e)
    BY <2>3 DEF Event, EventType, Posted
  <2>. HIDE DEF a2, e, ch2
  <2>9. /\ Keeps(ui[p], Writers(tasks[p]), Reports(ch2), ch2, a2, "running",
                   FileOf(ui[p], json), RoundsOf(ui[p], rounds), nextMsg + 1)
         /\ turn[p] = "running"
    BY <2>1, <2>2, <2>3, <2>4, <2>5, <2>6, <2>7, <2>8, AgentGrows
  <2>10. Keeps(ui[p], Writers(tasks[p]), Reports(ch2), ch2, a2, "running",
                FileOf(ui[p], json), RoundsOf(ui[p], rounds), nextMsg')
    BY <2>1, <2>9 DEF TakesMessage
  <2>11. /\ ui' = [ui EXCEPT ![p] = ui[p]] /\ tasks' = [tasks EXCEPT ![p] = tasks[p]]
         /\ turn' = [turn EXCEPT ![p] = "running"]
    BY <1>0, <2>9, <2>7, Unchanged
  <2>12. UNCHANGED <<json, rounds, owner>> /\ nextMsg <= nextMsg'
    BY <1>1, <2>1, <2>7 DEF TakesMessage
  <2>. QED BY <2>5, <2>6, <2>10, <2>11, <2>12, ProcessStays
<1>7. CASE AgentCompact(p)
  <2>1. AgentRuns(p) /\ TakesMessage /\ Len(agent[p]) > 2
    BY <1>7 DEF AgentCompact
  <2>2. PICK n \in CompactHeads :
            /\ n + 1 <= Len(agent[p])
            /\ agent' = [agent EXCEPT ![p] = <<Sys, nextMsg>> \o From(@, n + 1)]
    BY <1>7 DEF AgentCompact
  <2>. DEFINE a2 == <<Sys, nextMsg>> \o From(agent[p], n + 1)
              e == Event("history", a2, TRUE)
              ch2 == chan[p]
  <2>3. Changed(agent[p], a2, nextMsg)
    BY <1>1, <1>2, <1>3, <2>1, <2>2, CompactChanges
  <2>4. a2 \in History
    BY <2>3 DEF Changed, Good
  <2>5. Len(a2) > 1
    <3>1. From(agent[p], n + 1) \in History
      BY <1>1, FromType, BoundsAssumption
    <3>2. <<Sys, nextMsg>> \in Seq(Message) /\ Len(<<Sys, nextMsg>>) = 2
      BY <1>3, <2>1, MessageFacts
    <3>3. Len(a2) = 2 + Len(From(agent[p], n + 1)) /\ Len(From(agent[p], n + 1)) \in Nat
      BY <3>1, <3>2, ConcatProperties, HistoryFacts DEF History
    <3>. DEFINE k == Len(a2)
                l == Len(From(agent[p], n + 1))
    <3>4. k = 2 + l /\ l \in Nat
      BY <3>3
    <3>. HIDE DEF k, l
    <3>5. k > 1
      BY <3>4
    <3>. QED BY <3>5 DEF k
  <2>6. agent' = [agent EXCEPT ![p] = a2]
    BY <2>2
  <2>7. chan' = [chan EXCEPT ![p] = ch2]
    BY <1>0, <1>7, Unchanged DEF AgentCompact
  <2>8. UNCHANGED <<json, rounds, owner, ui, turn, tasks>>
    BY <1>7 DEF AgentCompact, files
  <2>9. /\ e \in EventType /\ Posted(e) /\ e.hist = a2
        /\ ch2 = chan[p] \/ ch2 = Append(chan[p], e)
    BY <2>4 DEF Event, EventType, Posted
  <2>. HIDE DEF a2, e, ch2
  <2>10. /\ Keeps(ui[p], Writers(tasks[p]), Reports(ch2), ch2, a2, "running",
                   FileOf(ui[p], json), RoundsOf(ui[p], rounds), nextMsg + 1)
         /\ turn[p] = "running"
    BY <2>1, <2>2, <2>3, <2>4, <2>5, <2>6, <2>7, <2>8, <2>9, AgentGrows
  <2>11. Keeps(ui[p], Writers(tasks[p]), Reports(ch2), ch2, a2, "running",
                FileOf(ui[p], json), RoundsOf(ui[p], rounds), nextMsg')
    BY <2>1, <2>10 DEF TakesMessage
  <2>12. /\ ui' = [ui EXCEPT ![p] = ui[p]] /\ tasks' = [tasks EXCEPT ![p] = tasks[p]]
         /\ turn' = [turn EXCEPT ![p] = "running"]
    BY <1>0, <2>10, <2>8, Unchanged
  <2>13. UNCHANGED <<json, rounds, owner>> /\ nextMsg <= nextMsg'
    BY <1>1, <2>1, <2>8 DEF TakesMessage
  <2>. QED BY <2>6, <2>7, <2>11, <2>12, <2>13, ProcessStays
<1>8. CASE TurnEnds(p)
  <2>. DEFINE e == Event("done", << >>, TRUE)
              ch2 == Append(chan[p], e)
  <2>1. /\ AgentRuns(p)
        /\ chan' = [chan EXCEPT ![p] = ch2] /\ turn' = [turn EXCEPT ![p] = "idle"]
        /\ UNCHANGED <<json, rounds, owner, ui, tasks>>
        /\ \/ TakesMessage /\ agent' = [agent EXCEPT ![p] = Append(@, nextMsg)]
           \/ UNCHANGED <<nextMsg, agent>>
    BY <1>8 DEF TurnEnds, files
  <2>2. \E a2 : /\ agent' = [agent EXCEPT ![p] = a2] /\ nextMsg' \in Nat /\ nm <= nextMsg'
                /\ Keeps(u, U, O, chan[p], a2, "running", J, r, nextMsg')
    <3>1. CASE TakesMessage /\ agent' = [agent EXCEPT ![p] = Append(@, nextMsg)]
      <4>. DEFINE a2 == Append(agent[p], nm)
      <4>1. a2 \in History /\ Len(a2) > 1 /\ Changed(agent[p], a2, nm)
        BY <1>1, <1>2, <1>3, <2>1, <3>1, ProperAppend, AppendChanges
      <4>2. agent' = [agent EXCEPT ![p] = a2] /\ nextMsg' = nm + 1
        BY <3>1 DEF TakesMessage
      <4>3. Keeps(u, U, O, chan[p], agent[p], "running", J, r, nm)
        BY <1>2, <2>1
      <4>. DEFINE f == Event("history", a2, TRUE)
      <4>6. f \in EventType /\ Posted(f) /\ f.hist = a2
        BY <4>1 DEF Event, EventType, Posted
      <4>. HIDE DEF a2, J, r, U, O, u, f
      <4>4. Keeps(u, U, O, chan[p], a2, "running", J, r, nm + 1)
        BY <1>1, <4>1, <4>3, <4>6, GrowsKeeps
      <4>5. nm + 1 \in Nat /\ nm <= nm + 1
        BY <1>1
      <4>. QED BY <4>2, <4>4, <4>5
    <3>2. CASE UNCHANGED <<nextMsg, agent>>
      <4>1. agent' = [agent EXCEPT ![p] = agent[p]]
        BY <1>0, <3>2, Unchanged
      <4>2. nextMsg' \in Nat /\ nm <= nextMsg' /\ nextMsg' = nm
        BY <1>1, <3>2
      <4>3. Keeps(u, U, O, chan[p], agent[p], "running", J, r, nm)
        BY <1>2, <2>1
      <4>. HIDE DEF J, r, U, O, u
      <4>. QED BY <4>1, <4>2, <4>3
    <3>. QED BY <2>1, <3>1, <3>2
  <2>3. PICK a2 : /\ agent' = [agent EXCEPT ![p] = a2] /\ nextMsg' \in Nat /\ nm <= nextMsg'
                  /\ Keeps(u, U, O, chan[p], a2, "running", J, r, nextMsg')
    BY <2>2
  <2>4. /\ Keeps(u, U, O, ch2, a2, "idle", J, r, nextMsg')
        /\ Reports(ch2) = Reports(chan[p])
    <3>. DEFINE n == nextMsg'
                ch == chan[p]
    <3>1. e \in EventType /\ e.kind = "done" /\ ch2 = Append(ch, e)
      BY MessageFacts DEF Event, EventType
    <3>2. Keeps(u, U, O, ch, a2, "running", J, r, n) /\ n \in Nat
      BY <2>3
    <3>3. u \in UiType /\ ch \in Seq(EventType)
      BY <1>1
    <3>. HIDE DEF J, r, U, O, u, e, ch2, n, ch
    <3>4. Keeps(u, U, O, ch2, a2, "idle", J, r, n)
      BY <3>1, <3>2, <3>3, EndKeeps
    <3>5. Reports(ch2) = Reports(ch)
      BY <3>1, <3>3, EventsAfter DEF Saved
    <3>. QED BY <3>4, <3>5 DEF n, ch
  <2>5. Keeps(ui[p], Writers(tasks[p]), Reports(ch2), ch2, a2, "idle",
              FileOf(ui[p], json), RoundsOf(ui[p], rounds), nextMsg')
    BY <2>4
  <2>6. /\ ui' = [ui EXCEPT ![p] = ui[p]] /\ tasks' = [tasks EXCEPT ![p] = tasks[p]]
    BY <1>0, <2>1, Unchanged
  <2>7. UNCHANGED <<json, rounds, owner>> /\ nextMsg <= nextMsg'
    BY <2>1, <2>3
  <2>. HIDE DEF e, ch2, J, r, U, O, u
  <2>. QED BY <2>1, <2>3, <2>5, <2>6, <2>7, ProcessStays
<1>9. CASE AbortLands(p)
  <2>1. turn[p] = "aborting"
    BY <1>9 DEF AbortLands
  <2>. QED BY <1>1, <2>1 DEF Keeps, TurnOK
<1>. QED BY <1>5, <1>6, <1>7, <1>8, <1>9 DEF AgentTask

\* The UI's mirror is enqueued, given that it is where it should be.
LEMMA EnqueueStands ==
    ASSUME NEW nm \in Nat, NEW v, NEW ts, NEW ch, LocalOK(v, ts, ch), v.phase = "running",
           NEW a, NEW tn, NEW J \in History, NEW r \in JournalType, FileOK(J, r, nm),
           Ready(v, Writers(ts), Reports(ch), J, r, Later(ch, a, v.handle), nm),
           TurnOK(v, ch, a, tn), v.sess # NoSession, NEW full \in BOOLEAN,
           full \/ Unbroken \/ v.handle, NEW o, o = EnqueueSave(v, full)
    PROVE  /\ Keeps(o.ui, Writers(ts \o o.spawned), Reports(ch), ch, a, tn, J, r, nm)
           /\ o.ui.sess = v.sess
<1>. DEFINE U == Writers(ts)
            O == Reports(ch)
            L == Later(ch, a, v.handle)
<1>1. /\ v \in UiType /\ UiOK(v) /\ ts \in Seq(TaskType)
      /\ \A i \in DOMAIN ts : ts[i].snap.sess = ts[i].sess
  BY DEF LocalOK, UiOK
<1>2. v.sess \in Session
  BY <1>1 DEF UiType
<1>3. o.spawned = << >> \/ \E t : NewTask(t) /\ o.spawned = <<t>>
  <2>1. Fits(o, v)
    BY <1>1, <1>2, EnqueueSaveFits
  <2>. QED BY <2>1 DEF Fits
<1>4. Writers(ts \o o.spawned) = U \cup Spawns(o)
  BY <1>1, <1>3, WritersSpawned
<1>5. Alone(v, U, O)
  BY WritersAlone
<1>. HIDE DEF U, O, L
<1>6. Ready(v, U, O, J, r, L, nm)
  BY DEF U, O, L
<1>7. Held(o.ui, U \cup Spawns(o), O, J, r, L, nm) /\ SameView(o.ui, v)
  BY <1>1, <1>5, <1>6, EnqueueKeeps
<1>8. TurnOK(o.ui, ch, a, tn)
  BY <1>7, ViewTurn
<1>9. o.ui.handle = v.handle /\ o.ui.sess = v.sess
  BY <1>7 DEF SameView
<1>. QED BY <1>4, <1>7, <1>8, <1>9 DEF Keeps, O, L

\* Persist, given that the UI state it is handed is where it should be.
LEMMA PersistKeeps ==
    ASSUME SaveInv, IInv', NEW p \in Proc, NEW v, NEW ch, NEW tn, NEW full \in BOOLEAN,
           LocalOK(v, tasks[p], ch), v.phase = "running", v.sess = ui[p].sess,
           Ready(v, Writers(tasks[p]), Reports(ch), FileOf(v, json), RoundsOf(v, rounds),
                 Later(ch, agent[p], v.handle), nextMsg),
           TurnOK(v, ch, agent[p], tn), full \/ Unbroken \/ v.handle,
           Persist(p, v, full),
           chan' = [chan EXCEPT ![p] = ch], turn' = [turn EXCEPT ![p] = tn],
           agent' = [agent EXCEPT ![p] = agent[p]], nextMsg' = nextMsg
    PROVE  SaveInv'
<1>. DEFINE J == FileOf(v, json)
            r == RoundsOf(v, rounds)
<1>1. /\ nextMsg \in Nat /\ J \in History /\ r \in JournalType /\ FileOK(J, r, nextMsg)
      /\ nextMsg <= nextMsg'
  <2>1. J = FileOf(ui[p], json) /\ r = RoundsOf(ui[p], rounds)
    BY DEF FileOf, RoundsOf
  <2>. QED BY <2>1, OneStands
<1>2. Alone(v, Writers(tasks[p]), Reports(ch)) /\ v \in UiType /\ tasks[p] \in Seq(TaskType)
  BY WritersAlone DEF LocalOK, UiOK
<1>3. CASE v.sess # NoSession
  <2>. DEFINE o == EnqueueSave(v, full)
              ts == tasks[p] \o o.spawned
  <2>1. Commits(p, o) /\ UNCHANGED <<files, owner>>
    BY <1>3 DEF Persist
  <2>2. ui' = [ui EXCEPT ![p] = o.ui] /\ tasks' = [tasks EXCEPT ![p] = ts]
    BY <2>1 DEF Commits
  <2>3. Keeps(o.ui, Writers(ts), Reports(ch), ch, agent[p], tn, J, r, nextMsg)
        /\ o.ui.sess = v.sess
    <3>. HIDE DEF J, r
    <3>1. Ready(v, Writers(tasks[p]), Reports(ch), J, r, Later(ch, agent[p], v.handle), nextMsg)
      BY DEF J, r
    <3>. QED BY <1>1, <1>3, <3>1, EnqueueStands
  <2>4. FileOf(o.ui, json) = J /\ RoundsOf(o.ui, rounds) = r
    BY <2>3 DEF FileOf, RoundsOf
  <2>. DEFINE w == o.ui
  <2>5. Keeps(w, Writers(ts), Reports(ch), ch, agent[p], tn,
              FileOf(w, json), RoundsOf(w, rounds), nextMsg')
    BY <2>3, <2>4
  <2>6. w.sess = ui[p].sess
    BY <2>3
  <2>7. UNCHANGED <<json, rounds, owner>>
    BY <2>1 DEF files
  <2>8. ui' = [ui EXCEPT ![p] = w] /\ tasks' = [tasks EXCEPT ![p] = ts]
    BY <2>2
  <2>. HIDE DEF w, ts, o, J, r
  <2>. QED BY <1>1, <2>5, <2>6, <2>7, <2>8, ProcessStays
<1>4. ASSUME v.sess = NoSession, NEW s \in Session, FirstSave(p, v, s), Len(v.mirror) > 1
      PROVE  SaveInv'
  <2>. DEFINE m == v.mirror
              w == [v EXCEPT !.sess = s, !.cursor = AfterFullSave(s, m)]
  <2>1. J = << >> /\ r = NoJournal
    BY <1>4 DEF FileOf, RoundsOf
  <2>2. /\ Unminted(s) /\ owner' = [owner EXCEPT ![s] = p]
        /\ json' = [json EXCEPT ![s] = m] /\ rounds' = [rounds EXCEPT ![s] = NoJournal]
        /\ Commits(p, Outcome(w, << >>))
    BY <1>4 DEF FirstSave
  <2>3. ui' = [ui EXCEPT ![p] = w] /\ tasks' = [tasks EXCEPT ![p] = tasks[p]]
    BY <1>2, <2>2, ConcatEmptySeq DEF Commits, Outcome
  <2>4. Proper(m)
    <3>. DEFINE n == Len(m)
    <3>1. n \in Nat /\ n > 1
      BY <1>2, <1>4, HistoryFacts DEF UiType
    <3>. HIDE DEF n
    <3>2. n # 0 /\ n # 1
      BY <3>1
    <3>3. Len(<< >>) = 0 /\ Len(Blank) = 1
      BY DEF Blank
    <3>. QED BY <3>2, <3>3 DEF Proper, n
  <2>5. Writers(tasks[p]) = {} /\ Reports(ch) = {}
    BY <1>2, <1>4 DEF Ready, BooksOK, Alone
  <2>. DEFINE L == Later(ch, agent[p], v.handle)
  <2>6. Held(w, {}, {}, m, NoJournal, L, nextMsg) /\ FileOK(m, NoJournal, nextMsg)
    <3>1. Ready(v, {}, {}, << >>, NoJournal, L, nextMsg) /\ Alone(v, {}, {})
      BY <1>2, <2>1, <2>5
    <3>. HIDE DEF L, J, r
    <3>2. w = [v EXCEPT !.sess = s, !.cursor = AfterFullSave(s, v.mirror)]
      OBVIOUS
    <3>3. Proper(v.mirror)
      BY <2>4
    <3>. HIDE DEF w
    <3>4. /\ Held(w, {}, {}, v.mirror, NoJournal, L, nextMsg)
          /\ FileOK(v.mirror, NoJournal, nextMsg)
      BY <1>1, <1>2, <1>4, <3>1, <3>2, <3>3, FirstSaveKeeps
    <3>. QED BY <3>4
  <2>7. /\ w.phase = v.phase /\ w.sess = s /\ w.mirror = v.mirror /\ w.handle = v.handle
    BY <1>2 DEF UiType
  <2>8. TurnOK(w, ch, agent[p], tn)
    <3>1. agent[p] # Blank
      <4>1. agent[p] \in Later(ch, agent[p], v.handle) /\ (v.handle => v.handle = TRUE)
        BY <1>2 DEF Later, UiType
      <4>2. CASE v.handle
        BY <1>2, <4>1, <4>2 DEF TurnOK, Proper, UiType
      <4>3. CASE ~v.handle
        BY <2>4, <4>3 DEF TurnOK, Proper
      <4>. QED BY <4>2, <4>3
    <3>. QED BY <2>7, <3>1 DEF TurnOK
  <2>9. s # NoSession
    BY NamesAssumption
  <2>10. /\ json'[s] = m /\ rounds'[s] = NoJournal /\ owner'[s] = p /\ owner[s] = NoProc
         /\ \A z \in Session : z # s =>
                json'[z] = json[z] /\ rounds'[z] = rounds[z] /\ owner'[z] = owner[z]
    BY <2>2 DEF Unminted, SaveInv, IInv, SharedOK
  <2>11. \A z \in Session : FileOK(json'[z], rounds'[z], nextMsg')
    <3>. HIDE DEF m, w, J, r, L
    <3>. QED BY <2>6, <2>10 DEF SaveInv, FilesOK
  <2>12. \A z \in Session : owner[z] \in Proc \ {p} =>
             owner'[z] = owner[z] /\ json'[z] = json[z] /\ rounds'[z] = rounds[z]
    BY <2>10, NamesAssumption
  <2>13. w.sess # NoSession => owner'[w.sess] = p
    BY <2>7, <2>10
  <2>14. Stands(w, tasks[p], ch, agent[p], tn, json', rounds', nextMsg')
    <3>1. FileOf(w, json') = m /\ RoundsOf(w, rounds') = NoJournal
      BY <2>7, <2>9, <2>10 DEF FileOf, RoundsOf
    <3>2. Keeps(w, Writers(tasks[p]), Reports(ch), ch, agent[p], tn, m, NoJournal, nextMsg)
      BY <2>5, <2>6, <2>7, <2>8 DEF Keeps
    <3>. QED BY <3>1, <3>2 DEF Stands
  <2>. DEFINE ts == tasks[p]
              a == agent[p]
  <2>15. /\ ui' = [ui EXCEPT ![p] = w] /\ tasks' = [tasks EXCEPT ![p] = ts]
         /\ agent' = [agent EXCEPT ![p] = a]
         /\ Stands(w, ts, ch, a, tn, json', rounds', nextMsg')
    BY <2>3, <2>14
  <2>. HIDE DEF w, m, ts, a, L, J, r
  <2>. QED BY <1>1, <2>11, <2>12, <2>13, <2>15, ProcessMoves
<1>5. ASSUME v.sess = NoSession, Commits(p, Outcome(v, << >>)), UNCHANGED <<files, owner>>
      PROVE  SaveInv'
  <2>1. ui' = [ui EXCEPT ![p] = v] /\ tasks' = [tasks EXCEPT ![p] = tasks[p]]
    BY <1>2, <1>5, ConcatEmptySeq DEF Commits, Outcome
  <2>2. Held(v, Writers(tasks[p]), Reports(ch), J, r, Later(ch, agent[p], v.handle), nextMsg)
    <3>1. Ready(v, Writers(tasks[p]), Reports(ch), J, r, Later(ch, agent[p], v.handle), nextMsg)
      OBVIOUS
    <3>. HIDE DEF J, r
    <3>. QED BY <1>1, <1>2, <1>5, <3>1, NoSessionKeeps
  <2>3. Keeps(v, Writers(tasks[p]), Reports(ch), ch, agent[p], tn, J, r, nextMsg')
    BY <2>2 DEF Keeps
  <2>4. UNCHANGED <<json, rounds, owner>>
    BY <1>5 DEF files
  <2>. QED BY <1>1, <2>1, <2>3, <2>4, ProcessStays
<1>6. v.sess = NoSession =>
        \/ \E s \in Session : FirstSave(p, v, s) /\ Len(v.mirror) > 1
        \/ Commits(p, Outcome(v, << >>)) /\ UNCHANGED <<files, owner>>
  BY DEF Persist
<1>. QED BY <1>3, <1>4, <1>5, <1>6

LEMMA HandleMessageKeeps ==
    ASSUME SaveInv, IInv', NEW p \in Proc, HandleMessage(p)
    PROVE  SaveInv'
<1>. DEFINE nm == nextMsg
            u == ui[p]
            ch == chan[p]
            rest == Tail(chan[p])
            a == agent[p]
            U == Writers(tasks[p])
            O == Reports(chan[p])
            J == FileOf(ui[p], json)
            r == RoundsOf(ui[p], rounds)
            e == Head(ch)
<1>0. IInv
  BY DEF SaveInv
<1>1. /\ u \in UiType /\ ch \in Seq(EventType) /\ a \in History /\ tasks[p] \in Seq(TaskType)
      /\ nm \in Nat /\ r \in JournalType /\ J \in History /\ FileOK(J, r, nm)
      /\ LocalOK(u, tasks[p], ch)
  BY OneStands
<1>2. /\ u.phase = "running" /\ ch # << >>
      /\ chan' = [chan EXCEPT ![p] = rest]
      /\ UNCHANGED <<agent, nextMsg>>
      /\ \/ e.kind = "history" /\ HandleHistory(p, e) /\ UNCHANGED turn
         \/ e.kind = "done" /\ HandleDone(p)
         \/ e.kind = "saved" /\ HandleSaved(p, e) /\ UNCHANGED turn
  BY DEF HandleMessage, budget
<1>3. Keeps(u, U, O, ch, a, turn[p], J, r, nm) /\ Alone(u, U, O)
  <2>1. u # DownUi
    BY <1>2 DEF DownUi, FreshUi
  <2>. QED BY <2>1, OneStands
<1>4. LocalOK(u, tasks[p], rest)
  BY <1>1, <1>2, LocalRead
<1>5. turn[p] \in {"idle", "running"} /\ (turn[p] = "running" => u.handle /\ ~Done(ch))
  BY <1>3 DEF Keeps, TurnOK
<1>6. TurnLive(p) <=> u.handle
  BY <1>5 DEF TurnLive
<1>7. agent' = [agent EXCEPT ![p] = agent[p]] /\ nextMsg' = nextMsg /\ nextMsg <= nextMsg'
  BY <1>0, <1>1, <1>2, Unchanged
<1>8. ASSUME ~u.handle, ~Saved(e), Commits(p, Outcome(ui[p], << >>)), UNCHANGED <<files, owner>>,
             UNCHANGED turn
      PROVE  SaveInv'
  <2>1. Reports(rest) = O /\ Keeps(u, U, O, rest, a, turn[p], J, r, nm)
    <3>1. ~Saved(Head(ch)) /\ rest = Tail(ch)
      BY <1>8
    <3>2. Keeps(u, U, Reports(ch), ch, a, turn[p], J, r, nm)
      BY <1>3
    <3>. HIDE DEF U, J, r, nm, e, u, ch, a
    <3>3. /\ Reports(Tail(ch)) = Reports(ch)
          /\ Keeps(u, U, Reports(ch), Tail(ch), a, turn[p], J, r, nm)
      BY <1>1, <1>2, <1>8, <3>1, <3>2, DropKeeps DEF u, ch
    <3>. QED BY <3>3 DEF ch
  <2>2. ui' = [ui EXCEPT ![p] = ui[p]] /\ tasks' = [tasks EXCEPT ![p] = tasks[p]]
    BY <1>1, <1>8, ConcatEmptySeq DEF Commits, Outcome
  <2>3. turn' = [turn EXCEPT ![p] = turn[p]]
    BY <1>0, <1>8, Unchanged
  <2>4. UNCHANGED <<json, rounds, owner>>
    BY <1>8 DEF files
  <2>5. Keeps(ui[p], Writers(tasks[p]), Reports(rest), rest, agent[p], turn[p],
              FileOf(ui[p], json), RoundsOf(ui[p], rounds), nextMsg')
    BY <1>7, <2>1
  <2>. HIDE DEF rest
  <2>. QED BY <1>2, <1>7, <2>2, <2>3, <2>4, <2>5, ProcessStays
<1>9. CASE e.kind = "history" /\ HandleHistory(p, e) /\ UNCHANGED turn
  <2>1. Posted(e) /\ ~Saved(e)
    BY <1>9 DEF Posted, Saved
  <2>2. CASE ~u.handle
    BY <1>6, <1>8, <1>9, <2>1, <2>2 DEF HandleHistory
  <2>3. CASE u.handle
    <3>. DEFINE v == [ui[p] EXCEPT !.mirror = Adopted(ui[p].mirror, e.hist)]
    <3>1. Persist(p, v, FALSE)
      BY <1>6, <1>9, <2>3 DEF HandleHistory
    <3>3. /\ v \in UiType /\ v.pending = u.pending /\ v.phase = u.phase
          /\ v.inFlight = u.inFlight /\ v.sess = u.sess /\ v.cursor = u.cursor
          /\ v.handle = TRUE /\ v.mirror = Adopted(u.mirror, Head(ch).hist)
      <4>1. e \in EventType
        BY <1>1, <1>2, TailOfChannel
      <4>2. Adopted(u.mirror, e.hist) \in History
        BY <1>1, <4>1, AdoptedType DEF UiType, EventType
      <4>. QED BY <1>1, <2>3, <4>2 DEF UiType
    <3>2. /\ Ready(v, U, O, J, r, Later(rest, a, v.handle), nm)
          /\ TurnOK(v, rest, a, turn[p])
      <4>1. Posted(Head(ch)) /\ rest = Tail(ch)
        BY <2>1
      <4>. HIDE DEF U, O, J, r, nm, rest, e, v, u, ch, a
      <4>. QED BY <1>1, <1>2, <1>3, <2>3, <3>3, <4>1, AdoptReady
    <3>8. Reports(rest) = O
      BY <1>1, <1>2, <2>1, EventsWithout
    <3>4. LocalOK(v, tasks[p], rest)
      BY <1>4, <3>3, LocalSame
    <3>5. FileOf(v, json) = J /\ RoundsOf(v, rounds) = r
      BY <3>3 DEF FileOf, RoundsOf
    <3>6. turn' = [turn EXCEPT ![p] = turn[p]]
      BY <1>0, <1>9, Unchanged
    <3>7. /\ Ready(v, Writers(tasks[p]), Reports(rest), FileOf(v, json), RoundsOf(v, rounds),
                   Later(rest, agent[p], v.handle), nextMsg)
          /\ TurnOK(v, rest, agent[p], turn[p])
          /\ v.phase = "running" /\ v.sess = ui[p].sess /\ v.handle
      BY <1>2, <3>2, <3>3, <3>5, <3>8
    <3>. HIDE DEF v, rest
    <3>. QED BY <1>2, <1>7, <3>1, <3>4, <3>6, <3>7, PersistKeeps
  <2>. QED BY <2>2, <2>3
<1>10. CASE e.kind = "done" /\ HandleDone(p)
  <2>1. turn[p] = "idle" /\ ~Saved(e)
    <3>1. Done(ch)
      BY <1>1, <1>2, <1>10, TailOfChannel DEF Done
    <3>. QED BY <1>5, <1>10, <3>1 DEF Saved
  <2>2. CASE ~u.handle
    BY <1>6, <1>8, <1>10, <2>1, <2>2 DEF HandleDone
  <2>3. CASE u.handle
    <3>. DEFINE w == [ui[p] EXCEPT !.handle = FALSE]
                v == [w EXCEPT !.mirror = agent[p]]
    <3>1. Persist(p, v, TRUE) /\ turn' = [turn EXCEPT ![p] = "idle"]
      <4>1. /\ Autosave(p, w, AgentFree(p)) /\ AgentFree(p)
            /\ turn' = [turn EXCEPT ![p] = IF @ = "running" THEN "unseen" ELSE @]
        BY <1>6, <1>10, <2>1, <2>3 DEF HandleDone, AgentFree
      <4>2. turn' = [turn EXCEPT ![p] = "idle"]
        BY <2>1, <4>1
      <4>. HIDE DEF w
      <4>. QED BY <4>1, <4>2 DEF Autosave
    <3>3. /\ v \in UiType /\ v.sess = u.sess /\ v.cursor = u.cursor
          /\ v.pending = u.pending /\ v.phase = u.phase /\ v.inFlight = u.inFlight
          /\ v.handle = FALSE /\ v.mirror = a
      BY <1>1 DEF UiType
    <3>2. /\ Ready(v, U, O, J, r, Later(rest, a, v.handle), nm)
          /\ TurnOK(v, rest, a, "idle")
      <4>. HIDE DEF U, O, J, r, nm, rest, e, v, w, u, ch, a
      <4>. QED BY <1>1, <1>3, <2>3, <3>3, TurnOverReady
    <3>4. LocalOK(v, tasks[p], rest)
      BY <1>4, <3>3, LocalSame
    <3>5. FileOf(v, json) = J /\ RoundsOf(v, rounds) = r
      BY <3>3 DEF FileOf, RoundsOf
    <3>6. Reports(rest) = O
      BY <1>1, <1>2, <2>1, EventsWithout
    <3>7. /\ Ready(v, Writers(tasks[p]), Reports(rest), FileOf(v, json), RoundsOf(v, rounds),
                   Later(rest, agent[p], v.handle), nextMsg)
          /\ TurnOK(v, rest, agent[p], "idle")
          /\ v.phase = "running" /\ v.sess = ui[p].sess
      BY <1>2, <3>2, <3>3, <3>5, <3>6
    <3>. HIDE DEF v, w, rest
    <3>. QED BY <1>2, <1>7, <3>1, <3>4, <3>7, PersistKeeps
  <2>. QED BY <2>2, <2>3
<1>11. CASE e.kind = "saved" /\ HandleSaved(p, e) /\ UNCHANGED turn
  <2>. DEFINE o == OnSaveDone(u, e.ok)
              ts == tasks[p] \o o.spawned
  <2>1. Commits(p, o) /\ UNCHANGED <<files, owner>>
    BY <1>11 DEF HandleSaved
  <2>2. /\ U = {} /\ Reports(rest) = {}
        /\ Keeps(o.ui, Spawns(o), {}, rest, a, turn[p], J, r, nm)
        /\ o.ui.sess = u.sess
    <3>1. \A i, j \in DOMAIN ch : Saved(ch[i]) /\ Saved(ch[j]) => i = j
      BY <1>1, <1>2 DEF LocalOK, Accounted
    <3>2. Saved(Head(ch)) /\ rest = Tail(ch)
      BY <1>11 DEF Saved
    <3>3. Alone(u, U, Reports(ch)) /\ Keeps(u, U, Reports(ch), ch, a, turn[p], J, r, nm)
      BY <1>3
    <3>4. nm \in Nat /\ u \in UiType /\ ch \in Seq(EventType) /\ ch # << >>
          /\ J \in History /\ r \in JournalType /\ FileOK(J, r, nm)
      BY <1>1, <1>2
    <3>5. o = OnSaveDone(u, Head(ch).ok)
      OBVIOUS
    <3>. HIDE DEF U, O, J, r, nm, rest, u, ch, a, o
    <3>6. /\ U = {} /\ Reports(Tail(ch)) = {}
          /\ Keeps(o.ui, Spawns(o), {}, Tail(ch), a, turn[p], J, r, nm)
          /\ o.ui.sess = u.sess
      BY <3>1, <3>2, <3>3, <3>4, <3>5, ReadKeeps
    <3>. QED BY <3>2, <3>6
  <2>3. o.spawned = << >> \/ \E t : NewTask(t) /\ o.spawned = <<t>>
    <3>1. e.ok \in BOOLEAN /\ UiOK(u)
      <4>1. e \in EventType
        BY <1>1, <1>2, TailOfChannel
      <4>. QED BY <1>1, <4>1 DEF EventType, LocalOK
    <3>. QED BY <3>1, OnSaveDoneFits
  <2>4. Writers(ts) = Spawns(o)
    <3>1. Writers(ts) = U \cup Spawns(o)
      <4>1. \A i \in DOMAIN tasks[p] : tasks[p][i].snap.sess = tasks[p][i].sess
        BY <1>1 DEF LocalOK
      <4>. HIDE DEF o
      <4>. QED BY <1>1, <2>3, <4>1, WritersSpawned
    <3>. QED BY <2>2, <3>1
  <2>5. ui' = [ui EXCEPT ![p] = o.ui] /\ tasks' = [tasks EXCEPT ![p] = ts]
    BY <2>1 DEF Commits
  <2>. DEFINE w == o.ui
  <2>6. FileOf(w, json) = J /\ RoundsOf(w, rounds) = r
    BY <2>2 DEF FileOf, RoundsOf
  <2>7. /\ Keeps(w, Writers(ts), Reports(rest), rest, agent[p], turn[p],
                 FileOf(w, json), RoundsOf(w, rounds), nextMsg')
        /\ w.sess = ui[p].sess
    BY <1>7, <2>2, <2>4, <2>6
  <2>8. turn' = [turn EXCEPT ![p] = turn[p]]
    BY <1>0, <1>11, Unchanged
  <2>9. UNCHANGED <<json, rounds, owner>>
    BY <2>1 DEF files
  <2>10. ui' = [ui EXCEPT ![p] = w] /\ tasks' = [tasks EXCEPT ![p] = ts]
    BY <2>5
  <2>. HIDE DEF w, ts, o, rest
  <2>. QED BY <1>2, <1>7, <2>7, <2>8, <2>9, <2>10, ProcessStays
<1>. QED BY <1>2, <1>9, <1>10, <1>11

\* A turn starts in a process whose UI keeps its session.
LEMMA StartMoves ==
    ASSUME SaveInv, IInv', NEW p \in Proc, MaySubmit(p), TakesMessage,
           SubmitHidden(p) \/ (Submit(p) /\ ui[p].sess # NoSession)
    PROVE  SaveInv'
<1>. DEFINE nm == nextMsg
            u == ui[p]
            ch == chan[p]
            a == agent[p]
            U == Writers(tasks[p])
            O == Reports(chan[p])
            J == FileOf(ui[p], json)
            r == RoundsOf(ui[p], rounds)
            v == [ui[p] EXCEPT !.handle = TRUE]
            a2 == Append(agent[p], nextMsg)
            ts == tasks[p]
<1>1. /\ u \in UiType /\ ch \in Seq(EventType) /\ a \in History
      /\ nm \in Nat /\ nm > Sys /\ r \in JournalType /\ FileOK(J, r, nm)
      /\ Allowed = {} /\ tasks[p] \in Seq(TaskType)
  BY OneStands
<1>2. u.phase = "running" /\ turn[p] = "idle" /\ \A i \in DOMAIN ch : Saved(ch[i])
  BY <1>1 DEF MaySubmit, Accepts, InStep, Saved
<1>3. Keeps(u, U, O, ch, a, "idle", J, r, nm)
  <2>1. u # DownUi
    BY <1>2 DEF DownUi, FreshUi
  <2>. QED BY <1>2, <2>1, OneStands
<1>4. nm \in Message /\ nextMsg' = nm + 1 /\ nextMsg <= nextMsg'
  <2>1. nm \in Message
    BY NextMessage DEF SaveInv
  <2>. QED BY <1>1, <2>1 DEF TakesMessage
<1>5. a2 \in History /\ Len(a2) > 1 /\ Proper(a2) /\ Changed(a, a2, nm)
  <2>1. a # << >>
    BY <1>3 DEF Keeps, TurnOK
  <2>2. Good(a, nm)
    <3>1. a \in Later(ch, a, u.handle)
      BY DEF Later
    <3>. QED BY <1>3, <3>1 DEF Keeps, Held, Ready, Ordered
  <2>. QED BY <1>1, <1>4, <2>1, <2>2, ProperAppend, AppendChanges
<1>6. Keeps(v, U, O, ch, a2, "running", J, r, nm + 1)
  <2>. HIDE DEF U, O, J, r, u, ch, a, a2, nm
  <2>1. v = [u EXCEPT !.handle = TRUE]
    BY DEF u
  <2>. HIDE DEF v
  <2>. QED BY <1>1, <1>2, <1>3, <1>5, <2>1, StartKeeps
<1>7. v.sess = ui[p].sess
  BY <1>1 DEF UiType
<1>8. FileOf(v, json) = J /\ RoundsOf(v, rounds) = r
  BY <1>7 DEF FileOf, RoundsOf
<1>9. Keeps(v, Writers(ts), Reports(ch), ch, a2, "running",
            FileOf(v, json), RoundsOf(v, rounds), nextMsg')
  BY <1>4, <1>6, <1>8
<1>10. /\ ui' = [ui EXCEPT ![p] = v] /\ agent' = [agent EXCEPT ![p] = a2]
       /\ tasks' = [tasks EXCEPT ![p] = ts] /\ chan' = [chan EXCEPT ![p] = ch]
       /\ turn' = [turn EXCEPT ![p] = "running"]
       /\ UNCHANGED <<json, rounds, owner>>
  <2>0. IInv
    BY DEF SaveInv
  <2>1. CASE SubmitHidden(p)
    BY <2>0, <2>1, Unchanged DEF SubmitHidden, files
  <2>2. CASE Submit(p) /\ u.sess # NoSession
    <3>1. Commits(p, Outcome(v, << >>)) /\ UNCHANGED owner
      BY <1>7, <2>2 DEF Submit
    <3>2. UNCHANGED <<json, rounds, chan>> /\ turn' = [turn EXCEPT ![p] = "running"]
          /\ agent' = [agent EXCEPT ![p] = a2]
      BY <2>2 DEF Submit, files
    <3>3. ui' = [ui EXCEPT ![p] = v] /\ tasks' = [tasks EXCEPT ![p] = ts]
      BY <1>1, <3>1, ConcatEmptySeq DEF Commits, Outcome
    <3>4. chan' = [chan EXCEPT ![p] = ch]
      BY <2>0, <3>2, Unchanged
    <3>. HIDE DEF v, a2, ts, ch
    <3>. QED BY <3>1, <3>2, <3>3, <3>4
  <2>. QED BY <2>1, <2>2
<1>. HIDE DEF v, a2, U, O, J, r, ts, ch, u, a
<1>. QED BY <1>4, <1>7, <1>9, <1>10, ProcessStays

\* A turn starts whose message is the first of its conversation.
LEMMA MintMoves ==
    ASSUME SaveInv, IInv', NEW p \in Proc, MaySubmit(p), TakesMessage,
           Submit(p), ui[p].sess = NoSession
    PROVE  SaveInv'
<1>s. PICK s \in Session : \E full \in BOOLEAN :
          /\ full /\ Unminted(s) /\ owner' = [owner EXCEPT ![s] = p]
          /\ Commits(p, EnqueueSave([ui[p] EXCEPT !.handle = TRUE, !.sess = s,
                                         !.mirror = Append(ui[p].mirror, nextMsg)], full))
  <2>1. ui[p] \in UiType
    BY OneStands
  <2>2. /\ [ui[p] EXCEPT !.handle = TRUE].sess = NoSession
        /\ [ui[p] EXCEPT !.handle = TRUE].mirror = ui[p].mirror
        /\ \A s \in Session, m \in History :
               [[ui[p] EXCEPT !.handle = TRUE] EXCEPT !.sess = s, !.mirror = m]
               = [ui[p] EXCEPT !.handle = TRUE, !.sess = s, !.mirror = m]
    BY <2>1 DEF UiType
  <2>3. Append(ui[p].mirror, nextMsg) \in History
    BY <2>1, NextMessage, HistoryGrows DEF SaveInv, UiType
  <2>4. \E s \in Session :
            /\ Unminted(s) /\ owner' = [owner EXCEPT ![s] = p]
            /\ Commits(p, EnqueueSave([ui[p] EXCEPT !.handle = TRUE, !.sess = s,
                                           !.mirror = Append(ui[p].mirror, nextMsg)], TRUE))
    BY <2>2, <2>3 DEF Submit
  <2>. QED BY <2>4
<1>f. PICK full \in BOOLEAN :
          /\ full /\ Unminted(s) /\ owner' = [owner EXCEPT ![s] = p]
          /\ Commits(p, EnqueueSave([ui[p] EXCEPT !.handle = TRUE, !.sess = s,
                                         !.mirror = Append(ui[p].mirror, nextMsg)], full))
  BY <1>s
<1>. DEFINE nm == nextMsg
            u == ui[p]
            ch == chan[p]
            a == agent[p]
            U == Writers(tasks[p])
            O == Reports(chan[p])
            v == [ui[p] EXCEPT !.handle = TRUE, !.sess = s,
                               !.mirror = Append(ui[p].mirror, nextMsg)]
            a2 == Append(a, nm)
            n == nm + 1
            J == << >>
            r == NoJournal
            o == EnqueueSave(v, full)
            ts == tasks[p] \o o.spawned
            w == o.ui
<1>1. /\ u \in UiType /\ ch \in Seq(EventType) /\ a \in History /\ tasks[p] \in Seq(TaskType)
      /\ nm \in Nat /\ nm > Sys /\ Allowed = {} /\ LocalOK(u, tasks[p], ch)
  BY OneStands
<1>2. u.phase = "running" /\ turn[p] = "idle" /\ \A i \in DOMAIN ch : Saved(ch[i])
  BY <1>1 DEF MaySubmit, Accepts, InStep, Saved
<1>3. /\ Keeps(u, U, O, ch, a, "idle", << >>, NoJournal, nm) /\ Alone(u, U, O)
  <2>1. u # DownUi
    BY <1>2 DEF DownUi, FreshUi
  <2>2. FileOf(ui[p], json) = << >> /\ RoundsOf(ui[p], rounds) = NoJournal
    BY DEF FileOf, RoundsOf
  <2>. QED BY <1>2, <2>1, <2>2, OneStands
<1>4. nm \in Message /\ nextMsg' = nm + 1 /\ nextMsg <= nextMsg'
  <2>1. nm \in Message
    BY NextMessage DEF SaveInv
  <2>. QED BY <1>1, <2>1 DEF TakesMessage
<1>6. /\ v \in UiType /\ v.pending = u.pending /\ v.phase = u.phase
      /\ v.inFlight = u.inFlight /\ v.sess = s /\ v.handle = TRUE
      /\ v.cursor = u.cursor /\ v.mirror = Append(u.mirror, nm)
  <2>1. Append(u.mirror, nm) \in History
    BY <1>1, <1>4, HistoryGrows DEF UiType
  <2>. QED BY <1>1, <2>1 DEF UiType
<1>5. /\ U = {} /\ O = {}
      /\ Ready(v, {}, {}, << >>, NoJournal, Later(ch, a2, v.handle), nm + 1)
      /\ TurnOK(v, ch, a2, "running")
  <2>. HIDE DEF u, ch, a, nm
  <2>2. u.sess = NoSession
    BY DEF u
  <2>. HIDE DEF v, U, O
  <2>3. nm \in Message /\ nm > Sys /\ u \in UiType /\ ch \in Seq(EventType) /\ a \in History
    BY <1>1, <1>4
  <2>4. Alone(u, U, O) /\ Keeps(u, U, O, ch, a, "idle", << >>, NoJournal, nm)
    BY <1>3
  <2>5. \A i \in DOMAIN ch : Saved(ch[i])
    BY <1>2
  <2>6. /\ v \in UiType /\ v.phase = u.phase /\ v.sess = s
        /\ v.mirror = Append(u.mirror, nm)
        /\ v.handle = TRUE /\ v.cursor = u.cursor /\ v.inFlight = u.inFlight
        /\ v.pending = u.pending
    BY <1>6
  <2>. QED BY <2>2, <2>3, <2>4, <2>5, <2>6, MintReady
<1>7. LocalOK(v, tasks[p], ch) /\ v.phase = "running"
  BY <1>1, <1>2, <1>6, LocalSame
<1>8. s # NoSession
  BY NamesAssumption
<1>9. Ready(v, Writers(tasks[p]), Reports(ch), << >>, NoJournal, Later(ch, a2, v.handle), nm + 1)
  BY <1>5, <1>6
<1>10. /\ Keeps(w, Writers(ts), Reports(ch), ch, a2, "running", J, r, n)
       /\ w.sess = s
  <2>1. J \in History /\ r \in JournalType /\ n \in Nat /\ FileOK(J, r, n)
    BY <1>1, MessageFacts, NoneTypes, NoFile
  <2>2. v.sess # NoSession /\ (full \/ Unbroken \/ v.handle)
    BY <1>f, <1>6, <1>8
  <2>3. /\ Ready(v, Writers(tasks[p]), Reports(ch), J, r, Later(ch, a2, v.handle), n)
        /\ TurnOK(v, ch, a2, "running")
    BY <1>5, <1>9
  <2>4. Keeps(w, Writers(ts), Reports(ch), ch, a2, "running", J, r, n)
        /\ w.sess = v.sess
    <3>. HIDE DEF v, a2, ch, nm, n, J, r
    <3>. QED BY <1>7, <2>1, <2>2, <2>3, EnqueueStands
  <2>. QED BY <1>6, <2>4
<1>11. ui' = [ui EXCEPT ![p] = w] /\ tasks' = [tasks EXCEPT ![p] = ts]
       /\ agent' = [agent EXCEPT ![p] = a2] /\ chan' = [chan EXCEPT ![p] = ch]
       /\ turn' = [turn EXCEPT ![p] = "running"]
  <2>1. ui' = [ui EXCEPT ![p] = w] /\ tasks' = [tasks EXCEPT ![p] = ts]
    BY <1>f DEF Commits
  <2>2. agent' = [agent EXCEPT ![p] = a2] /\ turn' = [turn EXCEPT ![p] = "running"]
        /\ UNCHANGED chan
    BY DEF Submit
  <2>3. chan' = [chan EXCEPT ![p] = ch]
    BY <2>2, Unchanged DEF SaveInv
  <2>. HIDE DEF w, ts, a2, ch
  <2>. QED BY <2>1, <2>2, <2>3
<1>12. json[s] = << >> /\ rounds[s] = NoJournal /\ owner[s] = NoProc
  <2>1. json[s] = << >> /\ owner[s] = NoProc
    BY <1>f DEF Unminted
  <2>. QED BY <2>1 DEF SaveInv, FilesOK, FileOK
<1>13. /\ owner'[s] = p /\ \A z \in Session : z # s => owner'[z] = owner[z]
  BY <1>f DEF SaveInv, IInv, SharedOK
<1>14. \A z \in Session : FileOK(json'[z], rounds'[z], nextMsg')
  <2>1. \A z \in Session : rounds[z] \in JournalType /\ FileOK(json[z], rounds[z], nm)
    BY DEF SaveInv, IInv, SharedOK, FilesOK
  <2>2. nextMsg' \in Nat /\ nm <= nextMsg'
    BY <1>1, <1>4
  <2>3. json' = json /\ rounds' = rounds
    BY DEF Submit, files
  <2>. QED BY <1>1, <2>1, <2>2, <2>3, FileLater
<1>15. \A z \in Session : owner[z] \in Proc \ {p} =>
           owner'[z] = owner[z] /\ json'[z] = json[z] /\ rounds'[z] = rounds[z]
  BY <1>12, <1>13, NamesAssumption DEF Submit, files
<1>16. Stands(w, ts, ch, a2, "running", json', rounds', nextMsg')
  <2>1. FileOf(w, json') = << >> /\ RoundsOf(w, rounds') = NoJournal
    BY <1>8, <1>10, <1>12 DEF FileOf, RoundsOf, Submit, files
  <2>. QED BY <1>4, <1>10, <2>1 DEF Stands
<1>17. w.sess # NoSession => owner'[w.sess] = p
  BY <1>10, <1>13
<1>. HIDE DEF w, ts, o, v, a2, ch, u, a, U, O, nm
<1>. QED BY <1>4, <1>11, <1>14, <1>15, <1>16, <1>17, ProcessMoves

LEMMA CancelMoves ==
    ASSUME SaveInv, IInv', NEW p \in Proc, Cancel(p)
    PROVE  SaveInv'
<1>. DEFINE nm == nextMsg
            u == ui[p]
            ch == chan[p]
            a == agent[p]
            U == Writers(tasks[p])
            O == Reports(chan[p])
            J == FileOf(ui[p], json)
            r == RoundsOf(ui[p], rounds)
            w == [ui[p] EXCEPT !.handle = FALSE]
            v == [w EXCEPT !.mirror = agent[p]]
<1>1. /\ u \in UiType /\ ch \in Seq(EventType) /\ a \in History
      /\ nm \in Nat /\ r \in JournalType /\ FileOK(J, r, nm) /\ Allowed = {}
      /\ LocalOK(u, tasks[p], ch)
  BY OneStands
<1>2. u.phase = "running" /\ turn[p] = "running"
  BY DEF Cancel, CancelTurn, Accepts
<1>3. Keeps(u, U, O, ch, a, turn[p], J, r, nm) /\ u.handle
  <2>1. u # DownUi
    BY <1>2 DEF DownUi, FreshUi
  <2>2. Keeps(u, U, O, ch, a, turn[p], J, r, nm)
    BY <2>1, OneStands
  <2>. QED BY <1>2, <2>2 DEF Keeps, TurnOK
<1>4. Persist(p, v, TRUE) /\ turn' = [turn EXCEPT ![p] = "idle"]
      /\ UNCHANGED <<agent, chan, nextMsg>>
  <2>1. PICK free \in {TRUE, "abortLag" \notin Allowed} :
          /\ turn' = [turn EXCEPT ![p] = IF free THEN "idle" ELSE "aborting"]
          /\ Autosave(p, w, free)
    BY DEF Cancel, CancelTurn
  <2>2. free
    BY <1>1
  <2>. HIDE DEF w
  <2>3. Persist(p, v, TRUE)
    BY <2>1, <2>2 DEF Autosave
  <2>. HIDE DEF v
  <2>. QED BY <2>1, <2>2, <2>3 DEF Cancel, budget
<1>5. /\ v \in UiType /\ v.sess = u.sess /\ v.cursor = u.cursor
      /\ v.pending = u.pending /\ v.phase = u.phase /\ v.inFlight = u.inFlight
      /\ v.handle = FALSE /\ v.mirror = a
  BY <1>1 DEF UiType
<1>6. /\ Ready(v, U, O, J, r, Later(ch, a, v.handle), nm)
      /\ TurnOK(v, ch, a, "idle")
  <2>. HIDE DEF U, O, J, r, nm, v, w, u, ch, a
  <2>. QED BY <1>1, <1>3, <1>5, TurnOverReady
<1>7. LocalOK(v, tasks[p], ch)
  BY <1>1, <1>5, LocalSame
<1>8. FileOf(v, json) = J /\ RoundsOf(v, rounds) = r
  BY <1>5 DEF FileOf, RoundsOf
<1>9. /\ Ready(v, Writers(tasks[p]), Reports(ch), FileOf(v, json), RoundsOf(v, rounds),
               Later(ch, agent[p], v.handle), nextMsg)
      /\ TurnOK(v, ch, agent[p], "idle")
      /\ v.phase = "running" /\ v.sess = ui[p].sess
  BY <1>2, <1>5, <1>6, <1>8
<1>10. /\ chan' = [chan EXCEPT ![p] = ch] /\ agent' = [agent EXCEPT ![p] = agent[p]]
       /\ turn' = [turn EXCEPT ![p] = "idle"] /\ nextMsg' = nextMsg
  <2>1. chan' = [chan EXCEPT ![p] = ch] /\ agent' = [agent EXCEPT ![p] = agent[p]]
    BY <1>4, Unchanged DEF SaveInv
  <2>. QED BY <1>4, <2>1
<1>11. Persist(p, v, TRUE)
  BY <1>4
<1>. HIDE DEF v, w, ch
<1>. QED BY <1>7, <1>9, <1>10, <1>11, PersistKeeps

LEMMA ResumeMoves ==
    ASSUME SaveInv, IInv', NEW p \in Proc, NEW s \in Session, Resume(p, s)
    PROVE  SaveInv'
<1>. DEFINE nm == nextMsg
            u == ui[p]
            ch == chan[p]
            U == Writers(tasks[p])
            O == Reports(chan[p])
            J0 == FileOf(ui[p], json)
            r0 == RoundsOf(ui[p], rounds)
            J == json[s]
            r == rounds[s]
            R == Recovered(J, r)
            v == [ui[p] EXCEPT !.sess = s, !.mirror = R]
            ts == tasks[p]
<1>0. IInv /\ ui \in [Proc -> UiType] /\ agent \in [Proc -> History]
  BY DEF SaveInv, IInv, SharedOK, PipelinesOK
<1>1. /\ u \in UiType /\ ch \in Seq(EventType) /\ nm \in Nat /\ Allowed = {}
  BY OneStands
<1>2. u.phase = "running" /\ agent[p] = Blank /\ turn[p] # "running" /\ J # << >>
      /\ owner[s] = NoProc
  BY <1>1 DEF Resume, MayLeave, Accepts
<1>3. Keeps(u, U, O, ch, Blank, "idle", J0, r0, nm) /\ Alone(u, U, O) /\ turn[p] = "idle"
  <2>1. u # DownUi
    BY <1>2 DEF DownUi, FreshUi
  <2>2. Keeps(u, U, O, ch, Blank, turn[p], J0, r0, nm) /\ Alone(u, U, O)
    BY <1>2, <2>1, OneStands
  <2>3. turn[p] = "idle"
    BY <1>2, <2>2 DEF Keeps, TurnOK
  <2>. QED BY <2>2, <2>3
<1>4. J \in History /\ r \in JournalType /\ FileOK(J, r, nm) /\ R \in History
  BY RecoveredType DEF SaveInv, IInv, SharedOK, FilesOK
<1>5. /\ v.phase = u.phase /\ v.sess = s /\ v.mirror = R
      /\ v.handle = u.handle /\ v.cursor = u.cursor /\ v.inFlight = u.inFlight
      /\ v.pending = u.pending
  BY <1>1, <1>4 DEF UiType
<1>6. /\ u.sess = NoSession /\ U = {} /\ O = {}
      /\ Keeps(v, {}, {}, ch, R, "idle", J, r, nm)
  <2>. HIDE DEF U, O, J0, r0, nm, v, u, ch, J, r
  <2>. QED BY <1>1, <1>2, <1>3, <1>4, <1>5, ResumeKeeps
<1>7. /\ ui' = [ui EXCEPT ![p] = v] /\ agent' = [agent EXCEPT ![p] = R]
      /\ tasks' = [tasks EXCEPT ![p] = ts] /\ chan' = [chan EXCEPT ![p] = ch]
      /\ turn' = [turn EXCEPT ![p] = "idle"]
  <2>1. ui' = [ui EXCEPT ![p] = v]
    BY <1>0 DEF Resume
  <2>2. agent' = [agent EXCEPT ![p] = R]
    BY <1>0, <1>3 DEF Resume, AgentFree
  <2>3. UNCHANGED <<turn, tasks, chan>>
    BY DEF Resume
  <2>4. /\ tasks' = [tasks EXCEPT ![p] = ts] /\ chan' = [chan EXCEPT ![p] = ch]
        /\ turn' = [turn EXCEPT ![p] = "idle"]
    BY <1>0, <1>3, <2>3, Unchanged
  <2>. HIDE DEF v, R, ts, ch
  <2>. QED BY <2>1, <2>2, <2>4
<1>8. json' = json /\ rounds' = rounds /\ nextMsg' = nextMsg /\ nextMsg <= nextMsg'
  BY <1>1 DEF Resume, files, budget
<1>9. owner'[s] = p /\ \A z \in Session : owner[z] \in Proc \ {p} => owner'[z] = owner[z]
  BY <1>2, NamesAssumption DEF Resume
<1>10. \A z \in Session : FileOK(json'[z], rounds'[z], nextMsg')
  BY <1>8 DEF SaveInv, FilesOK
<1>11. \A z \in Session : owner[z] \in Proc \ {p} =>
           owner'[z] = owner[z] /\ json'[z] = json[z] /\ rounds'[z] = rounds[z]
  BY <1>8, <1>9
<1>12. v.sess # NoSession => owner'[v.sess] = p
  BY <1>5, <1>9
<1>13. Stands(v, ts, ch, R, "idle", json', rounds', nextMsg')
  <2>1. v.sess # NoSession
    BY <1>5, NamesAssumption
  <2>2. FileOf(v, json') = J /\ RoundsOf(v, rounds') = r
    BY <1>5, <1>8, <2>1 DEF FileOf, RoundsOf
  <2>3. Writers(ts) = {} /\ Reports(ch) = {}
    BY <1>6
  <2>. HIDE DEF v, R, ts, ch, J, r
  <2>. QED BY <1>6, <1>8, <2>2, <2>3 DEF Stands
<1>14. nextMsg <= nextMsg'
  BY <1>8
<1>. HIDE DEF v, R, ts, ch, u, U, O, J, r, nm
<1>. QED BY <1>7, <1>10, <1>11, <1>12, <1>13, <1>14, ProcessMoves

LEMMA UserKeeps ==
    ASSUME SaveInv, IInv', NEW p \in Proc, User(p)
    PROVE  SaveInv'
<1>0. Allowed = {}
  BY DEF SaveInv
<1>1. CASE Submit(p) /\ ui[p].sess # NoSession
  <2>1. MaySubmit(p) /\ TakesMessage
    BY <1>1 DEF Submit
  <2>. QED BY <1>1, <2>1, StartMoves
<1>2. CASE Submit(p) /\ ui[p].sess = NoSession
  <2>1. MaySubmit(p) /\ TakesMessage
    BY <1>2 DEF Submit
  <2>. QED BY <1>2, <2>1, MintMoves
<1>3. CASE SubmitHidden(p)
  <2>1. MaySubmit(p) /\ TakesMessage
    BY <1>3 DEF SubmitHidden
  <2>. QED BY <1>3, <2>1, StartMoves
<1>4. CASE Cancel(p)
  BY <1>4, CancelMoves
<1>5. CASE ClearAll(p)
  BY <1>0, <1>5 DEF ClearAll, MayLeave
<1>6. CASE Quit(p)
  BY <1>0, <1>6 DEF Quit
<1>7. CASE \E s \in Session : Resume(p, s)
  BY <1>7, ResumeMoves
<1>. QED BY <1>1, <1>2, <1>3, <1>4, <1>5, <1>6, <1>7 DEF User

\* A save task that has still to write or to report is the only one, and the
\* UI's books fit it.
LEMMA TaskStands ==
    ASSUME SaveInv, NEW p \in Proc, NEW i \in DOMAIN tasks[p], Unreported(tasks[p][i])
    PROVE  LET u == ui[p]
               t == tasks[p][i]
               J == json[u.sess]
               r == rounds[u.sess]
           IN  /\ u \in UiType /\ t \in TaskType /\ u.phase = "running"
               /\ u.sess \in Session /\ t.sess = u.sess
               /\ J \in History /\ r \in JournalType /\ FileOK(J, r, nextMsg)
               /\ Held(u, {t}, {}, J, r, Later(chan[p], agent[p], u.handle), nextMsg)
               /\ TaskFits(u, t, J, r)
               /\ TurnOK(u, chan[p], agent[p], turn[p])
               /\ Writers(tasks[p]) = {t} /\ Reports(chan[p]) = {}
<1>. DEFINE u == ui[p]
            t == tasks[p][i]
            J == FileOf(ui[p], json)
            r == RoundsOf(ui[p], rounds)
            L == Later(chan[p], agent[p], u.handle)
<1>1. /\ u \in UiType /\ tasks[p] \in Seq(TaskType) /\ LocalOK(u, tasks[p], chan[p])
      /\ J \in History /\ r \in JournalType /\ FileOK(J, r, nextMsg)
  BY OneStands
<1>2. t \in TaskType
  BY <1>1, ElementOfSeq, LenProperties
<1>3. u # DownUi
  <2>1. tasks[p] # << >>
    OBVIOUS
  <2>2. u.phase # "down"
    BY <1>1, <2>1 DEF LocalOK
  <2>. QED BY <2>2 DEF DownUi, FreshUi
<1>4. /\ u.phase = "running"
      /\ Keeps(u, Writers(tasks[p]), Reports(chan[p]), chan[p], agent[p], turn[p], J, r, nextMsg)
  BY <1>3, OneStands
<1>5. Writers(tasks[p]) = {t} /\ Reports(chan[p]) = {}
  <2>. DEFINE ts == tasks[p]
  <2>. HIDE DEF ts, u
  <2>1. Unreported(ts[i]) /\ i \in DOMAIN ts /\ LocalOK(u, ts, chan[p]) /\ u.phase = "running"
        /\ ts[i] \in TaskType
    BY <1>1, <1>2, <1>4 DEF ts
  <2>2. Writers(ts) = {ts[i]} /\ Reports(chan[p]) = {}
    <3>1. /\ \A k \in DOMAIN ts : Unreported(ts[k]) => k = i
          /\ \A j \in DOMAIN chan[p] : ~Saved(chan[p][j])
      BY <2>1 DEF LocalOK, Accounted
    <3>. QED BY <2>1, <3>1 DEF Writers, Reports
  <2>. QED BY <2>2 DEF ts
<1>6. Held(u, {t}, {}, J, r, L, nextMsg) /\ TurnOK(u, chan[p], agent[p], turn[p])
  BY <1>4, <1>5 DEF Keeps
<1>7. TaskFits(u, t, J, r)
  BY <1>6 DEF Held, Ready
<1>8. t.sess = u.sess /\ u.sess \in Session /\ u.sess # NoSession
  BY <1>2, <1>7, NamesAssumption DEF TaskFits, TaskType
<1>9. J = json[u.sess] /\ r = rounds[u.sess]
  BY <1>8 DEF FileOf, RoundsOf
<1>. QED BY <1>1, <1>2, <1>4, <1>5, <1>6, <1>7, <1>8, <1>9

\* A step of a save task leaves all but the files and the tasks.
OnlyTasks == UNCHANGED <<nextMsg, owner, ui, agent, turn, chan>>

LEMMA TaskWrites ==
    ASSUME SaveInv, IInv', NEW p \in Proc, NEW i \in DOMAIN tasks[p],
           Unreported(tasks[p][i]), OnlyTasks, NEW t \in TaskType, Unreported(t),
           tasks' = [tasks EXCEPT ![p] = [tasks[p] EXCEPT ![i] = t]],
           NEW J, NEW r, json'[ui[p].sess] = J, rounds'[ui[p].sess] = r,
           \A s \in Session \ {ui[p].sess} : json'[s] = json[s] /\ rounds'[s] = rounds[s],
           FileOK(J, r, nextMsg),
           Held(ui[p], {t}, {}, J, r, Later(chan[p], agent[p], ui[p].handle), nextMsg)
    PROVE  SaveInv'
<1>. DEFINE ts == [tasks[p] EXCEPT ![i] = t]
            u == ui[p]
            ch == chan[p]
            a == agent[p]
            tn == turn[p]
<1>1. /\ u.phase = "running" /\ u.sess \in Session
      /\ TurnOK(u, ch, a, tn) /\ Reports(ch) = {}
  BY TaskStands
<1>2. LocalOK(u, tasks[p], ch)
  BY OneStands
<1>3. Writers(ts) = {t}
  <2>. DEFINE us == tasks[p]
  <2>1. Unreported(us[i]) /\ i \in DOMAIN us /\ LocalOK(u, us, ch) /\ ts = [us EXCEPT ![i] = t]
    BY <1>2
  <2>. HIDE DEF us, u, ch
  <2>2. Writers([us EXCEPT ![i] = t]) = IF Unreported(t) THEN {t} ELSE {}
    BY <1>1, <2>1, WriterMoves
  <2>. QED BY <2>1, <2>2
<1>4. Keeps(u, Writers(ts), Reports(ch), ch, a, tn, J, r, nextMsg)
  BY <1>1, <1>3 DEF Keeps
<1>5. /\ ui' = [ui EXCEPT ![p] = u] /\ tasks' = [tasks EXCEPT ![p] = ts]
      /\ chan' = [chan EXCEPT ![p] = ch] /\ agent' = [agent EXCEPT ![p] = a]
      /\ turn' = [turn EXCEPT ![p] = tn] /\ UNCHANGED <<nextMsg, owner>>
  BY Unchanged DEF OnlyTasks, SaveInv
<1>6. /\ u.sess = ui[p].sess /\ json'[u.sess] = J /\ rounds'[u.sess] = r
      /\ \A s \in Session \ {u.sess} : json'[s] = json[s] /\ rounds'[s] = rounds[s]
  OBVIOUS
<1>. HIDE DEF ts, u, ch, a, tn
<1>. QED BY <1>1, <1>4, <1>5, <1>6, ProcessWrites

LEMMA JsonMoves ==
    ASSUME SaveInv, IInv', NEW p \in Proc, NEW i \in DOMAIN tasks[p], WriteJson(p, i)
    PROVE  SaveInv'
<1>. DEFINE u == ui[p]
            t == tasks[p][i]
            J == json[u.sess]
            r == rounds[u.sess]
            L == Later(chan[p], agent[p], u.handle)
            nm == nextMsg
<1>1. Unreported(t) /\ t.kind = "full" /\ t.stage = "write" /\ OnlyTasks
  BY DEF WriteJson, Unreported, OnlyTasks
<1>2. /\ u \in UiType /\ t \in TaskType /\ u.sess \in Session /\ t.sess = u.sess
      /\ J \in History /\ r \in JournalType /\ FileOK(J, r, nm)
      /\ Held(u, {t}, {}, J, r, L, nm)
  BY <1>1, TaskStands
<1>3. nm \in Nat /\ json \in [Session -> History] /\ tasks \in [Proc -> Seq(TaskType)]
  BY OneStands DEF SaveInv, IInv, SharedOK, PipelinesOK
<1>4. UNCHANGED rounds
  BY DEF WriteJson
<1>5. CASE json' = [json EXCEPT ![t.sess] = t.snap.hist] /\ Reaches(p, i, "clean")
  <2>. DEFINE t2 == [t EXCEPT !.stage = "clean"]
              h == t.snap.hist
  <2>1. t2 \in TaskType /\ Unreported(t2)
    BY <1>2 DEF TaskType, Unreported
  <2>2. tasks' = [tasks EXCEPT ![p] = [tasks[p] EXCEPT ![i] = t2]]
    BY <1>5 DEF Reaches
  <2>3. FileOK(h, r, nm) /\ Held(u, {t2}, {}, h, r, L, nm)
    <3>. HIDE DEF u, t, J, r, L, nm
    <3>. QED BY <1>1, <1>2, <1>3, WrittenKeeps
  <2>4. /\ json'[ui[p].sess] = h /\ rounds'[ui[p].sess] = r
        /\ \A s \in Session \ {ui[p].sess} : json'[s] = json[s] /\ rounds'[s] = rounds[s]
    BY <1>2, <1>3, <1>4, <1>5
  <2>5. Held(ui[p], {t2}, {}, h, r, Later(chan[p], agent[p], ui[p].handle), nextMsg)
        /\ FileOK(h, r, nextMsg) /\ Unreported(tasks[p][i])
    BY <1>1, <2>3
  <2>. HIDE DEF t2, h, r, t
  <2>. QED BY <1>1, <2>1, <2>2, <2>4, <2>5, TaskWrites
<1>6. CASE Fails(p, i) /\ UNCHANGED json
  <2>. DEFINE t2 == [t EXCEPT !.stage = "send", !.ok = FALSE]
  <2>1. t2 \in TaskType /\ Unreported(t2)
    BY <1>2 DEF TaskType, Unreported
  <2>2. tasks' = [tasks EXCEPT ![p] = [tasks[p] EXCEPT ![i] = t2]]
    BY <1>2, <1>3, <1>6 DEF Fails
  <2>3. Held(u, {t2}, {}, J, r, L, nm)
    <3>1. Recovered(J, r) = Recovered(J, r) /\ Anchors(r) \subseteq Anchors(r)
      OBVIOUS
    <3>. HIDE DEF u, t, J, r, L, nm
    <3>. QED BY <1>1, <1>2, <1>3, <3>1, FailedKeeps
  <2>4. /\ json'[ui[p].sess] = J /\ rounds'[ui[p].sess] = r
        /\ \A s \in Session \ {ui[p].sess} : json'[s] = json[s] /\ rounds'[s] = rounds[s]
    BY <1>4, <1>6
  <2>5. Held(ui[p], {t2}, {}, J, r, Later(chan[p], agent[p], ui[p].handle), nextMsg)
        /\ FileOK(J, r, nextMsg) /\ Unreported(tasks[p][i])
    BY <1>1, <1>2, <2>3
  <2>. HIDE DEF t2, J, r, t
  <2>. QED BY <1>1, <2>1, <2>2, <2>4, <2>5, TaskWrites
<1>. QED BY <1>5, <1>6 DEF WriteJson

LEMMA RemovalMoves ==
    ASSUME SaveInv, IInv', NEW p \in Proc, NEW i \in DOMAIN tasks[p], RemoveRounds(p, i)
    PROVE  SaveInv'
<1>. DEFINE u == ui[p]
            t == tasks[p][i]
            J == json[u.sess]
            r == rounds[u.sess]
            L == Later(chan[p], agent[p], u.handle)
            nm == nextMsg
            t2 == [t EXCEPT !.stage = "send"]
<1>1. /\ Unreported(t) /\ t.kind = "full" /\ t.stage = "clean" /\ OnlyTasks
      /\ UNCHANGED json /\ Reaches(p, i, "send")
  BY DEF RemoveRounds, Unreported, OnlyTasks
<1>2. /\ u \in UiType /\ t \in TaskType /\ u.sess \in Session /\ t.sess = u.sess
      /\ J \in History /\ r \in JournalType /\ FileOK(J, r, nm)
      /\ Held(u, {t}, {}, J, r, L, nm)
  BY <1>1, TaskStands
<1>3. nm \in Nat /\ rounds \in [Session -> JournalType]
  BY OneStands DEF SaveInv, IInv, SharedOK
<1>4. PICK r2 \in {r, NoJournal} :
          /\ rounds'[ui[p].sess] = r2
          /\ \A s \in Session \ {ui[p].sess} : rounds'[s] = rounds[s]
  BY <1>2, <1>3 DEF RemoveRounds
<1>5. t2 \in TaskType /\ Unreported(t2)
  BY <1>2 DEF TaskType, Unreported
<1>6. tasks' = [tasks EXCEPT ![p] = [tasks[p] EXCEPT ![i] = t2]]
  BY <1>1 DEF Reaches
<1>7. FileOK(J, r2, nm) /\ Held(u, {t2}, {}, J, r2, L, nm)
  <2>. HIDE DEF u, t, J, r, L, nm
  <2>. QED BY <1>1, <1>2, <1>3, <1>4, RemovedKeeps
<1>8. /\ json'[ui[p].sess] = J
      /\ \A s \in Session \ {ui[p].sess} : json'[s] = json[s] /\ rounds'[s] = rounds[s]
  BY <1>1, <1>4
<1>9. Held(ui[p], {t2}, {}, J, r2, Later(chan[p], agent[p], ui[p].handle), nextMsg)
      /\ FileOK(J, r2, nextMsg) /\ Unreported(tasks[p][i])
  BY <1>1, <1>7
<1>. HIDE DEF t2, J, r, t
<1>. QED BY <1>1, <1>4, <1>5, <1>6, <1>8, <1>9, TaskWrites

\* What a crash or an error leaves of an append does not change what a load gives.
LEMMA TornKeeps ==
    ASSUME SaveInv, NEW p \in Proc, NEW i \in DOMAIN tasks[p],
           tasks[p][i].kind = "append", tasks[p][i].stage = "write",
           NEW r2 \in TornJournals(tasks[p][i])
    PROVE  LET J == json[ui[p].sess]
               r == rounds[ui[p].sess]
           IN  /\ FileOK(J, r2, nextMsg)
               /\ Recovered(J, r2) = Recovered(J, r)
               /\ Anchors(r2) \subseteq Anchors(r)
<1>. DEFINE u == ui[p]
            t == tasks[p][i]
            J == json[u.sess]
            r == rounds[u.sess]
            nm == nextMsg
<1>1. Unreported(t)
  BY DEF Unreported
<1>2. /\ t.sess = u.sess /\ J \in History /\ r \in JournalType /\ FileOK(J, r, nm)
      /\ TaskFits(u, t, J, r)
  BY <1>1, TaskStands
<1>3. J # << >> /\ (t.fresh => Recovered(J, r) = J)
  BY <1>2 DEF TaskFits
<1>4. nm \in Nat
  BY OneStands
<1>5. \/ r2 = HeadlessJournal
      \/ \E b, a : r2 = Journal(b, a, << >>, TRUE)
      \/ r2 = [r EXCEPT !.torn = TRUE]
  BY <1>2 DEF TornJournals
<1>6. /\ FileOK(J, r2, nm) /\ Recovered(J, r2) \in {J, Recovered(J, r)}
      /\ Anchors(r2) \subseteq Anchors(r)
  <2>. HIDE DEF J, r, nm
  <2>. QED BY <1>2, <1>3, <1>4, <1>5, RoundsTorn
<1>7. Recovered(J, r2) = Recovered(J, r)
  <2>1. CASE t.fresh
    BY <1>3, <1>6, <2>1
  <2>2. CASE ~t.fresh
    <3>1. r2 = [r EXCEPT !.torn = TRUE]
      BY <1>2, <2>2 DEF TornJournals
    <3>2. r2.open = r.open /\ r2.base = r.base /\ r2.anchor = r.anchor /\ r2.tail = r.tail
      BY <1>2, <3>1 DEF JournalType
    <3>. QED BY <3>2 DEF Recovered, Extends
  <2>. QED BY <2>1, <2>2
<1>. QED BY <1>6, <1>7

LEMMA AppendMoves ==
    ASSUME SaveInv, IInv', NEW p \in Proc, NEW i \in DOMAIN tasks[p], AppendRound(p, i)
    PROVE  SaveInv'
<1>. DEFINE u == ui[p]
            t == tasks[p][i]
            J == json[u.sess]
            r == rounds[u.sess]
            L == Later(chan[p], agent[p], u.handle)
            nm == nextMsg
<1>1. /\ Unreported(t) /\ t.kind = "append" /\ t.stage = "write" /\ OnlyTasks
      /\ UNCHANGED json
  BY DEF AppendRound, Unreported, OnlyTasks
<1>2. /\ u \in UiType /\ t \in TaskType /\ u.sess \in Session /\ t.sess = u.sess
      /\ J \in History /\ r \in JournalType /\ FileOK(J, r, nm)
      /\ Held(u, {t}, {}, J, r, L, nm)
  BY <1>1, TaskStands
<1>3. nm \in Nat /\ rounds \in [Session -> JournalType] /\ tasks \in [Proc -> Seq(TaskType)]
  BY OneStands DEF SaveInv, IInv, SharedOK, PipelinesOK
<1>4. CASE rounds' = [rounds EXCEPT ![t.sess] = AppendedJournal(t)] /\ Reaches(p, i, "send")
  <2>. DEFINE t2 == [t EXCEPT !.stage = "send"]
              r2 == IF t.fresh THEN Journal(t.base, t.baseAnchor, t.tail, FALSE)
                    ELSE AppendChunk(r, t.tail)
  <2>1. t2 \in TaskType /\ Unreported(t2)
    BY <1>2 DEF TaskType, Unreported
  <2>2. tasks' = [tasks EXCEPT ![p] = [tasks[p] EXCEPT ![i] = t2]]
    BY <1>4 DEF Reaches
  <2>3. FileOK(J, r2, nm) /\ Held(u, {t2}, {}, J, r2, L, nm)
    <3>. HIDE DEF u, t, J, r, L, nm
    <3>. QED BY <1>1, <1>2, <1>3, AppendedKeeps
  <2>4. AppendedJournal(t) = r2
    BY <1>2 DEF AppendedJournal
  <2>5. /\ json'[ui[p].sess] = J /\ rounds'[ui[p].sess] = r2
        /\ \A s \in Session \ {ui[p].sess} : json'[s] = json[s] /\ rounds'[s] = rounds[s]
    <3>. HIDE DEF r2
    <3>. QED BY <1>1, <1>2, <1>3, <1>4, <2>4
  <2>6. Held(ui[p], {t2}, {}, J, r2, Later(chan[p], agent[p], ui[p].handle), nextMsg)
        /\ FileOK(J, r2, nextMsg) /\ Unreported(tasks[p][i])
    BY <1>1, <2>3
  <2>. HIDE DEF t2, J, r, r2, t
  <2>. QED BY <1>1, <2>1, <2>2, <2>5, <2>6, TaskWrites
<1>5. ASSUME Fails(p, i), NEW r2 \in TornJournals(t) \cup {r},
             rounds'[ui[p].sess] = r2,
             \A s \in Session \ {ui[p].sess} : rounds'[s] = rounds[s]
      PROVE  SaveInv'
  <2>. DEFINE t2 == [t EXCEPT !.stage = "send", !.ok = FALSE]
  <2>1. t2 \in TaskType /\ Unreported(t2)
    BY <1>2 DEF TaskType, Unreported
  <2>2. tasks' = [tasks EXCEPT ![p] = [tasks[p] EXCEPT ![i] = t2]]
    BY <1>2, <1>3, <1>5 DEF Fails
  <2>3. /\ FileOK(J, r2, nm) /\ Recovered(J, r2) = Recovered(J, r)
        /\ Anchors(r2) \subseteq Anchors(r)
    <3>1. CASE r2 \in TornJournals(t)
      BY <1>1, <3>1, TornKeeps
    <3>2. CASE r2 = r
      BY <1>2, <3>2
    <3>. QED BY <1>5, <3>1, <3>2
  <2>4. Held(u, {t2}, {}, J, r2, L, nm)
    <3>. HIDE DEF u, t, J, r, L, nm
    <3>. QED BY <1>1, <1>2, <1>3, <2>3, FailedKeeps
  <2>5. /\ json'[ui[p].sess] = J
        /\ \A s \in Session \ {ui[p].sess} : json'[s] = json[s] /\ rounds'[s] = rounds[s]
    BY <1>1, <1>5
  <2>6. Held(ui[p], {t2}, {}, J, r2, Later(chan[p], agent[p], ui[p].handle), nextMsg)
        /\ FileOK(J, r2, nextMsg) /\ Unreported(tasks[p][i])
    BY <1>1, <2>3, <2>4
  <2>. HIDE DEF t2, J, r, t
  <2>. QED BY <1>1, <1>5, <2>1, <2>2, <2>5, <2>6, TaskWrites
<1>6. CASE Fails(p, i) /\ UNCHANGED rounds
  BY <1>5, <1>6
<1>7. ASSUME Fails(p, i), NEW r2 \in TornJournals(t) \cup {rounds[t.sess]},
             rounds' = [rounds EXCEPT ![t.sess] = r2]
      PROVE  SaveInv'
  <2>1. /\ rounds'[ui[p].sess] = r2 /\ \A s \in Session \ {ui[p].sess} : rounds'[s] = rounds[s]
        /\ r2 \in TornJournals(t) \cup {r}
    BY <1>2, <1>3, <1>7
  <2>. HIDE DEF t, r
  <2>. QED BY <1>5, <1>7, <2>1
<1>. QED BY <1>4, <1>6, <1>7 DEF AppendRound

LEMMA SendMoves ==
    ASSUME SaveInv, IInv', NEW p \in Proc, NEW i \in DOMAIN tasks[p], SendSaved(p, i)
    PROVE  SaveInv'
<1>. DEFINE u == ui[p]
            t == tasks[p][i]
            J == json[u.sess]
            r == rounds[u.sess]
            ch == chan[p]
            a == agent[p]
            tn == turn[p]
            nm == nextMsg
            e == Event("saved", << >>, t.ok)
            ch2 == Append(ch, e)
            t2 == [t EXCEPT !.stage = "notify"]
            ts == [tasks[p] EXCEPT ![i] = t2]
<1>1. Unreported(t) /\ t.stage = "send"
  BY DEF SendSaved, Unreported
<1>2. /\ u \in UiType /\ t \in TaskType /\ u.phase = "running"
      /\ u.sess \in Session /\ t.sess = u.sess
      /\ J \in History /\ r \in JournalType
      /\ Held(u, {t}, {}, J, r, Later(ch, a, u.handle), nm)
      /\ TurnOK(u, ch, a, tn) /\ Reports(ch) = {}
  BY <1>1, TaskStands
<1>3. nm \in Nat /\ ch \in Seq(EventType) /\ LocalOK(u, tasks[p], ch) /\ nm <= nm
  BY OneStands
<1>4. e \in EventType /\ e.kind = "saved" /\ e.ok = t.ok /\ ~Posted(e) /\ Saved(e)
  BY <1>2, MessageFacts DEF Event, EventType, Posted, Saved, TaskType
<1>5. t2 \in TaskType /\ ~Unreported(t2)
  BY <1>2 DEF TaskType, Unreported
<1>6. Writers(ts) = {}
  <2>. DEFINE us == tasks[p]
  <2>1. Unreported(us[i]) /\ i \in DOMAIN us /\ LocalOK(u, us, ch) /\ ts = [us EXCEPT ![i] = t2]
        /\ u.phase = "running" /\ t2 \in TaskType
    BY <1>1, <1>2, <1>3, <1>5
  <2>. HIDE DEF us, u, ch, t2
  <2>2. Writers([us EXCEPT ![i] = t2]) = IF Unreported(t2) THEN {t2} ELSE {}
    BY <2>1, WriterMoves
  <2>. QED BY <1>5, <2>1, <2>2
<1>7. Held(u, {}, {t.ok}, J, r, Later(ch, a, u.handle), nm)
  <2>. DEFINE L == Later(ch, a, u.handle)
  <2>. HIDE DEF u, t, J, r, nm, L
  <2>. QED BY <1>1, <1>2, <1>3, SentKeeps
<1>8. /\ Done(ch2) <=> Done(ch)
      /\ Reports(ch2) = {t.ok}
      /\ \A h \in BOOLEAN : Later(ch2, a, h) \subseteq Later(ch, a, h)
  <2>. DEFINE k == t.ok
  <2>. HIDE DEF e, ch, t, a
  <2>1. \A h \in BOOLEAN :
          /\ Done(ch2) <=> Done(ch) \/ e.kind = "done"
          /\ Reports(ch2) = Reports(ch) \cup (IF Saved(e) THEN {e.ok} ELSE {})
          /\ Later(ch2, a, h) \subseteq Later(ch, a, h)
                                        \cup (IF Posted(e) THEN {e.hist} ELSE {})
    BY <1>3, <1>4, EventsAfter
  <2>. QED BY <1>2, <1>4, <2>1
<1>9. Held(u, {}, {t.ok}, J, r, Later(ch2, a, u.handle), nm)
  <2>1. u.handle \in BOOLEAN
    BY <1>2 DEF UiType
  <2>2. Later(ch2, a, u.handle) \subseteq Later(ch, a, u.handle)
    BY <1>8, <2>1
  <2>. DEFINE O == {t.ok}
              L == Later(ch, a, u.handle)
              L2 == Later(ch2, a, u.handle)
  <2>3. Held(u, {}, O, J, r, L, nm) /\ L2 \subseteq L
    BY <1>7, <2>2
  <2>. HIDE DEF O, L, L2, u, J, r, nm
  <2>4. Held(u, {}, O, J, r, L2, nm)
    BY <2>3, HeldFewer
  <2>. QED BY <2>4 DEF O, L2
<1>10. TurnOK(u, ch2, a, tn)
  <2>1. Chain(ch, a) => Chain(ch2, a)
    <3>1. /\ \A k \in DOMAIN ch : k \in Nat /\ k < Len(ch) + 1 /\ ch2[k] = ch[k]
          /\ ch2[Len(ch) + 1] = e
          /\ \A k \in DOMAIN ch2 : k \in DOMAIN ch \/ k = Len(ch) + 1
      BY <1>3, <1>4, AppendedEvent
    <3>2. \A k \in DOMAIN ch2 : Posted(ch2[k]) => k \in DOMAIN ch /\ ch2[k] = ch[k]
      BY <1>4, <3>1
    <3>. HIDE DEF ch2, ch, e
    <3>. QED BY <3>2 DEF Chain
  <2>2. u.handle => Later(ch2, a, TRUE) \subseteq Later(ch, a, TRUE)
    BY <1>8
  <2>. HIDE DEF ch2, ch, u, a, tn
  <2>. QED BY <1>2, <1>8, <2>1, <2>2 DEF TurnOK
<1>11. Keeps(u, Writers(ts), Reports(ch2), ch2, a, tn, FileOf(u, json), RoundsOf(u, rounds),
             nextMsg)
  <2>1. FileOf(u, json) = J /\ RoundsOf(u, rounds) = r
    BY <1>2, NamesAssumption DEF FileOf, RoundsOf
  <2>. QED BY <1>6, <1>8, <1>9, <1>10, <2>1 DEF Keeps
<1>12. /\ chan' = [chan EXCEPT ![p] = ch2] /\ tasks' = [tasks EXCEPT ![p] = ts]
       /\ UNCHANGED <<json, rounds, owner>> /\ nextMsg' = nextMsg
  BY DEF SendSaved, Reaches, files, budget
<1>13. /\ ui' = [ui EXCEPT ![p] = u] /\ agent' = [agent EXCEPT ![p] = a]
       /\ turn' = [turn EXCEPT ![p] = tn]
  BY Unchanged DEF SendSaved, SaveInv
<1>14. /\ Keeps(u, Writers(ts), Reports(ch2), ch2, a, tn, FileOf(u, json), RoundsOf(u, rounds),
                nextMsg')
       /\ nextMsg <= nextMsg' /\ u.sess = ui[p].sess
  BY <1>3, <1>11, <1>12
<1>. HIDE DEF u, ts, ch2, a, tn, ch, J, r, t, t2, e
<1>. QED BY <1>12, <1>13, <1>14, ProcessStays

LEMMA NotifyMoves ==
    ASSUME SaveInv, IInv', NEW p \in Proc, NEW i \in DOMAIN tasks[p], NotifyDone(p, i)
    PROVE  SaveInv'
<1>. DEFINE u == ui[p]
            J == FileOf(ui[p], json)
            r == RoundsOf(ui[p], rounds)
            ch == chan[p]
            a == agent[p]
            tn == turn[p]
            nm == nextMsg
            ts == RemoveAt(tasks[p], i)
            w == [ui[p] EXCEPT !.wait = "woken"]
<1>1. /\ u \in UiType /\ tasks[p] \in Seq(TaskType) /\ LocalOK(u, tasks[p], ch) /\ nm \in Nat
  BY OneStands
<1>2. u # DownUi
  <2>1. tasks[p] # << >>
    OBVIOUS
  <2>2. u.phase # "down"
    BY <1>1, <2>1 DEF LocalOK
  <2>. QED BY <2>2 DEF DownUi, FreshUi
<1>3. Keeps(u, Writers(tasks[p]), Reports(ch), ch, a, tn, J, r, nm)
  BY <1>2, OneStands
<1>4. Writers(ts) = Writers(tasks[p])
  <2>1. ~Unreported(tasks[p][i])
    BY DEF NotifyDone, Unreported
  <2>. QED BY <1>1, <2>1, WriterLeaves
<1>5. PICK v : /\ ui' = [ui EXCEPT ![p] = v] /\ v.sess = u.sess
               /\ Keeps(v, Writers(ts), Reports(ch), ch, a, tn, J, r, nm)
  <2>1. CASE ui' = [ui EXCEPT ![p].wait = "woken"]
    <3>1. ui' = [ui EXCEPT ![p] = w]
      BY <2>1
    <3>2. w.sess = u.sess /\ Keeps(w, Writers(tasks[p]), Reports(ch), ch, a, tn, J, r, nm)
      <4>. DEFINE U == Writers(tasks[p])
                  O == Reports(ch)
      <4>1. /\ w.phase = u.phase /\ w.sess = u.sess /\ w.mirror = u.mirror
            /\ w.handle = u.handle /\ w.cursor = u.cursor /\ w.inFlight = u.inFlight
            /\ w.pending = u.pending /\ w.pendingFull = u.pendingFull
        BY <1>1 DEF UiType
      <4>. HIDE DEF U, O, J, r, ch, a, tn, nm, w, u
      <4>. QED BY <1>1, <1>3, <4>1, WaitKeeps
    <3>. QED BY <1>4, <3>1, <3>2
  <2>2. CASE UNCHANGED ui
    <3>1. ui' = [ui EXCEPT ![p] = u]
      BY <2>2, Unchanged DEF SaveInv
    <3>. QED BY <1>3, <1>4, <3>1
  <2>. QED BY <2>1, <2>2 DEF NotifyDone
<1>6. FileOf(v, json) = J /\ RoundsOf(v, rounds) = r
  BY <1>5 DEF FileOf, RoundsOf
<1>7. tasks' = [tasks EXCEPT ![p] = ts] /\ UNCHANGED <<json, rounds, owner>>
      /\ nextMsg' = nextMsg
  BY DEF NotifyDone, files, budget
<1>8. /\ chan' = [chan EXCEPT ![p] = ch] /\ agent' = [agent EXCEPT ![p] = a]
      /\ turn' = [turn EXCEPT ![p] = tn]
  BY Unchanged DEF NotifyDone, SaveInv
<1>9. /\ Keeps(v, Writers(ts), Reports(ch), ch, a, tn, FileOf(v, json), RoundsOf(v, rounds),
               nextMsg')
      /\ nextMsg <= nextMsg' /\ v.sess = ui[p].sess
  BY <1>1, <1>5, <1>6, <1>7
<1>10. ui' = [ui EXCEPT ![p] = v]
  BY <1>5
<1>. HIDE DEF ts, ch, a, tn
<1>. QED BY <1>7, <1>8, <1>9, <1>10, ProcessStays

LEMMA SaveTaskKeeps ==
    ASSUME SaveInv, IInv', NEW p \in Proc, SaveTask(p)
    PROVE  SaveInv'
<1>. PICK i \in DOMAIN tasks[p] :
         \/ WriteJson(p, i) \/ RemoveRounds(p, i) \/ AppendRound(p, i)
         \/ SendSaved(p, i) \/ NotifyDone(p, i)
  BY DEF SaveTask
<1>. QED BY JsonMoves, RemovalMoves, AppendMoves, SendMoves, NotifyMoves

(***************************************************************************)
(* Crashes, new processes, and the whole system.                           *)
(***************************************************************************)
LEMMA CrashKeeps ==
    ASSUME SaveInv, IInv', NEW p \in Proc, Crash(p)
    PROVE  SaveInv'
<1>. DEFINE u == DownUi
            none == << >>
            a == Blank
            nm == nextMsg
<1>1. /\ owner \in [Session -> Proc \cup {NoProc}] /\ rounds \in [Session -> JournalType]
      /\ tasks[p] \in Seq(TaskType) /\ nm \in Nat
      /\ \A s \in Session : FileOK(json[s], rounds[s], nm)
  BY OneStands DEF SaveInv, IInv, SharedOK, FilesOK
<1>2. /\ ui' = [ui EXCEPT ![p] = u] /\ tasks' = [tasks EXCEPT ![p] = none]
      /\ chan' = [chan EXCEPT ![p] = none] /\ agent' = [agent EXCEPT ![p] = a]
      /\ turn' = [turn EXCEPT ![p] = "idle"]
  BY DEF Crash, Gone
<1>3. json' = json /\ nextMsg' = nextMsg /\ nextMsg <= nextMsg'
  BY <1>1 DEF Crash, budget
<1>4. \A s \in Session : owner'[s] = IF owner[s] = p THEN NoProc ELSE owner[s]
  BY DEF Crash, Releases
<1>5. \A s \in Session : /\ FileOK(json'[s], rounds'[s], nextMsg')
                         /\ owner[s] \in Proc \ {p} => rounds'[s] = rounds[s]
  <2>1. CASE UNCHANGED rounds
    BY <1>1, <1>3, <2>1
  <2>2. ASSUME NEW i \in DOMAIN tasks[p],
               tasks[p][i].kind = "append", tasks[p][i].stage = "write",
               NEW r2 \in TornJournals(tasks[p][i]),
               rounds' = [rounds EXCEPT ![tasks[p][i].sess] = r2]
        PROVE  \A s \in Session : /\ FileOK(json'[s], rounds'[s], nextMsg')
                                  /\ owner[s] \in Proc \ {p} => rounds'[s] = rounds[s]
    <3>. DEFINE t == tasks[p][i]
                z == ui[p].sess
    <3>1. Unreported(t)
      BY <2>2 DEF Unreported
    <3>2. z \in Session /\ t.sess = z
      BY <3>1, TaskStands
    <3>3. FileOK(json[z], r2, nm)
      BY <2>2, TornKeeps
    <3>4. owner[z] = p
      BY <3>2, NamesAssumption DEF SaveInv, OwnsOK
    <3>5. rounds'[z] = r2 /\ \A s \in Session : s # z => rounds'[s] = rounds[s]
      BY <1>1, <2>2, <3>2
    <3>. HIDE DEF z
    <3>. QED BY <1>1, <1>3, <3>3, <3>4, <3>5
  <2>. QED BY <2>1, <2>2 DEF Crash
<1>6. \A s \in Session : owner[s] \in Proc \ {p} =>
          owner'[s] = owner[s] /\ json'[s] = json[s] /\ rounds'[s] = rounds[s]
  BY <1>3, <1>4, <1>5
<1>7. \A s \in Session : FileOK(json'[s], rounds'[s], nextMsg')
  BY <1>5
<1>8. u.sess # NoSession => owner'[u.sess] = p
  BY DEF DownUi, FreshUi
<1>9. Stands(u, none, none, a, "idle", json', rounds', nextMsg')
  BY DEF Stands
<1>. HIDE DEF u, none, a
<1>. QED BY <1>2, <1>3, <1>6, <1>7, <1>8, <1>9, ProcessMoves

LEMMA NothingBegun ==
    /\ Writers(<< >>) = {} /\ Reports(<< >>) = {}
    /\ \A js : FileOf(FreshUi, js) = << >>
    /\ \A rs : RoundsOf(FreshUi, rs) = NoJournal
    /\ FreshUi.sess = NoSession
BY DEF Writers, Reports, FileOf, RoundsOf, FreshUi

LEMMA StartKeepsAll ==
    ASSUME SaveInv, IInv', NEW p \in Proc, Start(p)
    PROVE  SaveInv'
<1>. DEFINE u == FreshUi
            none == << >>
            a == Blank
<1>1. /\ tasks[p] = none /\ chan[p] = none /\ agent[p] = a /\ turn[p] = "idle"
      /\ ui[p].sess = NoSession /\ nextMsg \in Nat /\ nextMsg > Sys
  <2>1. ui[p].phase = "down" /\ LocalOK(ui[p], tasks[p], chan[p])
    BY OneStands DEF Start
  <2>2. ui[p] = DownUi /\ agent[p] = a /\ turn[p] = "idle" /\ nextMsg \in Nat /\ nextMsg > Sys
    BY <2>1, OneStands
  <2>. QED BY <2>1, <2>2 DEF LocalOK, DownUi, FreshUi
<1>2. ui' = [ui EXCEPT ![p] = u] /\ UNCHANGED <<json, rounds, owner>> /\ nextMsg' = nextMsg
  BY DEF Start, files
<1>3. /\ tasks' = [tasks EXCEPT ![p] = none] /\ chan' = [chan EXCEPT ![p] = none]
      /\ agent' = [agent EXCEPT ![p] = a] /\ turn' = [turn EXCEPT ![p] = "idle"]
  <2>1. /\ tasks' = [tasks EXCEPT ![p] = tasks[p]] /\ chan' = [chan EXCEPT ![p] = chan[p]]
        /\ agent' = [agent EXCEPT ![p] = agent[p]] /\ turn' = [turn EXCEPT ![p] = turn[p]]
    BY Unchanged DEF Start, SaveInv
  <2>. HIDE DEF none, a
  <2>. QED BY <1>1, <2>1
<1>4. Keeps(u, {}, {}, none, a, "idle", << >>, NoJournal, nextMsg)
  BY <1>1, FreshKeeps
<1>5. Keeps(u, Writers(none), Reports(none), none, a, "idle",
            FileOf(u, json), RoundsOf(u, rounds), nextMsg')
  BY <1>2, <1>4, NothingBegun
<1>6. u.sess = ui[p].sess /\ nextMsg <= nextMsg'
  BY <1>1, <1>2, NothingBegun
<1>. HIDE DEF u, none, a
<1>. QED BY <1>2, <1>3, <1>5, <1>6, ProcessStays

\* Nothing flushes in a process that never quits.
LEMMA FlushKeeps ==
    ASSUME SaveInv, NEW p \in Proc, Flush(p)
    PROVE  FALSE
<1>1. ui[p].phase \in {"running", "down"}
  BY OneStands DEF DownUi, FreshUi
<1>. QED BY <1>1 DEF Flush, FinalSave, AwaitSaves, AwaitWakes, Exit, ExitDone

LEMMA InitSaveInv == Allowed = {} /\ Init => SaveInv
<1>. SUFFICES ASSUME Allowed = {}, Init PROVE SaveInv
  OBVIOUS
<1>1. IInv
  BY InitIInv
<1>2. nextMsg \in Nat /\ nextMsg > Sys
  BY DEF Init, Sys
<1>3. OwnsOK
  BY NothingBegun DEF Init, OwnsOK
<1>4. FilesOK
  BY NoFile DEF Init, FilesOK
<1>5. ProcessesOK
  <2>1. Keeps(FreshUi, {}, {}, << >>, Blank, "idle", << >>, NoJournal, nextMsg)
    BY <1>2, FreshKeeps
  <2>2. Stands(FreshUi, << >>, << >>, Blank, "idle", json, rounds, nextMsg)
    BY <2>1, NothingBegun DEF Stands
  <2>. QED BY <2>2 DEF Init, ProcessesOK
<1>. QED BY <1>1, <1>2, <1>3, <1>4, <1>5 DEF SaveInv

LEMMA StepSaveInv == SaveInv /\ [Next]_vars => SaveInv'
<1>. SUFFICES ASSUME SaveInv, [Next]_vars PROVE SaveInv'
  OBVIOUS
<1>1. IInv'
  BY StepIInv DEF SaveInv
<1>2. CASE UNCHANGED vars
  BY <1>1, <1>2 DEF vars, SaveInv, OwnsOK, FilesOK, ProcessesOK
<1>3. CASE Next
  <2>. PICK p \in Proc :
          \/ AgentTask(p) \/ User(p) \/ HandleMessage(p)
          \/ SaveTask(p) \/ Flush(p) \/ Crash(p) \/ Start(p)
    BY <1>3 DEF Next
  <2>. QED BY <1>1, AgentTaskKeeps, UserKeeps, HandleMessageKeeps, SaveTaskKeeps, FlushKeeps,
              CrashKeeps, StartKeepsAll
<1>. QED BY <1>2, <1>3

\* What holds of a process whose saves have settled.
LEMMA SettledFacts ==
    ASSUME SaveInv, NEW p \in Proc, Settled(p), ui[p].sess # NoSession
    PROVE  LET u == ui[p]
               J == json[u.sess]
               r == rounds[u.sess]
           IN  /\ u.cursor.sess \in {NoSession, u.sess}
               /\ u.cursor.sess # NoSession => FilesAt(u.cursor, J, r)
               /\ u.cursor.sess # NoSession /\ (Unbroken \/ ~u.handle) =>
                      Recovered(J, r) = u.mirror
               /\ TurnOK(u, chan[p], agent[p], turn[p])
               /\ Proper(u.mirror)
<1>. DEFINE u == ui[p]
            J == json[u.sess]
            r == rounds[u.sess]
            U == Writers(tasks[p])
            O == Reports(chan[p])
<1>1. u.phase = "running" /\ u # DownUi
  BY DEF Settled, DownUi, FreshUi
<1>2. U = {} /\ O = {}
  BY DEF Settled, Writers, Reports, Unreported, Saved
<1>3. Keeps(u, U, O, chan[p], agent[p], turn[p], J, r, nextMsg) /\ Alone(u, U, O)
  <2>1. FileOf(u, json) = J /\ RoundsOf(u, rounds) = r
    BY DEF FileOf, RoundsOf
  <2>. QED BY <1>1, <2>1, OneStands
<1>4. /\ TurnOK(u, chan[p], agent[p], turn[p]) /\ BooksOK(u, U, O) /\ FilesKnown(u, U, O, J, r)
      /\ Exact(u, U, O, Recovered(J, r))
  BY <1>3 DEF Keeps, Held, Ready
<1>5. u.pending = NoSnapshot
  BY <1>2, <1>3, <1>4 DEF BooksOK, Alone
<1>. HIDE DEF u, J, r
<1>6. /\ u.cursor.sess # NoSession => FilesAt(u.cursor, J, r)
      /\ u.cursor.sess # NoSession /\ (Unbroken \/ ~u.handle) => Recovered(J, r) = u.mirror
  BY <1>2, <1>4, <1>5 DEF FilesKnown, Exact
<1>7. u.cursor.sess \in {NoSession, u.sess} /\ (u.sess # NoSession => Proper(u.mirror))
  BY <1>4 DEF BooksOK
<1>. QED BY <1>4, <1>6, <1>7 DEF u, J, r

LEMMA SaveInvCursor == SaveInv => CursorMatchesFiles
<1>. SUFFICES ASSUME SaveInv, NEW p \in Proc, Settled(p), ui[p].cursor.sess # NoSession
              PROVE  LET c == ui[p].cursor
                         h == Recovered(json[c.sess], rounds[c.sess])
                     IN  /\ c.base = Len(json[c.sess]) /\ c.baseAnchor = Anchor(json[c.sess])
                         /\ c.written = Len(h) /\ c.writtenAnchor = Anchor(h)
  BY DEF CursorMatchesFiles
<1>1. ui[p].sess # NoSession
  <2>1. ui[p].phase = "running" /\ ui[p] # DownUi
    BY DEF Settled, DownUi, FreshUi
  <2>. QED BY <2>1, OneStands DEF Keeps, Held, Ready, BooksOK
<1>2. /\ ui[p].cursor.sess = ui[p].sess
      /\ FilesAt(ui[p].cursor, json[ui[p].sess], rounds[ui[p].sess])
  BY <1>1, SettledFacts
<1>. QED BY <1>2 DEF FilesAt

LEMMA SaveInvAdopted == Unbroken /\ SaveInv => AdoptedRoundsSurvive
BY SettledFacts, NamesAssumption DEF AdoptedRoundsSurvive

LEMMA SaveInvQuiet == SaveInv => QuietMeansDurable
<1>. SUFFICES ASSUME SaveInv, NEW p \in Proc, Settled(p), chan[p] = << >>, turn[p] = "idle",
                     ui[p].sess # NoSession, ui[p].cursor.sess = ui[p].sess
              PROVE  Recovered(json[ui[p].sess], rounds[ui[p].sess]) = agent[p]
  BY DEF QuietMeansDurable
<1>1. TurnOK(ui[p], chan[p], agent[p], turn[p]) /\ Proper(ui[p].mirror)
  BY SettledFacts
<1>2. ~ui[p].handle
  <2>1. ~Done(chan[p])
    BY DEF Done
  <2>. QED BY <1>1, <2>1 DEF TurnOK
<1>3. ui[p].mirror = agent[p]
  BY <1>1, <1>2 DEF TurnOK, Proper
<1>. QED BY <1>2, <1>3, SettledFacts

LEMMA SaveInvOnce == SaveInv => NoMessageTwice
BY DEF SaveInv, FilesOK, FileOK, Good, NoMessageTwice

\* The invariant behind the four theorems below: whatever a process has waiting,
\* being written or reported (hrdr-tui app/session.rs: enqueue_save_as, spawn_save,
\* on_save_done), its files, cursor, mirror and agent stand to each other as Keeps says.
THEOREM SpecSaveInv ==
    ASSUME Allowed = {}
    PROVE  Spec => []SaveInv
<1>1. Init => SaveInv
  BY InitSaveInv
<1>. QED BY <1>1, StepSaveInv, PTL DEF Spec

\* When no save is outstanding the journal cursor names the lengths and the last
\* messages that are really on disk: planning the next round from it (plan_round in
\* hrdr-tui app/session.rs) never skips or repeats a message,
\* also after a failed write, a torn append, a crash and a restart.
THEOREM CursorIsRight ==
    ASSUME Allowed = {}
    PROVE  Spec => []CursorMatchesFiles
BY SpecSaveInv, SaveInvCursor, PTL

\* When no save is outstanding what the files replay to is the UI's mirror, so every
\* round persist_mid_turn (hrdr-tui app/session.rs) adopted survives.  A compaction
\* that gives one message for one is excluded: it leaves the length as it was,
\* plan_round takes it for an unchanged history, and the old head stays on disk
\* until the turn's full save.
THEOREM FilesHoldTheMirror ==
    ASSUME Allowed = {}, 1 \notin CompactHeads
    PROVE  Spec => []AdoptedRoundsSurvive
<1>1. SaveInv => AdoptedRoundsSurvive
  BY SaveInvAdopted DEF Unbroken
<1>. QED BY <1>1, SpecSaveInv, PTL

\* A process with no turn running and nothing unread or unsaved would lose nothing to
\* a crash: Session::load_path would give back exactly the agent's history.
THEOREM QuietIsDurable ==
    ASSUME Allowed = {}
    PROVE  Spec => []QuietMeansDurable
BY SpecSaveInv, SaveInvQuiet, PTL

\* Reading a session (hrdr-agent session.rs: load_path, whose replay_journal appends
\* the journal's rounds to the messages of the .json) never gives a message twice: a
\* journal left over by a full save, or torn by a crash, is recognised by its base.
THEOREM JournalsReplayOnce ==
    ASSUME Allowed = {}
    PROVE  Spec => []NoMessageTwice
BY SpecSaveInv, SaveInvOnce, PTL

(***************************************************************************)
(* A lone process implements LatestWins.                                   *)
(***************************************************************************)

\* What is being written is told by the tasks that have yet to report.
LEMMA WritingIs ==
    ASSUME NEW ts
    PROVE  /\ (\A t \in Writers(ts) : t.stage # "write") => BeingWritten(ts) = NoSnapshot
           /\ \A t : Writers(ts) = {t} /\ t.stage = "write" => BeingWritten(ts) = t.snap
           /\ \A ts2 : Writers(ts2) = Writers(ts) => BeingWritten(ts2) = BeingWritten(ts)
<1>. DEFINE W(s) == {t \in Writers(s) : t.stage = "write"}
            V(s) == {s[i] : i \in {j \in DOMAIN s : s[j].stage = "write"}}
<1>1. \A s : V(s) = W(s)
  BY DEF Writers, Unreported
<1>2. \A s : BeingWritten(s) = IF V(s) = {} THEN NoSnapshot ELSE (CHOOSE t \in V(s) : TRUE).snap
  BY DEF BeingWritten
<1>. HIDE DEF V
<1>3. \A s : BeingWritten(s) = IF W(s) = {} THEN NoSnapshot ELSE (CHOOSE t \in W(s) : TRUE).snap
  BY <1>1, <1>2
<1>4. ASSUME NEW t, Writers(ts) = {t}, t.stage = "write"
      PROVE  BeingWritten(ts) = t.snap
  <2>1. W(ts) = {t}
    BY <1>4
  <2>. QED BY <1>3, <2>1
<1>. QED BY <1>3, <1>4

\* Nothing LatestWins knows of has changed.
LEMMA AbstractStays ==
    ASSUME NEW p \in Proc, p = TheProc,
           \A s \in Session : Recovered(json'[s], rounds'[s]) = Recovered(json[s], rounds[s]),
           BeingWritten(tasks'[p]) = BeingWritten(tasks[p]),
           ui'[p].sess = ui[p].sess, ui'[p].pending = ui[p].pending,
           ui'[p].inFlight = ui[p].inFlight
    PROVE  UNCHANGED Coalescer!vars
BY DEF Coalescer!vars

\* A handler that keeps the files, what is being written and what waits.
LEMMA AbstractSwitches ==
    ASSUME NEW p \in Proc, p = TheProc, UNCHANGED <<json, rounds>>,
           BeingWritten(tasks'[p]) = BeingWritten(tasks[p]),
           ui'[p].sess \in Session \cup {NoSession}, ui'[p].pending = ui[p].pending,
           ui'[p].inFlight = ui[p].inFlight
    PROVE  Coalescer!Switch
BY DEF Coalescer!Switch

LEMMA RunningStands ==
    ASSUME SaveInv, NEW p \in Proc, ui[p].phase = "running"
    PROVE  /\ ui[p] \in UiType /\ tasks[p] \in Seq(TaskType) /\ chan[p] \in Seq(EventType)
           /\ UiOK(ui[p]) /\ LocalOK(ui[p], tasks[p], chan[p])
           /\ Alone(ui[p], Writers(tasks[p]), Reports(chan[p]))
           /\ Keeps(ui[p], Writers(tasks[p]), Reports(chan[p]), chan[p], agent[p], turn[p],
                    FileOf(ui[p], json), RoundsOf(ui[p], rounds), nextMsg)
<1>1. ui[p] # DownUi
  BY DEF DownUi, FreshUi
<1>. QED BY <1>1, OneStands DEF LocalOK

LEMMA Committed ==
    ASSUME SaveInv, NEW p \in Proc, NEW o, Commits(p, o)
    PROVE  ui'[p] = o.ui /\ tasks'[p] = tasks[p] \o o.spawned
BY DEF SaveInv, IInv, PipelinesOK, Commits

\* A process that commits a state and spawns nothing.
LEMMA CommittedAlone ==
    ASSUME SaveInv, NEW p \in Proc, NEW v, Commits(p, Outcome(v, << >>))
    PROVE  ui'[p] = v /\ tasks'[p] = tasks[p]
<1>1. tasks[p] \in Seq(TaskType)
  BY OneStands
<1>2. ui'[p] = Outcome(v, << >>).ui /\ tasks'[p] = tasks[p] \o Outcome(v, << >>).spawned
  BY Committed
<1>. QED BY <1>1, <1>2, ConcatEmptySeq DEF Outcome

\* SpawnSave writes the snapshot it is given, unless there is nothing to add.
LEMMA SpawnOutcome ==
    ASSUME NEW v \in UiType, v.sess \in Session, NEW snap \in SnapshotType, snap.sess = v.sess,
           NEW full \in BOOLEAN, NEW o, o = SpawnSave(v, snap, full)
    PROVE  /\ o.ui.sess = v.sess /\ o.ui.pending = v.pending
           /\ \/ /\ \E t : o.spawned = <<t>> /\ NewTask(t) /\ t.snap = snap
                 /\ o.ui.inFlight = TRUE
              \/ /\ CanAppend(v.cursor, v.sess, snap.hist)
                 /\ Len(snap.hist) = v.cursor.written
                 /\ o.ui.inFlight = v.inFlight /\ o.spawned = << >>
<1>. DEFINE c == v.cursor
            h == snap.hist
<1>1. CASE ~full /\ CanAppend(c, v.sess, h) /\ Len(h) = c.written
  <2>1. o = Outcome([v EXCEPT !.pendingFull = FALSE], << >>)
    BY <1>1 DEF SpawnSave, SpawnRound
  <2>. QED BY <1>1, <2>1 DEF Outcome, UiType
<1>2. CASE ~full /\ CanAppend(c, v.sess, h) /\ Len(h) # c.written
  <2>1. o = Outcome([v EXCEPT !.inFlight = TRUE, !.cursor.written = Len(h),
                              !.cursor.writtenAnchor = Anchor(h)], <<AppendTask(snap, c)>>)
    BY <1>2 DEF SpawnSave, SpawnRound
  <2>2. NewTask(AppendTask(snap, c)) /\ AppendTask(snap, c).snap = snap
    <3>1. c \in CursorType /\ c.sess = v.sess
      BY <1>2 DEF UiType, CanAppend
    <3>2. AppendTask(snap, c).snap = snap
      BY DEF AppendTask
    <3>. HIDE DEF c
    <3>. QED BY <3>1, <3>2, AppendTaskIsNew
  <2>3. o.spawned = <<AppendTask(snap, c)>>
    BY <2>1 DEF Outcome
  <2>4. o.ui.sess = v.sess /\ o.ui.pending = v.pending /\ o.ui.inFlight = TRUE
    <3>. DEFINE w == [v EXCEPT !.inFlight = TRUE, !.cursor.written = Len(h),
                               !.cursor.writtenAnchor = Anchor(h)]
    <3>1. o.ui = w
      BY <2>1 DEF Outcome
    <3>2. w.sess = v.sess /\ w.pending = v.pending /\ w.inFlight = TRUE
      BY DEF UiType
    <3>. HIDE DEF w
    <3>. QED BY <3>1, <3>2
  <2>. QED BY <2>2, <2>3, <2>4
<1>3. CASE ~(~full /\ CanAppend(c, v.sess, h))
  <2>1. o = Outcome([v EXCEPT !.inFlight = TRUE, !.cursor = AfterFullSave(v.sess, h)],
                    <<FullTask(snap, v.sess)>>)
    BY <1>3 DEF SpawnSave
  <2>2. NewTask(FullTask(snap, v.sess)) /\ FullTask(snap, v.sess).snap = snap
    BY FullTaskIsNew DEF FullTask
  <2>3. o.spawned = <<FullTask(snap, v.sess)>>
    BY <2>1 DEF Outcome
  <2>4. o.ui.sess = v.sess /\ o.ui.pending = v.pending /\ o.ui.inFlight = TRUE
    <3>. DEFINE w == [v EXCEPT !.inFlight = TRUE, !.cursor = AfterFullSave(v.sess, h)]
    <3>1. o.ui = w
      BY <2>1 DEF Outcome
    <3>2. w.sess = v.sess /\ w.pending = v.pending /\ w.inFlight = TRUE
      BY DEF UiType
    <3>. HIDE DEF w
    <3>. QED BY <3>1, <3>2
  <2>. QED BY <2>2, <2>3, <2>4
<1>. QED BY <1>1, <1>2, <1>3

\* The task just spawned is the one that writes.
LEMMA SpawnedWrites ==
    ASSUME SaveInv, NEW p \in Proc, Writers(tasks[p]) = {}, NEW t, NewTask(t)
    PROVE  /\ BeingWritten(tasks[p]) = NoSnapshot
           /\ BeingWritten(tasks[p] \o <<t>>) = t.snap
<1>. DEFINE o == Outcome(Blank, <<t>>)
<1>1. o.spawned = <<t>> /\ Spawns(o) = {t}
  BY SpawnsOf DEF Outcome
<1>2. /\ tasks[p] \in Seq(TaskType)
      /\ \A i \in DOMAIN tasks[p] : tasks[p][i].snap.sess = tasks[p][i].sess
  BY OneStands DEF LocalOK
<1>. HIDE DEF o
<1>3. Writers(tasks[p] \o o.spawned) = Writers(tasks[p]) \cup Spawns(o)
  BY <1>1, <1>2, WritersSpawned
<1>4. Writers(tasks[p] \o <<t>>) = {t}
  BY <1>1, <1>3
<1>. QED BY <1>4, WritingIs DEF NewTask

\* A snapshot is handed in.
LEMMA EnqueueRequests ==
    ASSUME SaveInv, NEW p \in Proc, p = TheProc, ui[p].phase = "running",
           NEW v \in UiType, v.inFlight = ui[p].inFlight, v.pending = ui[p].pending,
           v.sess \in Session, NEW full \in BOOLEAN,
           Commits(p, EnqueueSave(v, full)), UNCHANGED <<json, rounds>>
    PROVE  Coalescer!Request \/ Coalescer!Switch
<1>. DEFINE o == EnqueueSave(v, full)
            snap == Snapshot(v.sess, v.mirror)
<1>1. ui'[p] = o.ui /\ tasks'[p] = tasks[p] \o o.spawned
  BY Committed
<1>2. snap \in SnapshotType /\ snap.sess = v.sess /\ snap \in [sess : {v.sess}, hist : History]
  BY DEF Snapshot, SnapshotType, UiType
<1>3. CASE v.inFlight
  <2>1. o = Outcome([v EXCEPT !.pending = snap, !.pendingFull = @ \/ full], << >>)
    BY <1>3 DEF EnqueueSave
  <2>2. ui'[p] = [v EXCEPT !.pending = snap, !.pendingFull = @ \/ full] /\ tasks'[p] = tasks[p]
    BY <2>1, CommittedAlone
  <2>3. ui'[p].pending = snap /\ ui'[p].inFlight = ui[p].inFlight /\ ui'[p].sess = v.sess
    BY <2>2 DEF UiType
  <2>. HIDE DEF snap, o
  <2>4. Coalescer!Request
    BY <1>2, <1>3, <2>2, <2>3 DEF Coalescer!Request, Coalescer!Snapshots
  <2>. QED BY <2>4
<1>4. CASE ~v.inFlight
  <2>1. o = SpawnSave(v, snap, full)
    BY <1>4 DEF EnqueueSave
  <2>2. Writers(tasks[p]) = {}
    BY <1>4, RunningStands DEF Alone
  <2>. HIDE DEF o, snap
  <2>s. /\ snap \in SnapshotType /\ snap.sess = v.sess /\ v \in UiType /\ v.sess \in Session
        /\ full \in BOOLEAN
    BY <1>2
  <2>3. /\ o.ui.sess = v.sess /\ o.ui.pending = v.pending
        /\ \/ /\ \E t : o.spawned = <<t>> /\ NewTask(t) /\ t.snap = snap
              /\ o.ui.inFlight = TRUE
           \/ /\ CanAppend(v.cursor, v.sess, snap.hist)
              /\ Len(snap.hist) = v.cursor.written
              /\ o.ui.inFlight = v.inFlight /\ o.spawned = << >>
    <3>1. \A x : x = SpawnSave(v, snap, full) =>
             /\ x.ui.sess = v.sess /\ x.ui.pending = v.pending
             /\ \/ /\ \E t : x.spawned = <<t>> /\ NewTask(t) /\ t.snap = snap
                   /\ x.ui.inFlight = TRUE
                \/ /\ CanAppend(v.cursor, v.sess, snap.hist)
                   /\ Len(snap.hist) = v.cursor.written
                   /\ x.ui.inFlight = v.inFlight /\ x.spawned = << >>
      BY <2>s, SpawnOutcome
    <3>. QED BY <2>1, <3>1
  <2>4. CASE o.ui.inFlight = v.inFlight /\ o.spawned = << >>
    <3>1. tasks'[p] = tasks[p]
      BY <1>1, <2>4, ConcatEmptySeq, OneStands
    <3>. QED BY <1>1, <2>3, <2>4, <3>1, AbstractSwitches
  <2>5. ASSUME NEW t, o.spawned = <<t>>, NewTask(t), t.snap = snap, o.ui.inFlight = TRUE
        PROVE  Coalescer!Request
    <3>1. BeingWritten(tasks'[p]) = snap
      BY <1>1, <2>2, <2>5, SpawnedWrites
    <3>. QED BY <1>1, <1>2, <1>4, <2>3, <2>5, <3>1
             DEF Coalescer!Request, Coalescer!Snapshots
  <2>. QED BY <2>3, <2>4, <2>5
<1>5. v.inFlight \in BOOLEAN
  BY DEF UiType
<1>. QED BY <1>3, <1>4

\* The outcome of a save is taken, and what waits is written next.
LEMMA SavedAcknowledges ==
    ASSUME SaveInv, Unbroken, NEW p \in Proc, p = TheProc, ui[p].phase = "running",
           chan[p] # << >>, Saved(Head(chan[p])), HandleSaved(p, Head(chan[p]))
    PROVE  Coalescer!Acknowledge
<1>. DEFINE u == ui[p]
            ok == Head(chan[p]).ok
            v == [ui[p] EXCEPT !.inFlight = FALSE,
                               !.cursor = IF ok THEN ui[p].cursor ELSE NoCursor,
                               !.pending = NoSnapshot, !.pendingFull = FALSE]
            J == FileOf(ui[p], json)
            r == RoundsOf(ui[p], rounds)
            R == Recovered(J, r)
<1>1. /\ u \in UiType /\ UiOK(u) /\ tasks[p] \in Seq(TaskType)
      /\ J \in History /\ r \in JournalType /\ FileOK(J, r, nextMsg) /\ nextMsg \in Nat
  BY RunningStands, OneStands
<1>2. ok \in Reports(chan[p]) /\ ok \in BOOLEAN
  <2>1. chan[p] \in Seq(EventType)
    BY RunningStands
  <2>2. 1 \in DOMAIN chan[p] /\ chan[p][1] = Head(chan[p]) /\ Head(chan[p]) \in EventType
    BY <2>1, TailOfChannel
  <2>. QED BY <2>2 DEF Reports, EventType
<1>3. /\ Alone(u, Writers(tasks[p]), Reports(chan[p]))
      /\ Held(u, Writers(tasks[p]), Reports(chan[p]), J, r,
              Later(chan[p], agent[p], u.handle), nextMsg)
  BY RunningStands DEF Keeps
<1>4. /\ Writers(tasks[p]) = {} /\ Reports(chan[p]) = {ok} /\ u.inFlight
  <2>1. chan[p] \in Seq(EventType) /\ LocalOK(u, tasks[p], chan[p])
    BY RunningStands
  <2>2. \A i, j \in DOMAIN chan[p] : Saved(chan[p][i]) /\ Saved(chan[p][j]) => i = j
    BY <2>1 DEF LocalOK, Accounted
  <2>3. 1 \in DOMAIN chan[p] /\ chan[p][1] = Head(chan[p])
    BY <2>1, TailOfChannel
  <2>4. Reports(chan[p]) = {ok}
    BY <2>2, <2>3 DEF Reports
  <2>. QED BY <1>2, <1>3, <2>4 DEF Alone
<1>5. /\ v \in UiType /\ v.sess = u.sess /\ v.pending = NoSnapshot /\ v.inFlight = FALSE
      /\ v.cursor = IF ok THEN u.cursor ELSE NoCursor
  <2>1. /\ v = [u EXCEPT !.inFlight = FALSE, !.cursor = IF ok THEN u.cursor ELSE NoCursor,
                        !.pending = NoSnapshot, !.pendingFull = FALSE]
        /\ u \in UiType
    BY <1>1
  <2>. HIDE DEF u, v, ok
  <2>. QED BY <2>1, NoneTypes DEF UiType
<1>6. UNCHANGED <<json, rounds>> /\ Commits(p, OnSaveDone(u, ok))
  BY DEF HandleSaved, files
<1>7. OnSaveDone(u, ok) = IF u.pending # NoSnapshot /\ u.pending.sess = u.sess
                          THEN SpawnSave(v, u.pending, u.pendingFull)
                          ELSE Outcome(v, << >>)
  <2>. DEFINE w == [ui[p] EXCEPT !.inFlight = FALSE,
                                 !.cursor = IF ok THEN ui[p].cursor ELSE NoCursor]
  <2>1. /\ w.pending = u.pending /\ w.sess = u.sess /\ w.pendingFull = u.pendingFull
        /\ [w EXCEPT !.pending = NoSnapshot, !.pendingFull = FALSE] = v
    BY <1>1, NoneTypes DEF UiType
  <2>2. OnSaveDone(u, ok) = PromotePendingSave(w)
    BY DEF OnSaveDone
  <2>. HIDE DEF w, v
  <2>. QED BY <2>1, <2>2 DEF PromotePendingSave
<1>8. BeingWritten(tasks[p]) = NoSnapshot
  BY <1>4, WritingIs
<1>. HIDE DEF v, J, r
<1>9. ASSUME ui'[p].sess = u.sess, ui'[p].pending = NoSnapshot, ui'[p].inFlight = FALSE,
             tasks'[p] = tasks[p],
             \/ u.pending = NoSnapshot \/ u.pending.sess # u.sess
             \/ Recovered(json[u.sess], rounds[u.sess]) = u.pending.hist /\ u.sess \in Session
                /\ u.pending.sess = u.sess
      PROVE  Coalescer!Acknowledge
  BY <1>4, <1>6, <1>8, <1>9
     DEF Coalescer!Acknowledge, Coalescer!None, Coalescer!Snap, Coalescer!IsStored,
         NoSnapshot, Snapshot
<1>10. CASE ~(u.pending # NoSnapshot /\ u.pending.sess = u.sess)
  <2>1. ui'[p] = v /\ tasks'[p] = tasks[p]
    BY <1>6, <1>7, <1>10, CommittedAlone
  <2>. QED BY <1>5, <1>9, <1>10, <2>1
<1>11. CASE u.pending # NoSnapshot /\ u.pending.sess = u.sess
  <2>. DEFINE o == SpawnSave(v, u.pending, u.pendingFull)
  <2>1. u.pending = Snapshot(u.sess, u.mirror)
    BY <1>3, <1>11 DEF Held
  <2>2. u.sess \in Session /\ u.pending \in SnapshotType /\ u.pendingFull \in BOOLEAN
    BY <1>1, <1>11 DEF UiOK, UiType
  <2>3. ui'[p] = o.ui /\ tasks'[p] = tasks[p] \o o.spawned
    BY <1>6, <1>7, <1>11, Committed
  <2>4. /\ o.ui.sess = u.sess /\ o.ui.pending = NoSnapshot
        /\ \/ /\ \E t : o.spawned = <<t>> /\ NewTask(t) /\ t.snap = u.pending
              /\ o.ui.inFlight = TRUE
           \/ /\ CanAppend(v.cursor, v.sess, u.pending.hist)
              /\ Len(u.pending.hist) = v.cursor.written
              /\ o.ui.inFlight = FALSE /\ o.spawned = << >>
    <3>1. /\ v \in UiType /\ v.sess \in Session /\ u.pending \in SnapshotType
          /\ u.pending.sess = v.sess /\ u.pendingFull \in BOOLEAN
      BY <1>5, <1>11, <2>2
    <3>2. \A x : x = SpawnSave(v, u.pending, u.pendingFull) =>
             /\ x.ui.sess = v.sess /\ x.ui.pending = v.pending
             /\ \/ /\ \E t : x.spawned = <<t>> /\ NewTask(t) /\ t.snap = u.pending
                   /\ x.ui.inFlight = TRUE
                \/ /\ CanAppend(v.cursor, v.sess, u.pending.hist)
                   /\ Len(u.pending.hist) = v.cursor.written
                   /\ x.ui.inFlight = v.inFlight /\ x.spawned = << >>
      BY <3>1, SpawnOutcome
    <3>. QED BY <1>5, <3>2
  <2>5. ASSUME NEW t, o.spawned = <<t>>, NewTask(t), t.snap = u.pending, o.ui.inFlight = TRUE
        PROVE  Coalescer!Acknowledge
    <3>1. BeingWritten(tasks'[p]) = u.pending
      BY <1>4, <2>3, <2>5, SpawnedWrites
    <3>. HIDE DEF o
    <3>. QED BY <1>4, <1>6, <1>8, <1>11, <2>3, <2>4, <2>5, <3>1
             DEF Coalescer!Acknowledge, Coalescer!None, Coalescer!Snap, NoSnapshot, Snapshot
  <2>6. ASSUME CanAppend(v.cursor, v.sess, u.pending.hist),
               Len(u.pending.hist) = v.cursor.written,
               o.ui.inFlight = FALSE, o.spawned = << >>
        PROVE  Coalescer!Acknowledge
    <3>. DEFINE m == u.mirror
    <3>1. u.pending.hist = m /\ m \in History
      BY <1>1, <2>1 DEF Snapshot, UiType
    <3>2. ok /\ v.cursor = u.cursor /\ u.cursor.sess = u.sess
      <4>1. v.cursor.sess = u.sess
        BY <1>5, <2>6 DEF CanAppend
      <4>2. NoCursor.sess = NoSession /\ u.sess # NoSession
        BY <2>2, NamesAssumption DEF NoCursor, Cursor
      <4>. QED BY <1>5, <4>1, <4>2
    <3>3. J = json[u.sess] /\ r = rounds[u.sess] /\ u.sess # NoSession
      BY <2>2, NamesAssumption DEF J, r, FileOf, RoundsOf
    <3>4. FilesAt(u.cursor, J, r)
      BY <1>3, <1>4, <3>2, <3>3 DEF Held, Ready, FilesKnown
    <3>5. Good(R, nextMsg) /\ Good(m, nextMsg) /\ Follows(R, m) /\ R \in History
      BY <1>1, <1>3 DEF Held, Ready, Ordered, FileOK, Good
    <3>6. R # << >>
      BY <1>1, <3>4, RecoveredNotEmpty DEF FilesAt
    <3>7. Len(m) = Len(R) /\ Anchor(Upto(m, Len(R))) = Anchor(R)
      BY <2>6, <3>1, <3>2, <3>4 DEF FilesAt, CanAppend
    <3>8. R = m
      <4>. HIDE DEF R, m, u
      <4>. QED BY <1>1, <3>1, <3>5, <3>6, <3>7, SamePlace
    <3>9. /\ ui'[p].sess = u.sess /\ ui'[p].pending = NoSnapshot /\ ui'[p].inFlight = FALSE
          /\ tasks'[p] = tasks[p]
      <4>1. tasks'[p] = tasks[p]
        BY <1>1, <2>3, <2>6, ConcatEmptySeq
      <4>. QED BY <2>3, <2>4, <2>6, <4>1
    <3>. QED BY <1>9, <1>11, <2>2, <3>1, <3>3, <3>8, <3>9
  <2>. QED BY <2>4, <2>5, <2>6
<1>. QED BY <1>10, <1>11

\* What the UI writes itself is a first snapshot.
LEMMA FirstSaveStores ==
    ASSUME SaveInv, NEW p \in Proc, p = TheProc,
           NEW v \in UiType, v.inFlight = ui[p].inFlight, v.pending = ui[p].pending,
           NEW s \in Session, FirstSave(p, v, s)
    PROVE  Coalescer!StoreFirst
<1>. DEFINE w == [v EXCEPT !.sess = s, !.cursor = AfterFullSave(s, v.mirror)]
            stored(js, rs) == [z \in Session |-> Recovered(js[z], rs[z])]
<1>1. ui'[p] = w /\ tasks'[p] = tasks[p]
  <2>1. Commits(p, Outcome(w, << >>))
    BY DEF FirstSave
  <2>. HIDE DEF w
  <2>. QED BY <2>1, CommittedAlone
<1>2. w.sess = s /\ w.pending = ui[p].pending /\ w.inFlight = ui[p].inFlight
  BY DEF UiType
<1>3. /\ json[s] = << >> /\ rounds[s] = NoJournal
      /\ json'[s] = v.mirror /\ rounds'[s] = NoJournal
      /\ \A z \in Session : z # s => json'[z] = json[z] /\ rounds'[z] = rounds[z]
  BY DEF FirstSave, Unminted, SaveInv, IInv, SharedOK, FilesOK, FileOK
<1>4. Recovered(json[s], rounds[s]) = << >> /\ Recovered(json'[s], rounds'[s]) = v.mirror
  BY <1>3, NoFile DEF Recovered, Extends, NoJournal
<1>5. v.mirror \in History
  BY DEF UiType
<1>. HIDE DEF w
<1>6. stored(json', rounds') = [stored(json, rounds) EXCEPT ![s] = v.mirror]
  BY <1>3, <1>4
<1>. QED BY <1>1, <1>2, <1>4, <1>5, <1>6 DEF Coalescer!StoreFirst

\* A mirror is saved.
LEMMA PersistImplements ==
    ASSUME SaveInv, NEW p \in Proc, p = TheProc, ui[p].phase = "running",
           NEW v \in UiType, v.inFlight = ui[p].inFlight, v.pending = ui[p].pending,
           v.sess = ui[p].sess, NEW full \in BOOLEAN, Persist(p, v, full)
    PROVE  Coalescer!Next \/ UNCHANGED Coalescer!vars
<1>1. CASE v.sess # NoSession
  <2>1. v.sess \in Session
    BY <1>1 DEF UiType
  <2>2. Commits(p, EnqueueSave(v, full)) /\ UNCHANGED <<json, rounds>>
    BY <1>1 DEF Persist, files
  <2>. QED BY <2>1, <2>2, EnqueueRequests DEF Coalescer!Next
<1>2. ASSUME NEW s \in Session, FirstSave(p, v, s)
      PROVE  Coalescer!Next
  BY <1>2, FirstSaveStores DEF Coalescer!Next
<1>3. CASE Commits(p, Outcome(v, << >>)) /\ UNCHANGED <<files, owner>>
  <2>1. ui'[p] = v /\ tasks'[p] = tasks[p] /\ UNCHANGED <<json, rounds>>
    BY <1>3, CommittedAlone DEF files
  <2>. QED BY <2>1, AbstractStays
<1>. QED BY <1>1, <1>2, <1>3 DEF Persist

\* A handler that leaves the UI's books and the files.
LEMMA HandlerStays ==
    ASSUME SaveInv, NEW p \in Proc, p = TheProc, NEW v,
           v.sess = ui[p].sess, v.pending = ui[p].pending, v.inFlight = ui[p].inFlight,
           Commits(p, Outcome(v, << >>)), UNCHANGED <<json, rounds>>
    PROVE  UNCHANGED Coalescer!vars
<1>1. ui'[p] = v /\ tasks'[p] = tasks[p]
  BY CommittedAlone
<1>. QED BY <1>1, AbstractStays

LEMMA HandleMessageImplements ==
    ASSUME SaveInv, Unbroken, NEW p \in Proc, p = TheProc, HandleMessage(p)
    PROVE  Coalescer!Next \/ UNCHANGED Coalescer!vars
<1>. DEFINE e == Head(chan[p])
<1>1. /\ ui[p].phase = "running" /\ chan[p] # << >>
      /\ \/ e.kind = "history" /\ HandleHistory(p, e)
         \/ e.kind = "done" /\ HandleDone(p)
         \/ e.kind = "saved" /\ HandleSaved(p, e)
  BY DEF HandleMessage
<1>2. /\ ui[p] \in UiType /\ chan[p] \in Seq(EventType) /\ agent[p] \in History
  BY OneStands
<1>3. e \in EventType
  BY <1>1, <1>2, TailOfChannel
<1>4. CASE e.kind = "history" /\ HandleHistory(p, e)
  <2>1. CASE TurnLive(p)
    <3>. DEFINE v == [ui[p] EXCEPT !.mirror = Adopted(ui[p].mirror, e.hist)]
    <3>1. Persist(p, v, FALSE)
      BY <1>4, <2>1 DEF HandleHistory
    <3>2. /\ v \in UiType /\ v.pending = ui[p].pending
          /\ v.inFlight = ui[p].inFlight /\ v.sess = ui[p].sess
      <4>1. Adopted(ui[p].mirror, e.hist) \in History
        BY <1>2, <1>3, AdoptedType DEF UiType, EventType
      <4>. QED BY <1>2, <4>1 DEF UiType
    <3>. HIDE DEF v
    <3>. QED BY <1>1, <3>1, <3>2, PersistImplements
  <2>2. CASE ~TurnLive(p)
    BY <1>4, <2>2, HandlerStays DEF HandleHistory, files
  <2>. QED BY <2>1, <2>2
<1>5. CASE e.kind = "done" /\ HandleDone(p)
  <2>1. CASE TurnLive(p)
    <3>. DEFINE w == [ui[p] EXCEPT !.handle = FALSE]
                v == [w EXCEPT !.mirror = agent[p]]
    <3>1. Autosave(p, w, AgentFree(p))
      BY <1>5, <2>1 DEF HandleDone
    <3>2. /\ v \in UiType /\ v.pending = ui[p].pending
          /\ v.inFlight = ui[p].inFlight /\ v.sess = ui[p].sess
          /\ w.pending = ui[p].pending
          /\ w.inFlight = ui[p].inFlight /\ w.sess = ui[p].sess
      BY <1>2 DEF UiType
    <3>. HIDE DEF w
    <3>3. CASE AgentFree(p)
      <4>1. Persist(p, v, TRUE)
        BY <3>1, <3>3 DEF Autosave
      <4>. HIDE DEF v
      <4>. QED BY <1>1, <3>2, <4>1, PersistImplements
    <3>4. CASE ~AgentFree(p)
      BY <3>1, <3>2, <3>4, HandlerStays DEF Autosave, files
    <3>. QED BY <3>3, <3>4
  <2>2. CASE ~TurnLive(p)
    BY <1>5, <2>2, HandlerStays DEF HandleDone, files
  <2>. QED BY <2>1, <2>2
<1>6. CASE e.kind = "saved" /\ HandleSaved(p, e)
  BY <1>1, <1>6, SavedAcknowledges DEF Saved, Coalescer!Next
<1>. QED BY <1>1, <1>4, <1>5, <1>6

LEMMA SubmitImplements ==
    ASSUME SaveInv, NEW p \in Proc, p = TheProc, Submit(p)
    PROVE  Coalescer!Next \/ UNCHANGED Coalescer!vars
<1>. DEFINE u == [ui[p] EXCEPT !.handle = TRUE]
            m == Append(ui[p].mirror, nextMsg)
<1>1. ui[p] \in UiType /\ ui[p].phase = "running" /\ UNCHANGED <<json, rounds>>
  BY OneStands DEF Submit, MaySubmit, Accepts, files
<1>2. u \in UiType /\ u.sess = ui[p].sess /\ u.pending = ui[p].pending
      /\ u.inFlight = ui[p].inFlight /\ u.mirror = ui[p].mirror
  BY <1>1 DEF UiType
<1>3. m \in History
  <2>1. nextMsg \in Message
    BY NextMessage DEF SaveInv, Submit
  <2>. QED BY <1>1, <2>1, HistoryGrows DEF UiType
<1>4. CASE Commits(p, Outcome(u, << >>))
  <2>. HIDE DEF u
  <2>. QED BY <1>1, <1>2, <1>4, HandlerStays
<1>5. ASSUME NEW s \in Session,
             Commits(p, EnqueueSave([u EXCEPT !.sess = s, !.mirror = m], TRUE))
      PROVE  Coalescer!Next
  <2>. DEFINE v == [u EXCEPT !.sess = s, !.mirror = m]
  <2>. HIDE DEF u
  <2>1. v \in UiType /\ v.sess \in Session /\ v.pending = ui[p].pending
        /\ v.inFlight = ui[p].inFlight
    BY <1>2, <1>3 DEF UiType
  <2>2. Commits(p, EnqueueSave(v, TRUE))
    BY <1>5
  <2>. HIDE DEF v
  <2>. QED BY <1>1, <2>1, <2>2, EnqueueRequests DEF Coalescer!Next
<1>6. \/ Commits(p, Outcome(u, << >>))
      \/ \E s \in Session : Commits(p, EnqueueSave([u EXCEPT !.sess = s, !.mirror = m], TRUE))
  <2>1. \/ Commits(p, Outcome(u, << >>))
        \/ \E s \in Session : Commits(p, EnqueueSave([u EXCEPT !.sess = s,
                                             !.mirror = Append(u.mirror, nextMsg)], TRUE))
    BY DEF Submit
  <2>. QED BY <1>2, <2>1
<1>. QED BY <1>4, <1>5, <1>6

LEMMA UserImplements ==
    ASSUME SaveInv, NEW p \in Proc, p = TheProc, User(p)
    PROVE  Coalescer!Next \/ UNCHANGED Coalescer!vars
<1>1. /\ ui[p] \in UiType /\ Allowed = {} /\ agent[p] \in History
      /\ ui \in [Proc -> UiType]
  BY OneStands DEF SaveInv, IInv, PipelinesOK
<1>2. CASE SubmitHidden(p)
  <2>1. ui'[p] = [ui[p] EXCEPT !.handle = TRUE] /\ UNCHANGED <<json, rounds, tasks>>
    BY <1>1, <1>2 DEF SubmitHidden, files
  <2>2. /\ ui'[p].sess = ui[p].sess /\ ui'[p].pending = ui[p].pending
        /\ ui'[p].inFlight = ui[p].inFlight
    BY <1>1, <2>1 DEF UiType
  <2>. QED BY <2>1, <2>2, AbstractStays
<1>3. CASE Cancel(p)
  <2>. DEFINE w == [ui[p] EXCEPT !.handle = FALSE]
              v == [w EXCEPT !.mirror = agent[p]]
  <2>1. PICK free \in {TRUE, "abortLag" \notin Allowed} : Autosave(p, w, free)
    BY <1>3 DEF Cancel, CancelTurn
  <2>2. free
    BY <1>1
  <2>3. /\ v \in UiType /\ v.pending = ui[p].pending
        /\ v.inFlight = ui[p].inFlight /\ v.sess = ui[p].sess
    BY <1>1 DEF UiType
  <2>. HIDE DEF w
  <2>4. Persist(p, v, TRUE)
    BY <2>1, <2>2 DEF Autosave
  <2>. HIDE DEF v
  <2>. QED BY <1>3, <2>3, <2>4, PersistImplements DEF Cancel, Accepts
<1>4. ASSUME NEW s \in Session, Resume(p, s)
      PROVE  Coalescer!Next
  <2>1. ui'[p] = [ui[p] EXCEPT !.sess = s, !.mirror = Recovered(json[s], rounds[s])]
        /\ UNCHANGED <<json, rounds, tasks>>
    BY <1>1, <1>4 DEF Resume, files
  <2>2. /\ ui'[p].sess = s /\ ui'[p].pending = ui[p].pending
        /\ ui'[p].inFlight = ui[p].inFlight
    BY <1>1, <2>1 DEF UiType
  <2>. QED BY <2>1, <2>2, AbstractSwitches DEF Coalescer!Next
<1>5. ~ClearAll(p) /\ ~Quit(p)
  BY <1>1 DEF ClearAll, MayLeave, Quit
<1>. QED BY <1>2, <1>3, <1>4, <1>5, SubmitImplements DEF User

\* Once the task that had still to write or to report has moved on, nothing is
\* being written.
LEMMA WriterLetsGo ==
    ASSUME SaveInv, NEW p \in Proc, NEW i \in DOMAIN tasks[p], Unreported(tasks[p][i]),
           NEW t2 \in TaskType, t2.stage # "write",
           tasks' = [tasks EXCEPT ![p] = [tasks[p] EXCEPT ![i] = t2]]
    PROVE  /\ Writers(tasks[p]) = {tasks[p][i]} /\ BeingWritten(tasks'[p]) = NoSnapshot
           /\ tasks[p][i].snap.sess = ui[p].sess /\ ui[p].sess \in Session
<1>. DEFINE ts == tasks[p]
            u == ui[p]
            ch == chan[p]
            ts2 == [ts EXCEPT ![i] = t2]
<1>1. u.phase = "running" /\ u.sess \in Session /\ ts[i].sess = u.sess /\ Writers(ts) = {ts[i]}
  BY TaskStands
<1>2. LocalOK(u, ts, ch) /\ ts[i].snap.sess = ts[i].sess
  BY OneStands DEF LocalOK
<1>3. tasks'[p] = ts2
  BY DEF SaveInv, IInv, PipelinesOK
<1>4. Writers(ts2) = IF Unreported(t2) THEN {t2} ELSE {}
  <2>1. i \in DOMAIN ts /\ Unreported(ts[i])
    OBVIOUS
  <2>. HIDE DEF ts, u, ch
  <2>. QED BY <1>1, <1>2, <2>1, WriterMoves
<1>5. BeingWritten(tasks'[p]) = NoSnapshot
  <2>. HIDE DEF ts2
  <2>. QED BY <1>3, <1>4, WritingIs
<1>. QED BY <1>1, <1>2, <1>5

LEMMA WriterWrites ==
    ASSUME SaveInv, NEW p \in Proc, NEW i \in DOMAIN tasks[p], tasks[p][i].stage = "write",
           NEW t2 \in TaskType, t2.stage # "write",
           tasks' = [tasks EXCEPT ![p] = [tasks[p] EXCEPT ![i] = t2]]
    PROVE  /\ BeingWritten(tasks[p]) = tasks[p][i].snap
           /\ BeingWritten(tasks'[p]) = NoSnapshot
           /\ tasks[p][i].snap.sess = ui[p].sess /\ ui[p].sess \in Session
<1>1. Unreported(tasks[p][i])
  BY DEF Unreported
<1>2. /\ Writers(tasks[p]) = {tasks[p][i]} /\ BeingWritten(tasks'[p]) = NoSnapshot
      /\ tasks[p][i].snap.sess = ui[p].sess /\ ui[p].sess \in Session
  BY <1>1, WriterLetsGo
<1>. QED BY <1>2, WritingIs

\* A task that has written goes on: nothing is being written before or after.
LEMMA WrittenGoesOn ==
    ASSUME SaveInv, NEW p \in Proc, NEW i \in DOMAIN tasks[p],
           tasks[p][i].stage \in {"clean", "send"},
           NEW t2 \in TaskType, t2.stage \in {"send", "notify"},
           tasks' = [tasks EXCEPT ![p] = [tasks[p] EXCEPT ![i] = t2]]
    PROVE  BeingWritten(tasks'[p]) = BeingWritten(tasks[p])
<1>1. Unreported(tasks[p][i]) /\ t2.stage # "write"
  BY DEF Unreported
<1>2. Writers(tasks[p]) = {tasks[p][i]} /\ BeingWritten(tasks'[p]) = NoSnapshot
  BY <1>1, WriterLetsGo
<1>3. BeingWritten(tasks[p]) = NoSnapshot
  BY <1>2, WritingIs
<1>. QED BY <1>2, <1>3

\* The one write under way lands.
LEMMA WriteLands ==
    ASSUME NEW p \in Proc, p = TheProc, NEW snap, snap.sess \in Session,
           BeingWritten(tasks[p]) = snap, BeingWritten(tasks'[p]) = NoSnapshot, ui' = ui,
           Recovered(json'[snap.sess], rounds'[snap.sess]) = snap.hist,
           \A s \in Session \ {snap.sess} : json'[s] = json[s] /\ rounds'[s] = rounds[s]
    PROVE  Coalescer!Land
<1>. DEFINE stored(js, rs) == [z \in Session |-> Recovered(js[z], rs[z])]
<1>1. snap # NoSnapshot
  BY NamesAssumption DEF NoSnapshot, Snapshot
<1>2. stored(json', rounds') = [stored(json, rounds) EXCEPT ![snap.sess] = snap.hist]
  OBVIOUS
<1>. QED BY <1>1, <1>2 DEF Coalescer!Land, Coalescer!None, Coalescer!Snap, NoSnapshot, Snapshot

\* The one write under way fails.
LEMMA WriteFails ==
    ASSUME NEW p \in Proc, p = TheProc, NEW snap, snap.sess \in Session,
           BeingWritten(tasks[p]) = snap, BeingWritten(tasks'[p]) = NoSnapshot, ui' = ui,
           \A s \in Session : Recovered(json'[s], rounds'[s]) = Recovered(json[s], rounds[s])
    PROVE  Coalescer!Fail
<1>1. snap # NoSnapshot
  BY NamesAssumption DEF NoSnapshot, Snapshot
<1>. QED BY <1>1 DEF Coalescer!Fail, Coalescer!None, Coalescer!Snap, NoSnapshot, Snapshot

LEMMA JsonImplements ==
    ASSUME SaveInv, NEW p \in Proc, p = TheProc, NEW i \in DOMAIN tasks[p], WriteJson(p, i)
    PROVE  Coalescer!Land \/ Coalescer!Fail
<1>. DEFINE t == tasks[p][i]
            z == ui[p].sess
<1>1. t.kind = "full" /\ t.stage = "write" /\ ui' = ui /\ rounds' = rounds
  BY DEF WriteJson
<1>2. /\ t \in TaskType /\ t.sess = z /\ z \in Session
      /\ rounds[z] \in JournalType /\ TaskFits(ui[p], t, json[z], rounds[z])
      /\ Ordered(Recovered(json[z], rounds[z]), rounds[z], Hists({t}), ui[p].mirror,
                 Later(chan[p], agent[p], ui[p].handle), nextMsg)
  <2>1. Unreported(t)
    BY <1>1 DEF Unreported
  <2>. QED BY <2>1, TaskStands DEF Held, Ready
<1>3. /\ nextMsg \in Nat /\ json \in [Session -> History] /\ tasks \in [Proc -> Seq(TaskType)]
  BY OneStands DEF SaveInv, IInv, SharedOK, PipelinesOK
<1>4. CASE json' = [json EXCEPT ![t.sess] = t.snap.hist] /\ Reaches(p, i, "clean")
  <2>. DEFINE t2 == [t EXCEPT !.stage = "clean"]
  <2>1. t2 \in TaskType /\ t2.stage # "write"
    BY <1>2 DEF TaskType
  <2>2. tasks' = [tasks EXCEPT ![p] = [tasks[p] EXCEPT ![i] = t2]]
    BY <1>4 DEF Reaches
  <2>. HIDE DEF t2
  <2>3. /\ BeingWritten(tasks[p]) = t.snap /\ BeingWritten(tasks'[p]) = NoSnapshot
        /\ t.snap.sess = z
    BY <1>1, <2>1, <2>2, WriterWrites
  <2>4. Recovered(t.snap.hist, rounds[z]) = t.snap.hist
    <3>1. Good(t.snap.hist, nextMsg) /\ Under(rounds[z], t.snap.hist, nextMsg)
      BY <1>2, HistsOf DEF Ordered
    <3>2. Proper(t.snap.hist)
      BY <1>2 DEF TaskFits
    <3>. DEFINE r == rounds[z]
                h == t.snap.hist
                nm == nextMsg
    <3>3. r \in JournalType /\ nm \in Nat /\ Good(h, nm) /\ Under(r, h, nm) /\ Proper(h)
      BY <1>2, <1>3, <3>1, <3>2
    <3>. HIDE DEF r, h, nm
    <3>4. Recovered(h, r) = h
      BY <3>3, FileReplaced
    <3>. QED BY <3>4 DEF r, h
  <2>5. /\ json'[z] = t.snap.hist /\ rounds'[z] = rounds[z]
        /\ \A s \in Session \ {z} : json'[s] = json[s] /\ rounds'[s] = rounds[s]
    BY <1>1, <1>2, <1>3, <1>4
  <2>. DEFINE snap == t.snap
  <2>6. /\ snap.sess \in Session /\ snap.sess = z
        /\ BeingWritten(tasks[p]) = snap
        /\ Recovered(json'[snap.sess], rounds'[snap.sess]) = snap.hist
    BY <1>2, <2>3, <2>4, <2>5
  <2>. HIDE DEF snap, t, z
  <2>. QED BY <1>1, <2>3, <2>5, <2>6, WriteLands
<1>5. CASE Fails(p, i) /\ UNCHANGED json
  <2>. DEFINE t2 == [t EXCEPT !.stage = "send", !.ok = FALSE]
  <2>1. t2 \in TaskType /\ t2.stage # "write"
    BY <1>2 DEF TaskType
  <2>2. tasks' = [tasks EXCEPT ![p] = [tasks[p] EXCEPT ![i] = t2]]
    BY <1>2, <1>3, <1>5 DEF Fails
  <2>. HIDE DEF t2
  <2>3. /\ BeingWritten(tasks[p]) = t.snap /\ BeingWritten(tasks'[p]) = NoSnapshot
        /\ t.snap.sess = z
    BY <1>1, <2>1, <2>2, WriterWrites
  <2>. QED BY <1>1, <1>2, <1>5, <2>3, WriteFails
<1>. QED BY <1>4, <1>5 DEF WriteJson

LEMMA RemovalImplements ==
    ASSUME SaveInv, NEW p \in Proc, p = TheProc, NEW i \in DOMAIN tasks[p],
           RemoveRounds(p, i)
    PROVE  UNCHANGED Coalescer!vars
<1>. DEFINE t == tasks[p][i]
            t2 == [t EXCEPT !.stage = "send"]
            z == ui[p].sess
<1>1. /\ t.kind = "full" /\ t.stage = "clean" /\ UNCHANGED <<json, ui>>
      /\ Reaches(p, i, "send")
  BY DEF RemoveRounds
<1>2. /\ t \in TaskType /\ t.sess = z /\ z \in Session
      /\ rounds[z] \in JournalType /\ TaskFits(ui[p], t, json[z], rounds[z])
      /\ Ordered(Recovered(json[z], rounds[z]), rounds[z], Hists({t}), ui[p].mirror,
                 Later(chan[p], agent[p], ui[p].handle), nextMsg)
  <2>1. Unreported(t)
    BY <1>1 DEF Unreported
  <2>. QED BY <2>1, TaskStands DEF Held, Ready
<1>3. nextMsg \in Nat /\ rounds \in [Session -> JournalType]
  BY OneStands DEF SaveInv, IInv, SharedOK
<1>4. Recovered(json[z], rounds[z]) = json[z] /\ Recovered(json[z], NoJournal) = json[z]
  <2>. DEFINE r == rounds[z]
              h == t.snap.hist
              nm == nextMsg
  <2>1. /\ r \in JournalType /\ nm \in Nat /\ Good(h, nm) /\ Under(r, h, nm) /\ Proper(h)
        /\ json[z] = h
    BY <1>1, <1>2, <1>3, HistsOf DEF Ordered, TaskFits
  <2>. HIDE DEF r, h, nm
  <2>2. Recovered(h, r) = h
    BY <2>1, FileReplaced
  <2>3. Recovered(h, NoJournal) = h
    BY DEF Recovered, Extends, NoJournal
  <2>. QED BY <2>1, <2>2, <2>3 DEF r
<1>5. \A s \in Session : Recovered(json'[s], rounds'[s]) = Recovered(json[s], rounds[s])
  <2>1. \A s \in Session : \/ rounds'[s] = rounds[s]
                           \/ s = z /\ rounds'[s] = NoJournal
    BY <1>2, <1>3 DEF RemoveRounds
  <2>. QED BY <1>1, <1>4, <2>1
<1>6. t2 \in TaskType /\ t2.stage = "send"
  BY <1>2 DEF TaskType
<1>7. tasks' = [tasks EXCEPT ![p] = [tasks[p] EXCEPT ![i] = t2]]
  BY <1>1 DEF Reaches
<1>8. BeingWritten(tasks'[p]) = BeingWritten(tasks[p])
  <2>. HIDE DEF t2
  <2>. QED BY <1>1, <1>6, <1>7, WrittenGoesOn
<1>. QED BY <1>1, <1>5, <1>8, AbstractStays

LEMMA AppendImplements ==
    ASSUME SaveInv, Unbroken, NEW p \in Proc, p = TheProc, NEW i \in DOMAIN tasks[p],
           AppendRound(p, i)
    PROVE  Coalescer!Land \/ Coalescer!Fail
<1>. DEFINE t == tasks[p][i]
            z == ui[p].sess
            J == json[z]
            r == rounds[z]
            R == Recovered(J, r)
            h == t.snap.hist
            nm == nextMsg
<1>1. t.kind = "append" /\ t.stage = "write" /\ UNCHANGED <<json, ui>>
  BY DEF AppendRound
<1>2. /\ t \in TaskType /\ t.sess = z /\ z \in Session
      /\ J \in History /\ r \in JournalType /\ FileOK(J, r, nm) /\ TaskFits(ui[p], t, J, r)
      /\ Ordered(R, r, Hists({t}), ui[p].mirror,
                 Later(chan[p], agent[p], ui[p].handle), nm)
  <2>1. Unreported(t)
    BY <1>1 DEF Unreported
  <2>. QED BY <2>1, TaskStands DEF Held, Ready
<1>3. nm \in Nat /\ rounds \in [Session -> JournalType] /\ tasks \in [Proc -> Seq(TaskType)]
  BY OneStands DEF SaveInv, IInv, SharedOK, PipelinesOK
<1>4. CASE rounds' = [rounds EXCEPT ![t.sess] = AppendedJournal(t)] /\ Reaches(p, i, "send")
  <2>. DEFINE t2 == [t EXCEPT !.stage = "send"]
              r2 == RoundsAfter(J, r, h)
  <2>1. t2 \in TaskType /\ t2.stage # "write"
    BY <1>2 DEF TaskType
  <2>2. tasks' = [tasks EXCEPT ![p] = [tasks[p] EXCEPT ![i] = t2]]
    BY <1>4 DEF Reaches
  <2>3. /\ Proper(h) /\ J # << >> /\ (R # J => r.open /\ ~r.torn)
        /\ t.base = Len(J) /\ t.baseAnchor = Anchor(J)
        /\ Len(R) < Len(h) /\ Anchor(Upto(h, Len(R))) = Anchor(R)
        /\ t.tail = From(h, Len(R)) /\ t.fresh = (R = J)
    BY <1>1, <1>2 DEF TaskFits
  <2>4. AppendedJournal(t) = r2
    BY <1>2, <2>3 DEF AppendedJournal, RoundsAfter
  <2>5. Good(R, nm) /\ Good(h, nm) /\ Follows(R, h) /\ Under(r, h, nm)
    BY <1>2, HistsOf DEF Ordered, FileOK
  <2>6. Recovered(J, r2) = h
    <3>. HIDE DEF J, r, h, nm
    <3>1. Recovered(J, r2) = Adopted(R, h)
      BY <1>2, <1>3, <2>3, <2>5, RoundAppended
    <3>2. Adopted(R, h) = h
      <4>. HIDE DEF R
      <4>. QED BY <1>3, <2>5, AdoptedFits
    <3>. QED BY <3>1, <3>2
  <2>. HIDE DEF t2
  <2>7. /\ BeingWritten(tasks[p]) = t.snap /\ BeingWritten(tasks'[p]) = NoSnapshot
        /\ t.snap.sess = z
    BY <1>1, <2>1, <2>2, WriterWrites
  <2>8. /\ json'[z] = J /\ rounds'[z] = r2
        /\ \A s \in Session \ {z} : json'[s] = json[s] /\ rounds'[s] = rounds[s]
    <3>. HIDE DEF r2
    <3>. QED BY <1>1, <1>2, <1>3, <1>4, <2>4
  <2>. DEFINE snap == t.snap
  <2>9. /\ snap.sess \in Session /\ snap.sess = z
        /\ BeingWritten(tasks[p]) = snap
        /\ Recovered(json'[snap.sess], rounds'[snap.sess]) = snap.hist
    <3>. HIDE DEF r2, J, r
    <3>. QED BY <1>2, <2>6, <2>7, <2>8
  <2>. HIDE DEF snap, t, z, r2
  <2>. QED BY <1>1, <2>7, <2>8, <2>9, WriteLands
<1>5. ASSUME Fails(p, i),
             \A s \in Session : Recovered(json'[s], rounds'[s]) = Recovered(json[s], rounds[s])
      PROVE  Coalescer!Fail
  <2>. DEFINE t2 == [t EXCEPT !.stage = "send", !.ok = FALSE]
  <2>1. t2 \in TaskType /\ t2.stage # "write"
    BY <1>2 DEF TaskType
  <2>2. tasks' = [tasks EXCEPT ![p] = [tasks[p] EXCEPT ![i] = t2]]
    BY <1>2, <1>3, <1>5 DEF Fails
  <2>. HIDE DEF t2
  <2>3. /\ BeingWritten(tasks[p]) = t.snap /\ BeingWritten(tasks'[p]) = NoSnapshot
        /\ t.snap.sess = z
    BY <1>1, <2>1, <2>2, WriterWrites
  <2>. QED BY <1>1, <1>2, <1>5, <2>3, WriteFails
<1>6. ASSUME NEW r2 \in TornJournals(t) \cup {rounds[t.sess]},
             rounds' = [rounds EXCEPT ![t.sess] = r2]
      PROVE  \A s \in Session : Recovered(json'[s], rounds'[s]) = Recovered(json[s], rounds[s])
  <2>1. Recovered(J, r2) = R
    <3>1. CASE r2 \in TornJournals(t)
      BY <1>1, <3>1, TornKeeps
    <3>2. CASE r2 = r
      BY <3>2
    <3>. QED BY <1>2, <1>6, <3>1, <3>2
  <2>2. rounds'[z] = r2 /\ \A s \in Session \ {z} : rounds'[s] = rounds[s]
    BY <1>2, <1>3, <1>6
  <2>. QED BY <1>1, <2>1, <2>2
<1>. QED BY <1>1, <1>4, <1>5, <1>6 DEF AppendRound

LEMMA SaveTaskImplements ==
    ASSUME SaveInv, Unbroken, NEW p \in Proc, p = TheProc, SaveTask(p)
    PROVE  Coalescer!Next \/ UNCHANGED Coalescer!vars
<1>. PICK i \in DOMAIN tasks[p] :
         \/ WriteJson(p, i) \/ RemoveRounds(p, i) \/ AppendRound(p, i)
         \/ SendSaved(p, i) \/ NotifyDone(p, i)
  BY DEF SaveTask
<1>. DEFINE t == tasks[p][i]
<1>1. /\ tasks[p] \in Seq(TaskType) /\ tasks \in [Proc -> Seq(TaskType)]
      /\ ui[p] \in UiType /\ ui \in [Proc -> UiType]
  BY OneStands DEF SaveInv, IInv, PipelinesOK
<1>2. t \in TaskType
  BY <1>1, LenProperties, ElementOfSeq
<1>3. CASE SendSaved(p, i)
  <2>. DEFINE t2 == [t EXCEPT !.stage = "notify"]
  <2>1. t2 \in TaskType /\ t2.stage = "notify"
    BY <1>2 DEF TaskType
  <2>2. /\ t.stage = "send" /\ UNCHANGED <<json, rounds, ui>>
        /\ tasks' = [tasks EXCEPT ![p] = [tasks[p] EXCEPT ![i] = t2]]
    BY <1>3 DEF SendSaved, Reaches, files
  <2>. HIDE DEF t2
  <2>3. BeingWritten(tasks'[p]) = BeingWritten(tasks[p])
    BY <2>1, <2>2, WrittenGoesOn
  <2>. QED BY <2>2, <2>3, AbstractStays
<1>4. CASE NotifyDone(p, i)
  <2>1. ~Unreported(tasks[p][i])
    BY <1>4 DEF NotifyDone, Unreported
  <2>2. Writers(RemoveAt(tasks[p], i)) = Writers(tasks[p])
    BY <1>1, <2>1, WriterLeaves
  <2>3. tasks'[p] = RemoveAt(tasks[p], i) /\ UNCHANGED <<json, rounds>>
    BY <1>1, <1>4 DEF NotifyDone, files
  <2>4. BeingWritten(tasks'[p]) = BeingWritten(tasks[p])
    BY <2>2, <2>3, WritingIs
  <2>5. /\ ui'[p].sess = ui[p].sess /\ ui'[p].pending = ui[p].pending
        /\ ui'[p].inFlight = ui[p].inFlight
    BY <1>1, <1>4 DEF NotifyDone, UiType
  <2>. QED BY <2>3, <2>4, <2>5, AbstractStays
<1>. QED BY <1>3, <1>4, JsonImplements, RemovalImplements, AppendImplements DEF Coalescer!Next

\* A crash loses the snapshots that are not stored, and nothing else.
LEMMA CrashLoses ==
    ASSUME SaveInv, NEW p \in Proc, p = TheProc, Crash(p)
    PROVE  Coalescer!Lose
<1>1. /\ ui'[p] = DownUi /\ tasks'[p] = << >> /\ json' = json
  BY DEF Crash, Gone, SaveInv, IInv, PipelinesOK
<1>2. BeingWritten(tasks'[p]) = NoSnapshot
  BY <1>1, WritingIs, NothingBegun
<1>3. DownUi.sess = NoSession /\ DownUi.pending = NoSnapshot /\ DownUi.inFlight = FALSE
  BY DEF DownUi, FreshUi
<1>4. \A s \in Session : Recovered(json'[s], rounds'[s]) = Recovered(json[s], rounds[s])
  <2>1. CASE UNCHANGED rounds
    BY <1>1, <2>1
  <2>2. ASSUME NEW i \in DOMAIN tasks[p],
               tasks[p][i].kind = "append", tasks[p][i].stage = "write",
               NEW r2 \in TornJournals(tasks[p][i]),
               rounds' = [rounds EXCEPT ![tasks[p][i].sess] = r2]
        PROVE  \A s \in Session : Recovered(json'[s], rounds'[s]) = Recovered(json[s], rounds[s])
    <3>. DEFINE t == tasks[p][i]
                z == ui[p].sess
    <3>1. Unreported(t)
      BY <2>2 DEF Unreported
    <3>2. z \in Session /\ t.sess = z
      BY <3>1, TaskStands
    <3>3. Recovered(json[z], r2) = Recovered(json[z], rounds[z])
      BY <2>2, TornKeeps
    <3>4. rounds'[z] = r2 /\ \A s \in Session : s # z => rounds'[s] = rounds[s]
      BY <2>2, <3>2 DEF SaveInv, IInv, SharedOK
    <3>. HIDE DEF z
    <3>. QED BY <1>1, <3>3, <3>4
  <2>. QED BY <2>1, <2>2 DEF Crash
<1>. QED BY <1>1, <1>2, <1>3, <1>4
         DEF Coalescer!Lose, Coalescer!None, Coalescer!Snap, NoSnapshot, Snapshot

LEMMA StartImplements ==
    ASSUME SaveInv, NEW p \in Proc, p = TheProc, Start(p)
    PROVE  UNCHANGED Coalescer!vars
<1>1. ui'[p] = FreshUi /\ UNCHANGED <<json, rounds, tasks>>
  BY DEF Start, files, SaveInv, IInv, PipelinesOK
<1>2. ui[p] = DownUi
  BY OneStands DEF Start
<1>3. /\ DownUi.sess = FreshUi.sess /\ DownUi.pending = FreshUi.pending
      /\ DownUi.inFlight = FreshUi.inFlight
  BY DEF DownUi, FreshUi
<1>. QED BY <1>1, <1>2, <1>3, AbstractStays

LEMMA AgentImplements ==
    ASSUME NEW p \in Proc, p = TheProc, AgentTask(p)
    PROVE  UNCHANGED Coalescer!vars
<1>1. UNCHANGED <<json, rounds, ui, tasks>>
  BY DEF AgentTask, AgentRound, AgentNote, AgentCompact, TurnEnds, AbortLands, files
<1>. QED BY <1>1, AbstractStays

LEMMA InitImplements ==
    ASSUME Init, TheProc \in Proc
    PROVE  Coalescer!Init
<1>. DEFINE stored(js, rs) == [z \in Session |-> Recovered(js[z], rs[z])]
<1>1. stored(json, rounds) = [s \in Session |-> << >>]
  BY NoFile DEF Init
<1>2. tasks[TheProc] = << >> /\ ui[TheProc] = FreshUi
  BY DEF Init
<1>3. BeingWritten(tasks[TheProc]) = NoSnapshot
  BY <1>2, WritingIs, NothingBegun
<1>4. FreshUi.sess = NoSession /\ FreshUi.pending = NoSnapshot /\ FreshUi.inFlight = FALSE
  BY DEF FreshUi
<1>. QED BY <1>1, <1>2, <1>3, <1>4
         DEF Coalescer!Init, Coalescer!None, Coalescer!Snap, NoSnapshot, Snapshot

LEMMA StepImplements ==
    ASSUME SaveInv, Unbroken, Proc = {TheProc}, [Next]_vars
    PROVE  Coalescer!Next \/ UNCHANGED Coalescer!vars
<1>1. CASE UNCHANGED vars
  BY <1>1, AbstractStays DEF vars
<1>2. CASE Next
  <2>. DEFINE p == TheProc
  <2>1. p \in Proc /\ p = TheProc
    OBVIOUS
  <2>2. \/ AgentTask(p) \/ User(p) \/ HandleMessage(p)
        \/ SaveTask(p) \/ Flush(p) \/ Crash(p) \/ Start(p)
    BY <1>2 DEF Next
  <2>. HIDE DEF p
  <2>. QED BY <2>1, <2>2, AgentImplements, UserImplements, HandleMessageImplements,
              SaveTaskImplements, FlushKeeps, CrashLoses, StartImplements DEF Coalescer!Next
<1>. QED BY <1>1, <1>2

\* What enqueue_save and on_save_done of hrdr-tui app/session.rs do with their journal,
\* cursor and tasks is what LatestWins does with whole snapshots.
THEOREM WritesLatest ==
    ASSUME Allowed = {}, 1 \notin CompactHeads, NEW q, Proc = {q}
    PROVE  Spec => ImplementsLatestWins
<1>1. Proc = {TheProc} /\ Unbroken
  BY DEF TheProc, Unbroken
<1>2. Init => Coalescer!Init
  BY <1>1, InitImplements
<1>3. SaveInv /\ [Next]_vars => [Coalescer!Next]_(Coalescer!vars)
  BY <1>1, StepImplements
<1>4. Spec => []SaveInv
  BY SpecSaveInv
<1>. QED BY <1>2, <1>3, <1>4, PTL DEF Spec, ImplementsLatestWins, Coalescer!Spec

(***************************************************************************)
(* What is on disk never goes back: what a step leaves in a session's      *)
(* files follows what was there, and so is not older.                      *)
(***************************************************************************)

\* A bounded set of naturals that is not empty has a greatest element: if it had
\* none, every natural would have a greater one in it.
LEMMA GreatestExists ==
    ASSUME NEW n \in Nat, NEW S \in SUBSET (0..n), S # {}
    PROVE  \E x \in S : \A y \in S : x >= y
<1>. SUFFICES ASSUME \A x \in S : \E y \in S : y > x PROVE FALSE
  OBVIOUS
<1>. DEFINE T == {k \in Nat : \E y \in S : y >= k}
<1>1. 0 \in T
  <2>1. PICK y : y \in S
    OBVIOUS
  <2>. QED BY <2>1
<1>2. ASSUME NEW k \in Nat, k \in T PROVE k + 1 \in T
  <2>1. PICK y \in S : y >= k
    BY <1>2
  <2>2. PICK z \in S : z > y
    BY <2>1
  <2>. QED BY <2>1, <2>2
<1>3. Nat \subseteq T
  <2>. HIDE DEF T
  <2>. QED BY <1>1, <1>2, NatSetInd
<1>4. PICK y \in S : y >= n + 1
  <2>1. n + 1 \in Nat
    OBVIOUS
  <2>. QED BY <1>3, <2>1
<1>. QED BY <1>4

LEMMA NewestIs ==
    ASSUME NEW h \in History, h # << >>
    PROVE  /\ \E i \in DOMAIN h : Newest(h) = h[i]
           /\ \A i \in DOMAIN h : h[i] <= Newest(h)
<1>. DEFINE S == ToSet(h)
<1>1. /\ Len(h) \in Nat /\ Len(h) # 0 /\ DOMAIN h = 1..Len(h)
      /\ \A i \in DOMAIN h : h[i] \in Message
  BY HistoryFacts
<1>2. S = {h[i] : i \in DOMAIN h}
  BY DEF ToSet
<1>3. MaxMsg \in Nat /\ S \in SUBSET (0..MaxMsg) /\ S # {}
  <2>1. 1 \in DOMAIN h
    BY <1>1
  <2>. QED BY <1>1, <1>2, <2>1, MessageFacts, BoundsAssumption DEF Message
<1>. HIDE DEF S
<1>4. \E x \in S : \A y \in S : x >= y
  BY <1>3, GreatestExists
<1>5. Newest(h) = Max(S)
  BY DEF Newest, S
<1>6. Max(S) \in S /\ \A y \in S : Max(S) >= y
  BY <1>4 DEF Max
<1>7. \A i \in DOMAIN h : h[i] \in S
  BY <1>2
<1>8. \A y \in S : y \in Nat
  BY <1>3
<1>. QED BY <1>2, <1>5, <1>6, <1>7, <1>8

LEMMA NewestGrows ==
    ASSUME NEW g \in History, NEW h \in History, NotOlder(g, h)
    PROVE  Newest(g) <= Newest(h)
<1>1. /\ \A i \in DOMAIN g : g[i] \in Nat
      /\ \A i \in DOMAIN h : h[i] \in Nat
      /\ DOMAIN << >> = {}
  BY HistoryFacts
<1>2. CASE g = << >>
  <2>1. Newest(h) \in Nat
    <3>1. CASE h = << >>
      BY <3>1 DEF Newest
    <3>2. CASE h # << >>
      BY <1>1, <3>2, NewestIs
    <3>. QED BY <3>1, <3>2
  <2>2. Newest(g) = 0
    BY <1>2 DEF Newest
  <2>. QED BY <2>1, <2>2
<1>3. CASE g # << >>
  <2>1. PICK i \in DOMAIN g : Newest(g) = g[i]
    BY <1>3, NewestIs
  <2>2. PICK j \in DOMAIN h : g[i] <= h[j]
    BY DEF NotOlder
  <2>3. h # << >>
    BY <1>1, <2>2
  <2>4. h[j] <= Newest(h) /\ Newest(h) \in Nat
    BY <1>1, <2>2, <2>3, NewestIs
  <2>. QED BY <1>1, <2>1, <2>2, <2>4
<1>. QED BY <1>2, <1>3

\* No session's files are left older than they were.
FilesGrow ==
    \A s \in Session : NotOlder(Recovered(json[s], rounds[s]), Recovered(json'[s], rounds'[s]))

\* A step that changes what one session loads, and one that changes none.
LEMMA OneGrows ==
    ASSUME SaveInv, NEW z \in Session,
           NotOlder(Recovered(json[z], rounds[z]), Recovered(json'[z], rounds'[z])),
           \A s \in Session \ {z} : json'[s] = json[s] /\ rounds'[s] = rounds[s]
    PROVE  FilesGrow
<1>. SUFFICES ASSUME NEW s \in Session, s # z
              PROVE  NotOlder(Recovered(json[s], rounds[s]), Recovered(json'[s], rounds'[s]))
  BY DEF FilesGrow
<1>1. Good(Recovered(json[s], rounds[s]), nextMsg)
  BY DEF SaveInv, FilesOK, FileOK
<1>2. Follows(Recovered(json[s], rounds[s]), Recovered(json[s], rounds[s]))
  BY <1>1, FollowsItself
<1>. QED BY <1>2 DEF Follows

LEMMA NoneGrows ==
    ASSUME SaveInv,
           \A s \in Session : Recovered(json'[s], rounds'[s]) = Recovered(json[s], rounds[s])
    PROVE  FilesGrow
<1>. SUFFICES ASSUME NEW s \in Session
              PROVE  NotOlder(Recovered(json[s], rounds[s]), Recovered(json[s], rounds[s]))
  BY DEF FilesGrow
<1>1. Good(Recovered(json[s], rounds[s]), nextMsg)
  BY DEF SaveInv, FilesOK, FileOK
<1>. QED BY <1>1, FollowsItself DEF Follows

(***************************************************************************)
(* One lemma per step that writes a file.                                  *)
(***************************************************************************)
LEMMA JsonGrows ==
    ASSUME SaveInv, NEW p \in Proc, NEW i \in DOMAIN tasks[p], WriteJson(p, i)
    PROVE  FilesGrow
<1>. DEFINE t == tasks[p][i]
            z == ui[p].sess
            r == rounds[z]
            h == t.snap.hist
            nm == nextMsg
            R == Recovered(json[z], r)
<1>1. t.kind = "full" /\ t.stage = "write" /\ rounds' = rounds
  BY DEF WriteJson
<1>2. /\ t.sess = z /\ z \in Session /\ r \in JournalType /\ TaskFits(ui[p], t, json[z], r)
      /\ Ordered(R, r, Hists({t}), ui[p].mirror, Later(chan[p], agent[p], ui[p].handle), nm)
  <2>1. Unreported(t)
    BY <1>1 DEF Unreported
  <2>. QED BY <2>1, TaskStands DEF Held, Ready
<1>3. nm \in Nat /\ json \in [Session -> History]
  BY OneStands DEF SaveInv, IInv, SharedOK
<1>4. Good(h, nm) /\ Under(r, h, nm) /\ Follows(R, h) /\ Proper(h)
  BY <1>2, HistsOf DEF Ordered, TaskFits
<1>5. CASE json' = [json EXCEPT ![t.sess] = h]
  <2>1. Recovered(h, r) = h
    <3>. HIDE DEF r, h, nm
    <3>. QED BY <1>2, <1>3, <1>4, FileReplaced
  <2>2. /\ json'[z] = h /\ rounds'[z] = r
        /\ \A s \in Session \ {z} : json'[s] = json[s] /\ rounds'[s] = rounds[s]
    BY <1>1, <1>2, <1>3, <1>5
  <2>3. NotOlder(R, Recovered(json'[z], rounds'[z]))
    BY <1>4, <2>1, <2>2 DEF Follows
  <2>. HIDE DEF z
  <2>. QED BY <1>2, <2>2, <2>3, OneGrows
<1>6. CASE UNCHANGED json
  BY <1>1, <1>6, NoneGrows
<1>. QED BY <1>5, <1>6 DEF WriteJson

LEMMA RemovalGrows ==
    ASSUME SaveInv, NEW p \in Proc, NEW i \in DOMAIN tasks[p], RemoveRounds(p, i)
    PROVE  FilesGrow
<1>. DEFINE t == tasks[p][i]
            z == ui[p].sess
            r == rounds[z]
            h == t.snap.hist
            nm == nextMsg
<1>1. t.kind = "full" /\ t.stage = "clean" /\ UNCHANGED json
  BY DEF RemoveRounds
<1>2. /\ t.sess = z /\ z \in Session /\ r \in JournalType /\ TaskFits(ui[p], t, json[z], r)
      /\ Ordered(Recovered(json[z], r), r, Hists({t}), ui[p].mirror,
                 Later(chan[p], agent[p], ui[p].handle), nm)
  <2>1. Unreported(t)
    BY <1>1 DEF Unreported
  <2>. QED BY <2>1, TaskStands DEF Held, Ready
<1>3. nm \in Nat /\ rounds \in [Session -> JournalType]
  BY OneStands DEF SaveInv, IInv, SharedOK
<1>4. Good(h, nm) /\ Under(r, h, nm) /\ Proper(h) /\ json[z] = h
  BY <1>1, <1>2, HistsOf DEF Ordered, TaskFits
<1>5. Recovered(h, r) = h /\ Recovered(h, NoJournal) = h
  <2>1. Recovered(h, NoJournal) = h
    BY DEF Recovered, Extends, NoJournal
  <2>2. Recovered(h, r) = h
    <3>. HIDE DEF r, h, nm
    <3>. QED BY <1>2, <1>3, <1>4, FileReplaced
  <2>. QED BY <2>1, <2>2
<1>6. \A s \in Session : \/ rounds'[s] = rounds[s]
                         \/ s = z /\ rounds'[s] = NoJournal
  BY <1>2, <1>3 DEF RemoveRounds
<1>7. \A s \in Session : Recovered(json'[s], rounds'[s]) = Recovered(json[s], rounds[s])
  BY <1>1, <1>4, <1>5, <1>6
<1>. QED BY <1>7, NoneGrows

LEMMA AppendGrows ==
    ASSUME SaveInv, NEW p \in Proc, NEW i \in DOMAIN tasks[p], AppendRound(p, i)
    PROVE  FilesGrow
<1>. DEFINE t == tasks[p][i]
            z == ui[p].sess
            J == json[z]
            r == rounds[z]
            R == Recovered(J, r)
            h == t.snap.hist
            nm == nextMsg
<1>1. t.kind = "append" /\ t.stage = "write" /\ json' = json
  BY DEF AppendRound
<1>2. /\ t.sess = z /\ z \in Session /\ r \in JournalType /\ FileOK(J, r, nm)
      /\ TaskFits(ui[p], t, J, r)
      /\ Ordered(R, r, Hists({t}), ui[p].mirror,
                 Later(chan[p], agent[p], ui[p].handle), nm)
  <2>1. Unreported(t)
    BY <1>1 DEF Unreported
  <2>. QED BY <2>1, TaskStands DEF Held, Ready
<1>3. nm \in Nat /\ rounds \in [Session -> JournalType]
  BY OneStands DEF SaveInv, IInv, SharedOK
<1>4. CASE rounds' = [rounds EXCEPT ![t.sess] = AppendedJournal(t)]
  <2>. DEFINE r2 == RoundsAfter(J, r, h)
  <2>1. /\ Proper(h) /\ J # << >> /\ (R # J => r.open /\ ~r.torn)
        /\ t.base = Len(J) /\ t.baseAnchor = Anchor(J)
        /\ Len(R) < Len(h) /\ Anchor(Upto(h, Len(R))) = Anchor(R)
        /\ t.tail = From(h, Len(R)) /\ t.fresh = (R = J)
    BY <1>1, <1>2 DEF TaskFits
  <2>2. AppendedJournal(t) = r2
    BY <1>2, <2>1 DEF AppendedJournal, RoundsAfter
  <2>3. Good(R, nm) /\ Good(h, nm) /\ Follows(R, h) /\ Under(r, h, nm)
    BY <1>2, HistsOf DEF Ordered, FileOK
  <2>4. Recovered(J, r2) = Adopted(R, h)
    <3>. HIDE DEF J, r, h, nm
    <3>. QED BY <1>2, <1>3, <2>1, <2>3, RoundAppended
  <2>5. Follows(R, Adopted(R, h))
    <3>1. Follows(R, R)
      BY <2>3, FollowsItself
    <3>. HIDE DEF R, h, nm
    <3>. QED BY <1>3, <2>3, <3>1, AdoptedFits
  <2>. HIDE DEF r2
  <2>6. /\ json'[z] = J /\ rounds'[z] = r2
        /\ \A s \in Session \ {z} : json'[s] = json[s] /\ rounds'[s] = rounds[s]
    BY <1>1, <1>2, <1>3, <1>4, <2>2
  <2>7. NotOlder(R, Recovered(json'[z], rounds'[z]))
    BY <2>4, <2>5, <2>6 DEF Follows
  <2>. HIDE DEF z
  <2>. QED BY <1>2, <2>6, <2>7, OneGrows
<1>5. ASSUME NEW r2 \in TornJournals(t) \cup {rounds[t.sess]},
             rounds' = [rounds EXCEPT ![t.sess] = r2]
      PROVE  FilesGrow
  <2>1. Recovered(J, r2) = R
    <3>1. CASE r2 \in TornJournals(t)
      BY <1>1, <3>1, TornKeeps
    <3>2. CASE r2 = r
      BY <3>2
    <3>. QED BY <1>2, <1>5, <3>1, <3>2
  <2>2. rounds'[z] = r2 /\ \A s \in Session : s # z => rounds'[s] = rounds[s]
    BY <1>2, <1>3, <1>5
  <2>3. \A s \in Session : Recovered(json'[s], rounds'[s]) = Recovered(json[s], rounds[s])
    BY <1>1, <2>1, <2>2
  <2>. QED BY <2>3, NoneGrows
<1>6. CASE UNCHANGED rounds
  BY <1>1, <1>6, NoneGrows
<1>. QED BY <1>4, <1>5, <1>6 DEF AppendRound

\* What a session's first writer writes replaces nothing.
LEMMA FirstSaveGrows ==
    ASSUME SaveInv, NEW p, NEW u, NEW s \in Session, FirstSave(p, u, s)
    PROVE  FilesGrow
<1>1. json[s] = << >> /\ rounds[s] = NoJournal
  BY DEF FirstSave, Unminted, SaveInv, FilesOK, FileOK
<1>2. Recovered(json[s], rounds[s]) = << >>
  BY <1>1, NoFile
<1>3. NotOlder(Recovered(json[s], rounds[s]), Recovered(json'[s], rounds'[s]))
  BY <1>2, EmptyFollowed DEF Follows
<1>4. \A z \in Session \ {s} : json'[z] = json[z] /\ rounds'[z] = rounds[z]
  BY DEF FirstSave, SaveInv, IInv, SharedOK
<1>. QED BY <1>3, <1>4, OneGrows

LEMMA PersistGrows ==
    ASSUME SaveInv, NEW p, NEW u, NEW full, Persist(p, u, full)
    PROVE  FilesGrow
<1>1. CASE UNCHANGED files
  BY <1>1, NoneGrows DEF files
<1>. QED BY <1>1, FirstSaveGrows DEF Persist

LEMMA AutosaveGrows ==
    ASSUME SaveInv, NEW p, NEW u, NEW free, Autosave(p, u, free)
    PROVE  FilesGrow
<1>1. CASE UNCHANGED files
  BY <1>1, NoneGrows DEF files
<1>. QED BY <1>1, PersistGrows DEF Autosave

\* A crash may tear the journal that was being appended to.
LEMMA CrashGrows ==
    ASSUME SaveInv, NEW p \in Proc, Crash(p)
    PROVE  FilesGrow
<1>1. json' = json
  BY DEF Crash
<1>2. CASE UNCHANGED rounds
  BY <1>1, <1>2, NoneGrows
<1>3. ASSUME NEW i \in DOMAIN tasks[p],
             tasks[p][i].kind = "append", tasks[p][i].stage = "write",
             NEW r2 \in TornJournals(tasks[p][i]),
             rounds' = [rounds EXCEPT ![tasks[p][i].sess] = r2]
      PROVE  FilesGrow
  <2>. DEFINE t == tasks[p][i]
              z == ui[p].sess
  <2>1. Unreported(t)
    BY <1>3 DEF Unreported
  <2>2. z \in Session /\ t.sess = z
    BY <2>1, TaskStands
  <2>3. Recovered(json[z], r2) = Recovered(json[z], rounds[z])
    BY <1>3, TornKeeps
  <2>4. rounds'[z] = r2 /\ \A s \in Session : s # z => rounds'[s] = rounds[s]
    BY <1>3, <2>2 DEF SaveInv, IInv, SharedOK
  <2>. HIDE DEF z
  <2>5. \A s \in Session : Recovered(json'[s], rounds'[s]) = Recovered(json[s], rounds[s])
    BY <1>1, <2>3, <2>4
  <2>. QED BY <2>5, NoneGrows
<1>. QED BY <1>2, <1>3 DEF Crash

\* No step of any process leaves a session's files older.
LEMMA StepGrows ==
    ASSUME SaveInv, Next
    PROVE  FilesGrow
<1>1. CASE UNCHANGED files
  BY <1>1, NoneGrows DEF files
<1>. PICK p \in Proc :
        \/ AgentTask(p) \/ User(p) \/ HandleMessage(p)
        \/ SaveTask(p) \/ Flush(p) \/ Crash(p) \/ Start(p)
  BY DEF Next
<1>2. CASE AgentTask(p)
  BY <1>1, <1>2
     DEF AgentTask, AgentRound, AgentNote, AgentCompact, TurnEnds, AbortLands
<1>3. CASE User(p)
  <2>1. CASE Cancel(p)
    BY <2>1, AutosaveGrows DEF Cancel, CancelTurn
  <2>2. CASE Quit(p)
    BY <2>2 DEF Quit, SaveInv
  <2>. QED BY <1>1, <1>3, <2>1, <2>2 DEF User, Submit, SubmitHidden, ClearAll, Resume
<1>4. CASE HandleMessage(p)
  <2>1. CASE HandleHistory(p, Head(chan[p]))
    BY <1>1, <2>1, PersistGrows DEF HandleHistory
  <2>2. CASE HandleDone(p)
    BY <1>1, <2>2, AutosaveGrows DEF HandleDone
  <2>3. CASE HandleSaved(p, Head(chan[p]))
    BY <1>1, <2>3 DEF HandleSaved
  <2>. QED BY <1>4, <2>1, <2>2, <2>3 DEF HandleMessage
<1>5. CASE SaveTask(p)
  <2>. PICK i \in DOMAIN tasks[p] :
          \/ WriteJson(p, i) \/ RemoveRounds(p, i) \/ AppendRound(p, i)
          \/ SendSaved(p, i) \/ NotifyDone(p, i)
    BY <1>5 DEF SaveTask
  <2>1. CASE SendSaved(p, i) \/ NotifyDone(p, i)
    BY <1>1, <2>1 DEF SendSaved, NotifyDone
  <2>. QED BY <2>1, JsonGrows, RemovalGrows, AppendGrows
<1>6. CASE Start(p)
  BY <1>1, <1>6 DEF Start
<1>. QED BY <1>2, <1>3, <1>4, <1>5, <1>6, CrashGrows, FlushKeeps

LEMMA FilesGrowNewest ==
    ASSUME SaveInv, SaveInv', FilesGrow
    PROVE  \A s \in Session :
              Newest(Recovered(json[s], rounds[s])) <= Newest(Recovered(json'[s], rounds'[s]))
<1>. SUFFICES ASSUME NEW s \in Session
              PROVE  Newest(Recovered(json[s], rounds[s]))
                         <= Newest(Recovered(json'[s], rounds'[s]))
  OBVIOUS
<1>1. Recovered(json[s], rounds[s]) \in History
  BY DEF SaveInv, FilesOK, FileOK, Good
<1>2. Recovered(json'[s], rounds'[s]) \in History
  BY DEF SaveInv, FilesOK, FileOK, Good
<1>3. NotOlder(Recovered(json[s], rounds[s]), Recovered(json'[s], rounds'[s]))
  BY DEF FilesGrow
<1>. QED BY <1>1, <1>2, <1>3, NewestGrows

\* What a load gives never gets older, whichever process saves, fails or crashes: a save
\* writes what follows the files it found (Session::save, Session::append_journal).
THEOREM DiskGrows ==
    ASSUME Allowed = {}
    PROVE  Spec => DiskNeverOlder
<1>1. Init => SaveInv
  BY InitSaveInv
<1>2. SaveInv /\ [Next]_vars => SaveInv'
  BY StepSaveInv
<1>3. SaveInv /\ SaveInv' /\ [Next]_vars =>
          [\A s \in Session :
              Newest(Recovered(json[s], rounds[s])) <= Newest(Recovered(json'[s], rounds'[s]))]_vars
  BY StepGrows, FilesGrowNewest
<1>. QED BY <1>1, <1>2, <1>3, PTL DEF Spec, DiskNeverOlder
==============================================================================
