--------------------------- MODULE Refresh_proofs ---------------------------
(* Proofs about Refresh, for any number of processes, tasks and grants.     *)
EXTENDS Refresh, TLAPS

-----------------------------------------------------------------------------
(* The inductive invariant.                                                *)

\* Between the server's answer and the write, or the end of the call.
Holding == {"granted", "persists"}

\* The refresh token r was issued: it is accepted, or who spent it is on record.
IsIssued(r) == r \in live \/ \E p \in Procs : <<r, p>> \in spentBy

\* Every refresh token about was issued, and none is spent where none is rotated.
Issued ==
    /\ store # NoCred => IsIssued(store.refresh)
    /\ \A p \in Procs : cache[p].cred # NoCred => IsIssued(cache[p].cred.refresh)
    /\ \A t \in Task : cur[t] # NoCred => IsIssued(cur[t].refresh)
    /\ \A t \in Task : fresh[t] # NoCred => IsIssued(fresh[t].refresh)
    /\ \A s \in spentBy : s[1] <= grants
    /\ ~plan.rotates => spentBy = {}

\* A rotated token that is not stored yet is known to its task alone, and accepted.
Unshared ==
    \A t \in Task :
        plan.rotates /\ pc[t] \in Holding =>
            /\ fresh[t].refresh \in live
            /\ store # NoCred => store.refresh # fresh[t].refresh
            /\ \A p \in Procs : cache[p].cred # NoCred => cache[p].cred.refresh # fresh[t].refresh
            /\ \A u \in Task : cur[u] # NoCred => cur[u].refresh # fresh[t].refresh
            /\ \A u \in Task \ {t} : fresh[u] # NoCred => fresh[u].refresh # fresh[t].refresh

\* Whoever was granted a rotated token spent its own, and that is on record.
SpentIsKnown ==
    \A t \in Task :
        plan.rotates /\ pc[t] \in Holding => <<cur[t].refresh, Home[t]>> \in spentBy

\* Who is about to write has seen nothing newer, if it saw what is there.
LooksFirst == \A t \in Task : pc[t] = "persists" /\ t \notin blind => ~Newer(t, store)

Ind ==
    /\ TypeOK /\ GateKept /\ Issued /\ Unshared /\ SpentIsKnown /\ LooksFirst
    /\ ChainKept /\ RefusedForCause

-----------------------------------------------------------------------------
(* Lemmas.                                                                 *)

\* A credential is not the absence of one.
LEMMA CredIsCred == NoCred \notin Cred
BY GrantsAssumption DEF Cred, Grant

\* A load returns the store's credential, or the one the process has cached.
LEMMA LoadIsKnown ==
    ASSUME TypeOK, NEW p \in Procs
    PROVE  /\ Load(p) = store \/ Load(p) = cache[p].cred
           /\ Load(p) \in Cred \union {NoCred}
BY DEF Load, TypeOK

\* What it leaves in the cache.
LEMMA ReadsKnown ==
    ASSUME TypeOK, NEW p \in Procs, Reads(p)
    PROVE  /\ cache' \in [Procs -> [time : 0..stamp, cred : Cred \union {NoCred}]]
           /\ \A q \in Procs : cache'[q].cred = cache[q].cred \/ cache'[q].cred = Load(p)
<1>1. CASE store = NoCred
  BY <1>1 DEF Reads, TypeOK
<1>2. CASE store # NoCred
  <2>1. [time |-> stamp, cred |-> Load(p)] \in [time : 0..stamp, cred : Cred \union {NoCred}]
    BY LoadIsKnown DEF TypeOK
  <2>2. QED  BY <1>2, <2>1 DEF Reads, TypeOK
<1>. QED  BY <1>1, <1>2

\* A task that goes from one place behind the gate to another leaves the gate as it is.
LEMMA GateMoves ==
    ASSUME TypeOK, GateKept, NEW t \in Task, pc[t] \in Gate, NEW w \in Gate, Goes(t, w),
           UNCHANGED refreshing
    PROVE  GateKept'
<1>1. pc'[t] = w /\ \A u \in Task \ {t} : pc'[u] = pc[u]
  BY DEF TypeOK, Goes
<1>2. \A u \in Task : pc'[u] \in Gate <=> pc[u] \in Gate
  BY <1>1
<1>3. \A u \in Task : pc'[u] = "waits" => pc[u] = "waits"
  BY <1>1 DEF Gate
<1>4. \A u \in Task : pc[u] \in Gate \union {"wakes"} => pc'[u] \in Gate \union {"wakes"}
  BY <1>1
<1>. QED  BY <1>2, <1>3, <1>4 DEF GateKept, Tasks

\* Whoever holds a token of its own still does when others have read what was there.
LEMMA UnsharedKept ==
    ASSUME Unshared, plan' = plan, live' = live, UNCHANGED <<store, fresh>>,
           \A u \in Task : pc'[u] \in Holding => pc[u] \in Holding,
           \A p \in Procs : \/ cache'[p].cred = store
                            \/ \E q \in Procs : cache'[p].cred = cache[q].cred,
           \A u \in Task : \/ cur'[u] = cur[u] \/ cur'[u] = store
                           \/ \E q \in Procs : cur'[u] = cache[q].cred
    PROVE  Unshared'
<1>. SUFFICES ASSUME NEW t \in Task, plan.rotates, pc'[t] \in Holding
              PROVE  /\ fresh[t].refresh \in live
                     /\ store # NoCred => store.refresh # fresh[t].refresh
                     /\ \A p \in Procs :
                            cache'[p].cred # NoCred => cache'[p].cred.refresh # fresh[t].refresh
                     /\ \A u \in Task : cur'[u] # NoCred => cur'[u].refresh # fresh[t].refresh
                     /\ \A u \in Task \ {t} :
                            fresh[u] # NoCred => fresh[u].refresh # fresh[t].refresh
  BY DEF Unshared
<1>1. pc[t] \in Holding
  OBVIOUS
<1>. QED  BY <1>1 DEF Unshared

-----------------------------------------------------------------------------
(* Every action keeps the invariant.                                       *)

LEMMA CallsKeepsInd ==
    ASSUME Ind, NEW t \in Task, Calls(t)
    PROVE  Ind'
<1>1. TypeOK'
    BY DEF Ind, Calls, Goes, disk, server, TypeOK, Cred, Grant, Bounds, Gate, Tasks
<1>2. GateKept'
    BY DEF Ind, Calls, Goes, disk, server, GateKept, Gate, Tasks, TypeOK
<1>3. Issued'
    BY DEF Ind, Calls, Goes, disk, server, Issued, IsIssued, TypeOK, Cred, Grant, Bounds
<1>4. Unshared'
    BY DEF Ind, Calls, Goes, disk, server, Unshared, Holding, TypeOK, Issued, IsIssued, Cred,
        Grant, Bounds
<1>5. SpentIsKnown'
    BY DEF Ind, Calls, Goes, disk, server, SpentIsKnown, Holding, TypeOK, Issued, Cred, Bounds
<1>6. LooksFirst'
    BY DEF Ind, Calls, Goes, disk, server, LooksFirst, TypeOK, Newer, Usable
<1>7. ChainKept'
    BY DEF Ind, Calls, Goes, disk, server, ChainKept, TypeOK, Cred
<1>8. RefusedForCause'
    BY DEF Ind, Calls, Goes, disk, server, RefusedForCause, TypeOK, Cred
<1>. QED  BY <1>1, <1>2, <1>3, <1>4, <1>5, <1>6, <1>7, <1>8 DEF Ind

LEMMA DecidesKeepsInd ==
    ASSUME Ind, NEW t \in Task, Decides(t)
    PROVE  Ind'
<1>. DEFINE c == Load(Home[t])
<1>0. /\ Home[t] \in Procs /\ c \in Cred \union {NoCred}
      /\ c = store \/ c = cache[Home[t]].cred
      /\ cache' \in [Procs -> [time : 0..stamp, cred : Cred \union {NoCred}]]
      /\ \A q \in Procs : cache'[q].cred = cache[q].cred \/ cache'[q].cred = c
  BY LoadIsKnown, ReadsKnown, TasksAssumption DEF Ind, Decides
<1>. HIDE DEF c
<1>1. TypeOK'
  <2>1. store' \in Cred \union {NoCred} /\ stamp' \in Nat
    BY <1>0 DEF Ind, TypeOK, Decides, Goes, Usable, c, disk, server
  <2>2. cache' \in [Procs -> [time : 0..stamp', cred : Cred \union {NoCred}]]
    BY <1>0 DEF Ind, TypeOK, Decides, Goes, Usable, c, disk, server
  <2>3. refreshing' \in [Procs -> BOOLEAN]
    BY <1>0 DEF Ind, TypeOK, Decides, Goes, Usable, c, disk, server, Gate
  <2>4. pc' \in [Task -> {"idle", "asks", "waits", "wakes"} \union Gate]
    BY <1>0 DEF Ind, TypeOK, Decides, Goes, Usable, c, disk, server, Gate
  <2>5. cur' \in [Task -> Cred \union {NoCred}] /\ fresh' \in [Task -> Cred \union {NoCred}]
    BY <1>0 DEF Ind, TypeOK, Decides, Goes, Usable, c, disk, server, Cred, Grant
  <2>6. grants' \in Grant /\ live' \subseteq 1..grants' /\ expired' \subseteq Grant
    BY <1>0 DEF Ind, TypeOK, Decides, Goes, Usable, c, disk, server, Cred, Grant
  <2>7. spentBy' \subseteq Grant \X Procs /\ lost' \subseteq Grant /\ blind' \subseteq Task
    BY <1>0 DEF Ind, TypeOK, Decides, Goes, Usable, c, disk, server, Cred, Grant
  <2>8. plan' \in Bounds
    BY <1>0 DEF Ind, TypeOK, Decides, Goes, Usable, c, disk, server, Bounds
  <2>9. \A u \in Task : /\ pc'[u] \in {"requests", "granted", "persists"} => cur'[u] # NoCred
                        /\ pc'[u] \in {"granted", "persists"} => fresh'[u] # NoCred
    BY <1>0 DEF Ind, TypeOK, Decides, Goes, Usable, c, disk, server
  <2>. QED  BY <2>1, <2>2, <2>3, <2>4, <2>5, <2>6, <2>7, <2>8, <2>9 DEF TypeOK
<1>2. GateKept'
  <2>1. CASE Goes(t, "idle") /\ UNCHANGED refreshing
    BY <2>1 DEF Ind, Decides, Goes, GateKept, Gate, Tasks, TypeOK
  <2>2. CASE refreshing[Home[t]] /\ Goes(t, "waits") /\ UNCHANGED refreshing
    BY <1>0, <2>2 DEF Ind, Decides, Goes, GateKept, Gate, Tasks, TypeOK
  <2>3. CASE /\ ~refreshing[Home[t]] /\ Goes(t, "rechecks")
             /\ refreshing' = [refreshing EXCEPT ![Home[t]] = TRUE]
    <3>1. pc'[t] = "rechecks" /\ \A u \in Task \ {t} : pc'[u] = pc[u]
      BY <2>3 DEF Ind, TypeOK, Goes
    <3>2. \A u \in Tasks(Home[t]) : pc[u] \notin Gate
      BY <1>0, <2>3 DEF Ind, GateKept
    <3>3. \A p \in Procs : refreshing'[p] <=> \E u \in Tasks(p) : pc'[u] \in Gate
      <4>. SUFFICES ASSUME NEW p \in Procs
                    PROVE  refreshing'[p] <=> \E u \in Tasks(p) : pc'[u] \in Gate
        OBVIOUS
      <4>1. CASE p = Home[t]
        BY <1>0, <2>3, <3>1, <4>1 DEF Ind, TypeOK, Tasks, Gate
      <4>2. CASE p # Home[t]
        <5>1. refreshing'[p] = refreshing[p]
          BY <2>3, <4>2 DEF Ind, TypeOK
        <5>2. \A u \in Tasks(p) : pc'[u] = pc[u]
          BY <3>1, <4>2 DEF Tasks
        <5>. QED  BY <5>1, <5>2 DEF Ind, GateKept
      <4>. QED  BY <4>1, <4>2
    <3>4. \A u, v \in Task : Home[u] = Home[v] /\ pc'[u] \in Gate /\ pc'[v] \in Gate => u = v
      BY <3>1, <3>2 DEF Ind, GateKept, Tasks
    <3>5. \A u \in Task : pc'[u] = "waits" =>
             \E v \in Tasks(Home[u]) : pc'[v] \in Gate \union {"wakes"}
      BY <3>1 DEF Ind, GateKept, Tasks, Gate, Decides
    <3>. QED  BY <3>3, <3>4, <3>5 DEF GateKept, Tasks
  <2>. QED  BY <2>1, <2>2, <2>3 DEF Decides
<1>3. Issued'
    BY <1>0 DEF Ind, Decides, Goes, Usable, c, disk, server, Issued, IsIssued, TypeOK, Cred,
        Grant, Bounds
<1>4. Unshared'
  <2>1. \A u \in Task : pc'[u] \in Holding => pc[u] \in Holding
    BY DEF Ind, TypeOK, Decides, Goes, Holding
  <2>. QED  BY <1>0, <2>1, UnsharedKept DEF Ind, Decides, disk, server
<1>5. SpentIsKnown'
    BY <1>0 DEF Ind, Decides, Goes, Usable, c, disk, server, SpentIsKnown, Holding, TypeOK,
        Issued, Cred, Bounds
<1>6. LooksFirst'
    BY <1>0 DEF Ind, Decides, Goes, Usable, c, disk, server, LooksFirst, TypeOK, Newer
<1>7. ChainKept'
    BY <1>0 DEF Ind, Decides, Goes, Usable, c, disk, server, ChainKept, TypeOK, Cred
<1>8. RefusedForCause'
    BY <1>0 DEF Ind, Decides, Goes, Usable, c, disk, server, RefusedForCause, TypeOK, Cred
<1>. QED  BY <1>1, <1>2, <1>3, <1>4, <1>5, <1>6, <1>7, <1>8 DEF Ind

LEMMA RechecksKeepsInd ==
    ASSUME Ind, NEW t \in Task, Rechecks(t)
    PROVE  Ind'
<1>. DEFINE c == Load(Home[t])
<1>0. /\ Home[t] \in Procs /\ c \in Cred \union {NoCred}
      /\ c = store \/ c = cache[Home[t]].cred
      /\ cache' \in [Procs -> [time : 0..stamp, cred : Cred \union {NoCred}]]
      /\ \A q \in Procs : cache'[q].cred = cache[q].cred \/ cache'[q].cred = c
  BY LoadIsKnown, ReadsKnown, TasksAssumption DEF Ind, Rechecks
<1>. HIDE DEF c
<1>1. TypeOK'
  <2>1. store' \in Cred \union {NoCred} /\ stamp' \in Nat
    BY <1>0 DEF Ind, TypeOK, Rechecks, Goes, Usable, Blinds, c, disk, server
  <2>2. cache' \in [Procs -> [time : 0..stamp', cred : Cred \union {NoCred}]]
    BY <1>0 DEF Ind, TypeOK, Rechecks, Goes, Usable, Blinds, c, disk, server
  <2>3. refreshing' \in [Procs -> BOOLEAN]
    BY <1>0 DEF Ind, TypeOK, Rechecks, Goes, Usable, Blinds, c, disk, server, Gate
  <2>4. pc' \in [Task -> {"idle", "asks", "waits", "wakes"} \union Gate]
    BY <1>0 DEF Ind, TypeOK, Rechecks, Goes, Usable, Blinds, c, disk, server, Gate
  <2>5. cur' \in [Task -> Cred \union {NoCred}] /\ fresh' \in [Task -> Cred \union {NoCred}]
    BY <1>0 DEF Ind, TypeOK, Rechecks, Goes, Usable, Blinds, c, disk, server, Cred, Grant
  <2>6. grants' \in Grant /\ live' \subseteq 1..grants' /\ expired' \subseteq Grant
    BY <1>0 DEF Ind, TypeOK, Rechecks, Goes, Usable, Blinds, c, disk, server, Cred, Grant
  <2>7. spentBy' \subseteq Grant \X Procs /\ lost' \subseteq Grant /\ blind' \subseteq Task
    BY <1>0 DEF Ind, TypeOK, Rechecks, Goes, Usable, Blinds, c, disk, server, Cred, Grant
  <2>8. plan' \in Bounds
    BY <1>0 DEF Ind, TypeOK, Rechecks, Goes, Usable, Blinds, c, disk, server, Bounds
  <2>9. \A u \in Task : /\ pc'[u] \in {"requests", "granted", "persists"} => cur'[u] # NoCred
                        /\ pc'[u] \in {"granted", "persists"} => fresh'[u] # NoCred
    BY <1>0 DEF Ind, TypeOK, Rechecks, Goes, Usable, Blinds, c, disk, server
  <2>. QED  BY <2>1, <2>2, <2>3, <2>4, <2>5, <2>6, <2>7, <2>8, <2>9 DEF TypeOK
<1>2. GateKept'
  <2>1. pc[t] \in Gate /\ UNCHANGED refreshing /\ \E w \in Gate : Goes(t, w)
    BY DEF Rechecks, Gate
  <2>. QED  BY <2>1, GateMoves DEF Ind
<1>3. Issued'
    BY <1>0 DEF Ind, Rechecks, Goes, Usable, Blinds, c, disk, server, Issued, IsIssued, TypeOK,
        Cred, Grant, Bounds
<1>4. Unshared'
  <2>1. \A u \in Task : pc'[u] \in Holding => pc[u] \in Holding
    BY DEF Ind, TypeOK, Rechecks, Goes, Holding
  <2>2. \A u \in Task : cur'[u] = cur[u] \/ cur'[u] = c
    BY DEF Ind, TypeOK, Rechecks, c
  <2>. QED  BY <1>0, <2>1, <2>2, UnsharedKept DEF Ind, Rechecks, disk, server
<1>5. SpentIsKnown'
    BY <1>0 DEF Ind, Rechecks, Goes, Usable, Blinds, c, disk, server, SpentIsKnown, Holding,
        TypeOK, Issued, Cred, Bounds
<1>6. LooksFirst'
    BY <1>0 DEF Ind, Rechecks, Goes, Usable, Blinds, c, disk, server, LooksFirst, TypeOK, Newer
<1>7. ChainKept'
    BY <1>0 DEF Ind, Rechecks, Goes, Usable, Blinds, c, disk, server, ChainKept, TypeOK, Cred
<1>8. RefusedForCause'
  <2>1. SUFFICES ASSUME NEW u \in Task, pc'[u] = "requests", cur'[u].refresh \notin live
                PROVE  \E p \in Procs :
                          /\ <<cur'[u].refresh, p>> \in spentBy
                          /\ p # Home[u] \/ cur'[u].refresh \in lost \/ u \in blind'
    BY DEF RefusedForCause, Rechecks, server
  <2>2. CASE u # t
    BY <2>1, <2>2 DEF Ind, RefusedForCause, TypeOK, Rechecks, Goes, Blinds
  <2>3. CASE u = t
    <3>1. cur'[t] = c /\ c # NoCred /\ blind' = IF c = store THEN blind \ {t} ELSE blind \union {t}
      BY <2>1, <2>3 DEF Ind, TypeOK, Rechecks, Goes, Blinds, c
    <3>2. PICK p \in Procs : <<c.refresh, p>> \in spentBy
      BY <1>0, <2>1, <2>3, <3>1 DEF Ind, Issued, IsIssued
    <3>3. CASE c # store \/ c.refresh \in lost
      BY <2>3, <3>1, <3>2, <3>3
    <3>4. CASE c = store /\ c.refresh \notin lost
      <4>1. PICK v \in Task : pc[v] \in Holding /\ cur[v].refresh = c.refresh
        BY <2>1, <2>3, <3>1, <3>4 DEF Ind, ChainKept, Holding
      <4>2. <<c.refresh, Home[v]>> \in spentBy
        BY <3>2, <4>1 DEF Ind, SpentIsKnown, Issued
      <4>3. Home[v] # Home[t]
        BY <4>1 DEF Ind, GateKept, Gate, Holding, Rechecks
      <4>. QED  BY <2>3, <3>1, <4>2, <4>3, TasksAssumption
    <3>. QED  BY <3>3, <3>4
  <2>. QED  BY <2>2, <2>3
<1>. QED  BY <1>1, <1>2, <1>3, <1>4, <1>5, <1>6, <1>7, <1>8 DEF Ind

LEMMA GrantsKeepsInd ==
    ASSUME Ind, NEW t \in Task, Grants(t)
    PROVE  Ind'
<1>. DEFINE n == grants + 1
            used == cur[t].refresh
            f == fresh'[t]
<1>0. /\ n \in Grant /\ n \notin 1..grants /\ grants' = n /\ grants \in Nat
      /\ cur[t] \in Cred /\ cur[t] # NoCred /\ used \in Grant /\ used \in live /\ Home[t] \in Procs
      /\ pc[t] = "requests" /\ pc' = [pc EXCEPT ![t] = "granted"] /\ plan' = plan
  <2>1. pc[t] = "requests" /\ cur[t] # NoCred /\ cur[t] \in Cred
    BY DEF Ind, TypeOK, Grants
  <2>2. grants' = n /\ used \in live /\ pc' = [pc EXCEPT ![t] = "granted"] /\ plan' = plan
    BY DEF Grants, Goes
  <2>3. grants \in Nat /\ n \in Grant /\ n \notin 1..grants
    BY GrantsAssumption DEF Ind, TypeOK, Grants, Grant
  <2>. QED  BY <2>1, <2>2, <2>3, TasksAssumption DEF Cred
<1>b. /\ f \in Cred /\ f # NoCred /\ fresh' = [fresh EXCEPT ![t] = f]
      /\ plan.rotates => /\ f.refresh = n /\ live' = (live \ {used}) \union {n}
                         /\ spentBy' = spentBy \union {<<used, Home[t]>>}
      /\ ~plan.rotates => f.refresh = used /\ live' = live /\ spentBy' = spentBy
  <2>1. CASE plan.rotates
    <3>. DEFINE new == [access |-> n, refresh |-> n]
    <3>1. new \in Cred /\ new.refresh = n
      BY <1>0 DEF Cred
    <3>2. fresh' = [fresh EXCEPT ![t] = new]
      BY <2>1 DEF Grants
    <3>3. f = new
      BY <3>2 DEF Ind, TypeOK
    <3>4. live' = (live \ {used}) \union {n} /\ spentBy' = spentBy \union {<<used, Home[t]>>}
      BY <2>1 DEF Grants
    <3>. HIDE DEF new, f, n, used
    <3>. QED  BY <2>1, <3>1, <3>2, <3>3, <3>4, CredIsCred
  <2>2. CASE ~plan.rotates
    <3>. DEFINE new == [access |-> n, refresh |-> used]
    <3>1. new \in Cred /\ new.refresh = used
      BY <1>0 DEF Cred
    <3>2. fresh' = [fresh EXCEPT ![t] = new]
      BY <2>2 DEF Grants
    <3>3. f = new
      BY <3>2 DEF Ind, TypeOK
    <3>4. live' = live /\ spentBy' = spentBy
      BY <2>2 DEF Grants
    <3>. HIDE DEF new, f, n, used
    <3>. QED  BY <2>2, <3>1, <3>2, <3>3, <3>4, CredIsCred
  <2>. QED  BY <2>1, <2>2
<1>. HIDE DEF n, used, f
<1>1. TypeOK'
  <2>1. store' \in Cred \union {NoCred} /\ stamp' \in Nat
    BY <1>0, <1>b DEF Ind, TypeOK, Grants, Goes, disk, server
  <2>2. cache' \in [Procs -> [time : 0..stamp', cred : Cred \union {NoCred}]]
    BY <1>0, <1>b DEF Ind, TypeOK, Grants, Goes, disk, server
  <2>3. refreshing' \in [Procs -> BOOLEAN]
    BY <1>0, <1>b DEF Ind, TypeOK, Grants, Goes, disk, server, Gate
  <2>4. pc' \in [Task -> {"idle", "asks", "waits", "wakes"} \union Gate]
    BY <1>0, <1>b DEF Ind, TypeOK, Grants, Goes, disk, server, Gate
  <2>5. cur' \in [Task -> Cred \union {NoCred}] /\ fresh' \in [Task -> Cred \union {NoCred}]
    BY <1>0, <1>b DEF Ind, TypeOK, Grants, Goes, disk, server, Cred, Grant
  <2>6. grants' \in Grant /\ live' \subseteq 1..grants' /\ expired' \subseteq Grant
    <3>1. live' \subseteq live \union {n}
      BY <1>b
    <3>2. n \in 1..n /\ 1..grants \subseteq 1..n
      BY <1>0 DEF n
    <3>. QED  BY <1>0, <3>1, <3>2 DEF Ind, TypeOK, Grants
  <2>7. spentBy' \subseteq Grant \X Procs /\ lost' \subseteq Grant /\ blind' \subseteq Task
    BY <1>0, <1>b DEF Ind, TypeOK, Grants, Goes, disk, server, Cred, Grant
  <2>8. plan' \in Bounds
    BY <1>0, <1>b DEF Ind, TypeOK, Grants, Goes, disk, server, Bounds
  <2>9. \A u \in Task : /\ pc'[u] \in {"requests", "granted", "persists"} => cur'[u] # NoCred
                        /\ pc'[u] \in {"granted", "persists"} => fresh'[u] # NoCred
    BY <1>0, <1>b DEF Ind, TypeOK, Grants, Goes, disk, server
  <2>. QED  BY <2>1, <2>2, <2>3, <2>4, <2>5, <2>6, <2>7, <2>8, <2>9 DEF TypeOK
<1>2. GateKept'
    BY <1>0, <1>b DEF Ind, Grants, Goes, disk, server, GateKept, Gate, Tasks, TypeOK
<1>3. Issued'
  <2>1. \A r : IsIssued(r) => r \in live' \/ \E p \in Procs : <<r, p>> \in spentBy'
    BY <1>0, <1>b DEF IsIssued
  <2>2. f.refresh \in live'
    BY <1>0, <1>b
  <2>3. /\ \A s \in spentBy' : s[1] <= grants'
        /\ ~plan'.rotates => spentBy' = {}
    <3>1. used <= grants /\ grants' = grants + 1
      BY <1>0 DEF Ind, TypeOK, Grant, n
    <3>2. \A s \in spentBy : s[1] <= grants
      BY DEF Ind, Issued
    <3>3. \A s \in spentBy' : s \in spentBy \/ s = <<used, Home[t]>>
      BY <1>b
    <3>4. \A s \in spentBy : s[1] \in Nat
      BY DEF Ind, TypeOK, Grant
    <3>5. used \in Nat
      BY <1>0 DEF Grant
    <3>. QED  BY <1>0, <1>b, <3>1, <3>2, <3>3, <3>4, <3>5 DEF Ind, Issued
  <2>4. /\ store' = store /\ cache' = cache /\ cur' = cur
        /\ \A u \in Task : fresh'[u] = fresh[u] \/ fresh'[u] = f
    BY <1>b DEF Ind, TypeOK, Grants, disk
  <2>. QED  BY <2>1, <2>2, <2>3, <2>4 DEF Ind, Issued, IsIssued
<1>4. Unshared'
  <2>. SUFFICES ASSUME plan.rotates PROVE Unshared'
    BY <1>0 DEF Unshared
  <2>1. \A r : IsIssued(r) => r <= grants
    <3>1. \A r \in live : r <= grants
      BY DEF Ind, TypeOK, Grant
    <3>2. \A r, p : <<r, p>> \in spentBy => r <= grants
      BY DEF Ind, Issued
    <3>. QED  BY <3>1, <3>2 DEF IsIssued
  <2>2. \A u \in Task \ {t} : pc[u] \in Holding => fresh'[u].refresh # n /\ fresh'[u].refresh # used
    BY <1>0, <1>b, <2>1 DEF Ind, Unshared, TypeOK, used, n, Holding, Issued, IsIssued
  <2>3. /\ store # NoCred => store.refresh # n
        /\ \A p \in Procs : cache[p].cred # NoCred => cache[p].cred.refresh # n
        /\ \A u \in Task : cur[u] # NoCred => cur[u].refresh # n
        /\ \A u \in Task : fresh[u] # NoCred => fresh[u].refresh # n
    BY <1>0, <2>1 DEF Ind, Issued, n
  <2>. QED
    BY <1>0, <1>b, <2>2, <2>3 DEF Ind, Unshared, Holding, TypeOK, Grants, disk
<1>5. SpentIsKnown'
    BY <1>0, <1>b DEF Ind, Grants, Goes, disk, server, SpentIsKnown, Holding, TypeOK, Issued,
        Cred, Bounds
<1>6. LooksFirst'
    BY <1>0, <1>b DEF Ind, Grants, Goes, disk, server, LooksFirst, TypeOK, Newer, Usable
<1>7. ChainKept'
    BY <1>0, <1>b DEF Ind, Grants, Goes, disk, server, ChainKept, TypeOK, Cred
<1>8. RefusedForCause'
  <2>1. SUFFICES ASSUME NEW u \in Task, pc'[u] = "requests", cur[u].refresh \notin live'
                PROVE  \E p \in Procs :
                          /\ <<cur[u].refresh, p>> \in spentBy'
                          /\ p # Home[u] \/ cur[u].refresh \in lost \/ u \in blind
    BY DEF RefusedForCause, Grants
  <2>2. u # t /\ pc[u] = "requests"
    BY <1>0, <2>1 DEF Ind, TypeOK
  <2>3. CASE cur[u].refresh \notin live
    BY <1>0, <1>b, <2>2, <2>3 DEF Ind, RefusedForCause
  <2>4. CASE cur[u].refresh \in live
    <3>1. cur[u].refresh = used /\ <<cur[u].refresh, Home[t]>> \in spentBy'
      BY <1>0, <1>b, <2>1, <2>4
    <3>2. Home[t] # Home[u]
      BY <1>0, <2>2 DEF Ind, GateKept, Gate
    <3>. QED  BY <1>0, <3>1, <3>2
  <2>. QED  BY <2>3, <2>4
<1>. QED  BY <1>1, <1>2, <1>3, <1>4, <1>5, <1>6, <1>7, <1>8 DEF Ind

LEMMA RefusesKeepsInd ==
    ASSUME Ind, NEW t \in Task, Refuses(t)
    PROVE  Ind'
<1>1. TypeOK'
    BY DEF Ind, Refuses, Goes, disk, server, TypeOK, Cred, Grant, Bounds, Gate, Tasks
<1>2. GateKept'
    BY DEF Ind, Refuses, Goes, disk, server, GateKept, Gate, Tasks, TypeOK
<1>3. Issued'
    BY DEF Ind, Refuses, Goes, disk, server, Issued, IsIssued, TypeOK, Cred, Grant, Bounds
<1>4. Unshared'
    BY DEF Ind, Refuses, Goes, disk, server, Unshared, Holding, TypeOK, Issued, IsIssued, Cred,
        Grant, Bounds
<1>5. SpentIsKnown'
    BY DEF Ind, Refuses, Goes, disk, server, SpentIsKnown, Holding, TypeOK, Issued, Cred,
        Bounds
<1>6. LooksFirst'
    BY DEF Ind, Refuses, Goes, disk, server, LooksFirst, TypeOK, Newer, Usable
<1>7. ChainKept'
    BY DEF Ind, Refuses, Goes, disk, server, ChainKept, TypeOK, Cred
<1>8. RefusedForCause'
    BY DEF Ind, Refuses, Goes, disk, server, RefusedForCause, TypeOK, Cred
<1>. QED  BY <1>1, <1>2, <1>3, <1>4, <1>5, <1>6, <1>7, <1>8 DEF Ind

LEMMA TimesOutKeepsInd ==
    ASSUME Ind, NEW t \in Task, TimesOut(t)
    PROVE  Ind'
<1>1. TypeOK'
  <2>1. store' \in Cred \union {NoCred} /\ stamp' \in Nat
    BY CredIsCred DEF Ind, TypeOK, TimesOut, Goes, Loses, disk, server
  <2>2. cache' \in [Procs -> [time : 0..stamp', cred : Cred \union {NoCred}]]
    BY CredIsCred DEF Ind, TypeOK, TimesOut, Goes, Loses, disk, server
  <2>3. refreshing' \in [Procs -> BOOLEAN]
    BY CredIsCred DEF Ind, TypeOK, TimesOut, Goes, Loses, disk, server, Gate
  <2>4. pc' \in [Task -> {"idle", "asks", "waits", "wakes"} \union Gate]
    BY CredIsCred DEF Ind, TypeOK, TimesOut, Goes, Loses, disk, server, Gate
  <2>5. cur' \in [Task -> Cred \union {NoCred}] /\ fresh' \in [Task -> Cred \union {NoCred}]
    BY CredIsCred DEF Ind, TypeOK, TimesOut, Goes, Loses, disk, server, Cred, Grant
  <2>6. grants' \in Grant /\ live' \subseteq 1..grants' /\ expired' \subseteq Grant
    BY CredIsCred DEF Ind, TypeOK, TimesOut, Goes, Loses, disk, server, Cred, Grant
  <2>7. spentBy' \subseteq Grant \X Procs /\ lost' \subseteq Grant /\ blind' \subseteq Task
    BY CredIsCred DEF Ind, TypeOK, TimesOut, Goes, Loses, disk, server, Cred, Grant
  <2>8. plan' \in Bounds
    BY CredIsCred DEF Ind, TypeOK, TimesOut, Goes, Loses, disk, server, Bounds
  <2>9. \A u \in Task : /\ pc'[u] \in {"requests", "granted", "persists"} => cur'[u] # NoCred
                        /\ pc'[u] \in {"granted", "persists"} => fresh'[u] # NoCred
    BY CredIsCred DEF Ind, TypeOK, TimesOut, Goes, Loses, disk, server
  <2>. QED  BY <2>1, <2>2, <2>3, <2>4, <2>5, <2>6, <2>7, <2>8, <2>9 DEF TypeOK
<1>2. GateKept'
  <2>1. pc[t] \in Gate /\ UNCHANGED refreshing /\ \E w \in Gate : Goes(t, w)
    BY DEF TimesOut, Gate
  <2>. QED  BY <2>1, GateMoves DEF Ind
<1>3. Issued'
    BY DEF Ind, TimesOut, Goes, Loses, disk, server, Issued, IsIssued, TypeOK, Cred, Grant,
        Bounds
<1>4. Unshared'
    BY DEF Ind, TimesOut, Goes, Loses, disk, server, Unshared, Holding, TypeOK, Issued,
        IsIssued, Cred, Grant, Bounds
<1>5. SpentIsKnown'
    BY DEF Ind, TimesOut, Goes, Loses, disk, server, SpentIsKnown, Holding, TypeOK, Issued,
        Cred, Bounds
<1>6. LooksFirst'
    BY DEF Ind, TimesOut, Goes, Loses, disk, server, LooksFirst, TypeOK, Newer, Usable
<1>7. ChainKept'
    BY DEF Ind, TimesOut, Goes, Loses, disk, server, ChainKept, TypeOK, Cred
<1>8. RefusedForCause'
    BY DEF Ind, TimesOut, Goes, Loses, disk, server, RefusedForCause, TypeOK, Cred
<1>. QED  BY <1>1, <1>2, <1>3, <1>4, <1>5, <1>6, <1>7, <1>8 DEF Ind

LEMMA ChecksKeepsInd ==
    ASSUME Ind, NEW t \in Task, Checks(t)
    PROVE  Ind'
<1>. DEFINE c == Load(Home[t])
<1>0. /\ Home[t] \in Procs /\ c \in Cred \union {NoCred}
      /\ c = store \/ c = cache[Home[t]].cred
      /\ cache' \in [Procs -> [time : 0..stamp, cred : Cred \union {NoCred}]]
      /\ \A q \in Procs : cache'[q].cred = cache[q].cred \/ cache'[q].cred = c
  BY LoadIsKnown, ReadsKnown, TasksAssumption DEF Ind, Checks
<1>. HIDE DEF c
<1>1. TypeOK'
  <2>1. store' \in Cred \union {NoCred} /\ stamp' \in Nat
    BY <1>0 DEF Ind, TypeOK, Checks, Goes, Newer, Usable, Loses, Blinds, c, disk, server
  <2>2. cache' \in [Procs -> [time : 0..stamp', cred : Cred \union {NoCred}]]
    BY <1>0 DEF Ind, TypeOK, Checks, Goes, Newer, Usable, Loses, Blinds, c, disk, server
  <2>3. refreshing' \in [Procs -> BOOLEAN]
    BY <1>0 DEF Ind, TypeOK, Checks, Goes, Newer, Usable, Loses, Blinds, c, disk, server, Gate
  <2>4. pc' \in [Task -> {"idle", "asks", "waits", "wakes"} \union Gate]
    BY <1>0 DEF Ind, TypeOK, Checks, Goes, Newer, Usable, Loses, Blinds, c, disk, server, Gate
  <2>5. cur' \in [Task -> Cred \union {NoCred}] /\ fresh' \in [Task -> Cred \union {NoCred}]
    BY <1>0 DEF Ind, TypeOK, Checks, Goes, Newer, Usable, Loses, Blinds, c, disk, server, Cred,
          Grant
  <2>6. grants' \in Grant /\ live' \subseteq 1..grants' /\ expired' \subseteq Grant
    BY <1>0 DEF Ind, TypeOK, Checks, Goes, Newer, Usable, Loses, Blinds, c, disk, server, Cred,
          Grant
  <2>7. spentBy' \subseteq Grant \X Procs /\ lost' \subseteq Grant /\ blind' \subseteq Task
    BY <1>0 DEF Ind, TypeOK, Checks, Goes, Newer, Usable, Loses, Blinds, c, disk, server, Cred,
          Grant
  <2>8. plan' \in Bounds
    BY <1>0 DEF Ind, TypeOK, Checks, Goes, Newer, Usable, Loses, Blinds, c, disk, server,
          Bounds
  <2>9. \A u \in Task : /\ pc'[u] \in {"requests", "granted", "persists"} => cur'[u] # NoCred
                        /\ pc'[u] \in {"granted", "persists"} => fresh'[u] # NoCred
    BY <1>0 DEF Ind, TypeOK, Checks, Goes, Newer, Usable, Loses, Blinds, c, disk, server
  <2>. QED  BY <2>1, <2>2, <2>3, <2>4, <2>5, <2>6, <2>7, <2>8, <2>9 DEF TypeOK
<1>2. GateKept'
  <2>1. pc[t] \in Gate /\ UNCHANGED refreshing /\ \E w \in Gate : Goes(t, w)
    BY DEF Checks, Gate
  <2>. QED  BY <2>1, GateMoves DEF Ind
<1>3. Issued'
    BY <1>0 DEF Ind, Checks, Goes, Newer, Usable, Loses, Blinds, c, disk, server, Issued,
        IsIssued, TypeOK, Cred, Grant, Bounds
<1>4. Unshared'
    BY <1>0 DEF Ind, Checks, Goes, Newer, Usable, Loses, Blinds, c, disk, server, Unshared,
        Holding, TypeOK, Issued, IsIssued, Cred, Grant, Bounds
<1>5. SpentIsKnown'
    BY <1>0 DEF Ind, Checks, Goes, Newer, Usable, Loses, Blinds, c, disk, server, SpentIsKnown,
        Holding, TypeOK, Issued, Cred, Bounds
<1>6. LooksFirst'
    BY <1>0 DEF Ind, Checks, Goes, Newer, Usable, Loses, Blinds, c, disk, server, LooksFirst,
        TypeOK
<1>7. ChainKept'
    BY <1>0 DEF Ind, Checks, Goes, Newer, Usable, Loses, Blinds, c, disk, server, ChainKept,
        TypeOK, Cred
<1>8. RefusedForCause'
    BY <1>0 DEF Ind, Checks, Goes, Newer, Usable, Loses, Blinds, c, disk, server,
        RefusedForCause, TypeOK, Cred
<1>. QED  BY <1>1, <1>2, <1>3, <1>4, <1>5, <1>6, <1>7, <1>8 DEF Ind

LEMMA PersistsKeepsInd ==
    ASSUME Ind, NEW t \in Task, Persists(t)
    PROVE  Ind'
<1>1. TypeOK'
    BY DEF Ind, Persists, Goes, Writes, Writing, Loses, disk, server, TypeOK, Cred, Grant,
        Bounds, Gate, Tasks
<1>2. GateKept'
  <2>1. pc[t] \in Gate /\ UNCHANGED refreshing /\ \E w \in Gate : Goes(t, w)
    BY DEF Persists, Gate
  <2>. QED  BY <2>1, GateMoves DEF Ind
<1>3. Issued'
    BY DEF Ind, Persists, Goes, Writes, Writing, Loses, disk, server, Issued, IsIssued, TypeOK,
        Cred, Grant, Bounds
<1>4. Unshared'
    BY DEF Ind, Persists, Goes, Writes, Writing, Loses, disk, server, Unshared, Holding,
        TypeOK, Issued, IsIssued, Cred, Grant, Bounds
<1>5. SpentIsKnown'
    BY DEF Ind, Persists, Goes, Writes, Writing, Loses, disk, server, SpentIsKnown, Holding,
        TypeOK, Issued, Cred, Bounds
<1>6. LooksFirst'
    BY DEF Ind, Persists, Goes, Writes, Writing, Loses, disk, server, LooksFirst, TypeOK,
        Newer, Usable
<1>7. ChainKept'
  <2>1. CASE store' = fresh[t] /\ UNCHANGED lost
    <3>1. fresh[t] # NoCred /\ fresh[t].refresh \in live
      BY DEF Ind, TypeOK, Persists, Unshared, Issued, IsIssued, Holding
    <3>. QED  BY <2>1, <3>1 DEF ChainKept, Persists, server
  <2>2. CASE Loses(t) /\ UNCHANGED disk
    BY <2>2 DEF Ind, ChainKept, Persists, Loses, Goes, TypeOK, disk, server
  <2>. QED  BY <2>1, <2>2 DEF Persists, Writes
<1>8. RefusedForCause'
    BY DEF Ind, Persists, Goes, Writes, Writing, Loses, disk, server, RefusedForCause, TypeOK,
        Cred
<1>. QED  BY <1>1, <1>2, <1>3, <1>4, <1>5, <1>6, <1>7, <1>8 DEF Ind

LEMMA ClosesKeepsInd ==
    ASSUME Ind, NEW t \in Task, Closes(t)
    PROVE  Ind'
<1>1. TypeOK'
    BY DEF Ind, Closes, Goes, disk, server, TypeOK, Cred, Grant, Bounds, Gate, Tasks
<1>2. GateKept'
    BY DEF Ind, Closes, Goes, disk, server, GateKept, Gate, Tasks, TypeOK
<1>3. Issued'
    BY DEF Ind, Closes, Goes, disk, server, Issued, IsIssued, TypeOK, Cred, Grant, Bounds
<1>4. Unshared'
    BY DEF Ind, Closes, Goes, disk, server, Unshared, Holding, TypeOK, Issued, IsIssued, Cred,
        Grant, Bounds
<1>5. SpentIsKnown'
    BY DEF Ind, Closes, Goes, disk, server, SpentIsKnown, Holding, TypeOK, Issued, Cred, Bounds
<1>6. LooksFirst'
    BY DEF Ind, Closes, Goes, disk, server, LooksFirst, TypeOK, Newer, Usable
<1>7. ChainKept'
    BY DEF Ind, Closes, Goes, disk, server, ChainKept, TypeOK, Cred
<1>8. RefusedForCause'
    BY DEF Ind, Closes, Goes, disk, server, RefusedForCause, TypeOK, Cred
<1>. QED  BY <1>1, <1>2, <1>3, <1>4, <1>5, <1>6, <1>7, <1>8 DEF Ind

LEMMA WakesKeepsInd ==
    ASSUME Ind, NEW t \in Task, Wakes(t)
    PROVE  Ind'
<1>1. TypeOK'
    BY DEF Ind, Wakes, disk, server, TypeOK, Cred, Grant, Bounds, Gate, Tasks
<1>2. GateKept'
    BY DEF Ind, Wakes, disk, server, GateKept, Gate, Tasks, TypeOK
<1>3. Issued'
    BY DEF Ind, Wakes, disk, server, Issued, IsIssued, TypeOK, Cred, Grant, Bounds
<1>4. Unshared'
    BY DEF Ind, Wakes, disk, server, Unshared, Holding, TypeOK, Issued, IsIssued, Cred, Grant,
        Bounds
<1>5. SpentIsKnown'
    BY DEF Ind, Wakes, disk, server, SpentIsKnown, Holding, TypeOK, Issued, Cred, Bounds
<1>6. LooksFirst'
    BY DEF Ind, Wakes, disk, server, LooksFirst, TypeOK, Newer, Usable
<1>7. ChainKept'
    BY DEF Ind, Wakes, disk, server, ChainKept, TypeOK, Cred
<1>8. RefusedForCause'
    BY DEF Ind, Wakes, disk, server, RefusedForCause, TypeOK, Cred
<1>. QED  BY <1>1, <1>2, <1>3, <1>4, <1>5, <1>6, <1>7, <1>8 DEF Ind

LEMMA CancelsKeepsInd ==
    ASSUME Ind, NEW t \in Task, Cancels(t)
    PROVE  Ind'
<1>1. TypeOK'
  <2>1. store' \in Cred \union {NoCred} /\ stamp' \in Nat
    BY CredIsCred DEF Ind, TypeOK, Cancels, Goes, Loses, disk, server
  <2>2. cache' \in [Procs -> [time : 0..stamp', cred : Cred \union {NoCred}]]
    BY CredIsCred DEF Ind, TypeOK, Cancels, Goes, Loses, disk, server
  <2>3. refreshing' \in [Procs -> BOOLEAN]
    BY CredIsCred DEF Ind, TypeOK, Cancels, Goes, Loses, disk, server, Gate
  <2>4. pc' \in [Task -> {"idle", "asks", "waits", "wakes"} \union Gate]
    BY CredIsCred DEF Ind, TypeOK, Cancels, Goes, Loses, disk, server, Gate
  <2>5. cur' \in [Task -> Cred \union {NoCred}] /\ fresh' \in [Task -> Cred \union {NoCred}]
    BY CredIsCred DEF Ind, TypeOK, Cancels, Goes, Loses, disk, server, Cred, Grant
  <2>6. grants' \in Grant /\ live' \subseteq 1..grants' /\ expired' \subseteq Grant
    BY CredIsCred DEF Ind, TypeOK, Cancels, Goes, Loses, disk, server, Cred, Grant
  <2>7. spentBy' \subseteq Grant \X Procs /\ lost' \subseteq Grant /\ blind' \subseteq Task
    BY CredIsCred DEF Ind, TypeOK, Cancels, Goes, Loses, disk, server, Cred, Grant
  <2>8. plan' \in Bounds
    BY CredIsCred DEF Ind, TypeOK, Cancels, Goes, Loses, disk, server, Bounds
  <2>9. \A u \in Task : /\ pc'[u] \in {"requests", "granted", "persists"} => cur'[u] # NoCred
                        /\ pc'[u] \in {"granted", "persists"} => fresh'[u] # NoCred
    BY CredIsCred DEF Ind, TypeOK, Cancels, Goes, Loses, disk, server
  <2>. QED  BY <2>1, <2>2, <2>3, <2>4, <2>5, <2>6, <2>7, <2>8, <2>9 DEF TypeOK
<1>2. GateKept'
  <2>1. CASE pc[t] = "waits"
    BY <2>1 DEF Ind, Cancels, Goes, GateKept, Gate, Tasks, TypeOK
  <2>2. CASE pc[t] \in {"requests", "granted"}
    <3>1. Goes(t, "closes") /\ pc[t] \in Gate /\ "closes" \in Gate /\ UNCHANGED refreshing
      BY <2>2 DEF Cancels, Gate
    <3>. QED  BY <3>1, GateMoves DEF Ind
  <2>. QED  BY <2>1, <2>2 DEF Cancels
<1>3. Issued'
    BY DEF Ind, Cancels, Goes, Loses, disk, server, Issued, IsIssued, TypeOK, Cred, Grant,
        Bounds
<1>4. Unshared'
    BY DEF Ind, Cancels, Goes, Loses, disk, server, Unshared, Holding, TypeOK, Issued,
        IsIssued, Cred, Grant, Bounds
<1>5. SpentIsKnown'
    BY DEF Ind, Cancels, Goes, Loses, disk, server, SpentIsKnown, Holding, TypeOK, Issued,
        Cred, Bounds
<1>6. LooksFirst'
    BY DEF Ind, Cancels, Goes, Loses, disk, server, LooksFirst, TypeOK, Newer, Usable
<1>7. ChainKept'
    BY DEF Ind, Cancels, Goes, Loses, disk, server, ChainKept, TypeOK, Cred
<1>8. RefusedForCause'
    BY DEF Ind, Cancels, Goes, Loses, disk, server, RefusedForCause, TypeOK, Cred
<1>. QED  BY <1>1, <1>2, <1>3, <1>4, <1>5, <1>6, <1>7, <1>8 DEF Ind

LEMMA LogsInKeepsInd ==
    ASSUME Ind, LogsIn
    PROVE  Ind'
<1>0. /\ grants + 1 \in Grant /\ [access |-> grants + 1, refresh |-> grants + 1] \in Cred
      /\ store' = [access |-> grants + 1, refresh |-> grants + 1] /\ store'.refresh = grants + 1
  BY GrantsAssumption DEF Ind, TypeOK, LogsIn, Writes, Cred, Grant
<1>1. TypeOK'
  <2>1. store' \in Cred \union {NoCred} /\ stamp' \in Nat
    BY <1>0 DEF Ind, TypeOK, LogsIn, Writes, Writing, disk, server
  <2>2. cache' \in [Procs -> [time : 0..stamp', cred : Cred \union {NoCred}]]
    BY <1>0 DEF Ind, TypeOK, LogsIn, Writes, Writing, disk, server
  <2>3. refreshing' \in [Procs -> BOOLEAN]
    BY <1>0 DEF Ind, TypeOK, LogsIn, Writes, Writing, disk, server, Gate
  <2>4. pc' \in [Task -> {"idle", "asks", "waits", "wakes"} \union Gate]
    BY <1>0 DEF Ind, TypeOK, LogsIn, Writes, Writing, disk, server, Gate
  <2>5. cur' \in [Task -> Cred \union {NoCred}] /\ fresh' \in [Task -> Cred \union {NoCred}]
    BY <1>0 DEF Ind, TypeOK, LogsIn, Writes, Writing, disk, server, Cred, Grant
  <2>6. grants' \in Grant /\ live' \subseteq 1..grants' /\ expired' \subseteq Grant
    BY <1>0 DEF Ind, TypeOK, LogsIn, Writes, Writing, disk, server, Cred, Grant
  <2>7. spentBy' \subseteq Grant \X Procs /\ lost' \subseteq Grant /\ blind' \subseteq Task
    BY <1>0 DEF Ind, TypeOK, LogsIn, Writes, Writing, disk, server, Cred, Grant
  <2>8. plan' \in Bounds
    BY <1>0 DEF Ind, TypeOK, LogsIn, Writes, Writing, disk, server, Bounds
  <2>9. \A u \in Task : /\ pc'[u] \in {"requests", "granted", "persists"} => cur'[u] # NoCred
                        /\ pc'[u] \in {"granted", "persists"} => fresh'[u] # NoCred
    BY <1>0 DEF Ind, TypeOK, LogsIn, Writes, Writing, disk, server
  <2>. QED  BY <2>1, <2>2, <2>3, <2>4, <2>5, <2>6, <2>7, <2>8, <2>9 DEF TypeOK
<1>2. GateKept'
    BY DEF Ind, LogsIn, Writes, Writing, disk, server, GateKept, Gate, Tasks, TypeOK
<1>3. Issued'
  <2>1. \A r : IsIssued(r) => r \in live' \/ \E p \in Procs : <<r, p>> \in spentBy'
    BY DEF IsIssued, LogsIn
  <2>2. grants + 1 \in live'
    BY DEF LogsIn
  <2>3. /\ \A s \in spentBy' : s[1] <= grants'
        /\ ~plan'.rotates => spentBy' = {}
    BY <1>0 DEF Ind, Issued, TypeOK, Grant, LogsIn, Bounds
  <2>. QED  BY <1>0, <2>1, <2>2, <2>3 DEF Ind, Issued, IsIssued, LogsIn
<1>4. Unshared'
    BY DEF Ind, LogsIn, Writes, Writing, disk, server, Unshared, Holding, TypeOK, Issued,
        IsIssued, Cred, Grant, Bounds
<1>5. SpentIsKnown'
    BY DEF Ind, LogsIn, Writes, Writing, disk, server, SpentIsKnown, Holding, TypeOK, Issued,
        Cred, Bounds
<1>6. LooksFirst'
    BY DEF Ind, LogsIn, Writes, Writing, disk, server, LooksFirst, TypeOK, Newer, Usable
<1>7. ChainKept'
    BY DEF Ind, LogsIn, Writes, Writing, disk, server, ChainKept, TypeOK, Cred
<1>8. RefusedForCause'
    BY DEF Ind, LogsIn, Writes, Writing, disk, server, RefusedForCause, TypeOK, Cred
<1>. QED  BY <1>1, <1>2, <1>3, <1>4, <1>5, <1>6, <1>7, <1>8 DEF Ind

LEMMA LogsOutKeepsInd ==
    ASSUME Ind, LogsOut
    PROVE  Ind'
<1>1. TypeOK'
    BY DEF Ind, LogsOut, Writing, disk, server, TypeOK, Cred, Grant, Bounds, Gate, Tasks
<1>2. GateKept'
    BY DEF Ind, LogsOut, Writing, disk, server, GateKept, Gate, Tasks, TypeOK
<1>3. Issued'
    BY DEF Ind, LogsOut, Writing, disk, server, Issued, IsIssued, TypeOK, Cred, Grant, Bounds
<1>4. Unshared'
    BY DEF Ind, LogsOut, Writing, disk, server, Unshared, Holding, TypeOK, Issued, IsIssued,
        Cred, Grant, Bounds
<1>5. SpentIsKnown'
    BY DEF Ind, LogsOut, Writing, disk, server, SpentIsKnown, Holding, TypeOK, Issued, Cred,
        Bounds
<1>6. LooksFirst'
    BY DEF Ind, LogsOut, Writing, disk, server, LooksFirst, TypeOK, Newer, Usable
<1>7. ChainKept'
    BY DEF Ind, LogsOut, Writing, disk, server, ChainKept, TypeOK, Cred
<1>8. RefusedForCause'
    BY DEF Ind, LogsOut, Writing, disk, server, RefusedForCause, TypeOK, Cred
<1>. QED  BY <1>1, <1>2, <1>3, <1>4, <1>5, <1>6, <1>7, <1>8 DEF Ind

LEMMA ExpiresKeepsInd ==
    ASSUME Ind, Expires
    PROVE  Ind'
<1>1. TypeOK'
  <2>1. expired' \subseteq Grant
    BY DEF Ind, TypeOK, Expires, Cred
  <2>. QED  BY <2>1 DEF Ind, TypeOK, Expires, disk, server, Gate, Cred, Grant, Bounds
<1>2. GateKept'
    BY DEF Ind, Expires, disk, server, GateKept, Gate, Tasks, TypeOK
<1>3. Issued'
    BY DEF Ind, Expires, disk, server, Issued, IsIssued, TypeOK, Cred, Grant, Bounds
<1>4. Unshared'
    BY DEF Ind, Expires, disk, server, Unshared, Holding, TypeOK, Issued, IsIssued, Cred,
        Grant, Bounds
<1>5. SpentIsKnown'
    BY DEF Ind, Expires, disk, server, SpentIsKnown, Holding, TypeOK, Issued, Cred, Bounds
<1>6. LooksFirst'
    BY DEF Ind, Expires, disk, server, LooksFirst, TypeOK, Newer, Usable
<1>7. ChainKept'
    BY DEF Ind, Expires, disk, server, ChainKept, TypeOK, Cred
<1>8. RefusedForCause'
    BY DEF Ind, Expires, disk, server, RefusedForCause, TypeOK, Cred
<1>. QED  BY <1>1, <1>2, <1>3, <1>4, <1>5, <1>6, <1>7, <1>8 DEF Ind

LEMMA CrashesKeepsInd ==
    ASSUME Ind, NEW p \in Procs, Crashes(p)
    PROVE  Ind'
<1>1. TypeOK'
    BY SMTT(30) DEF Ind, Crashes, Tasks, disk, server, TypeOK, Cred, Grant, Bounds, Gate
<1>2. GateKept'
    BY DEF Ind, Crashes, Tasks, disk, server, GateKept, Gate, TypeOK
<1>3. Issued'
    BY DEF Ind, Crashes, Tasks, disk, server, Issued, IsIssued, TypeOK, Cred, Grant, Bounds
<1>4. Unshared'
    BY DEF Ind, Crashes, Tasks, disk, server, Unshared, Holding, TypeOK, Issued, IsIssued,
        Cred, Grant, Bounds
<1>5. SpentIsKnown'
    BY DEF Ind, Crashes, Tasks, disk, server, SpentIsKnown, Holding, TypeOK, Issued, Cred,
        Bounds
<1>6. LooksFirst'
    BY DEF Ind, Crashes, Tasks, disk, server, LooksFirst, TypeOK, Newer, Usable
<1>7. ChainKept'
    BY DEF Ind, Crashes, Tasks, disk, server, ChainKept, TypeOK, Cred
<1>8. RefusedForCause'
    BY DEF Ind, Crashes, Tasks, disk, server, RefusedForCause, TypeOK, Cred
<1>. QED  BY <1>1, <1>2, <1>3, <1>4, <1>5, <1>6, <1>7, <1>8 DEF Ind

\* Nothing but a step of the system changes anything.
LEMMA StutterKeepsInd ==
    ASSUME Ind, UNCHANGED vars
    PROVE  Ind'
<1>1. TypeOK' /\ LooksFirst'
  BY DEF Ind, TypeOK, LooksFirst, Newer, Usable, vars, disk, server
<1>2. GateKept' /\ ChainKept' /\ RefusedForCause'
  BY DEF Ind, GateKept, ChainKept, RefusedForCause, vars, disk, server
<1>3. Issued' /\ Unshared' /\ SpentIsKnown'
  BY DEF Ind, Issued, IsIssued, Unshared, SpentIsKnown, vars, disk, server
<1>. QED  BY <1>1, <1>2, <1>3 DEF Ind

LEMMA InitInd == Init => Ind
<1>. SUFFICES ASSUME Init PROVE Ind
  OBVIOUS
<1>1. 1 \in Grant /\ [access |-> 1, refresh |-> 1] \in Cred
  BY GrantsAssumption DEF Grant, Cred
<1>2. TypeOK
  BY <1>1, PlansAssumption DEF Init, TypeOK, Grant
<1>3. GateKept /\ Unshared /\ SpentIsKnown /\ LooksFirst /\ RefusedForCause
  BY DEF Init, GateKept, Unshared, SpentIsKnown, LooksFirst, RefusedForCause, Gate, Tasks,
         Holding
<1>4. Issued /\ ChainKept
  BY DEF Init, Issued, IsIssued, ChainKept
<1>. QED  BY <1>2, <1>3, <1>4 DEF Ind

LEMMA NextInd == Ind /\ [Next]_vars => Ind'
<1>. SUFFICES ASSUME Ind, [Next]_vars PROVE Ind'
  OBVIOUS
<1>1. ASSUME NEW t \in Task, Calls(t) PROVE Ind'
  BY <1>1, CallsKeepsInd
<1>2. ASSUME NEW t \in Task, Decides(t) PROVE Ind'
  BY <1>2, DecidesKeepsInd
<1>3. ASSUME NEW t \in Task, Rechecks(t) PROVE Ind'
  BY <1>3, RechecksKeepsInd
<1>4. ASSUME NEW t \in Task, Grants(t) PROVE Ind'
  BY <1>4, GrantsKeepsInd
<1>5. ASSUME NEW t \in Task, Refuses(t) PROVE Ind'
  BY <1>5, RefusesKeepsInd
<1>6. ASSUME NEW t \in Task, TimesOut(t) PROVE Ind'
  BY <1>6, TimesOutKeepsInd
<1>7. ASSUME NEW t \in Task, Checks(t) PROVE Ind'
  BY <1>7, ChecksKeepsInd
<1>8. ASSUME NEW t \in Task, Persists(t) PROVE Ind'
  BY <1>8, PersistsKeepsInd
<1>9. ASSUME NEW t \in Task, Closes(t) PROVE Ind'
  BY <1>9, ClosesKeepsInd
<1>10. ASSUME NEW t \in Task, Wakes(t) PROVE Ind'
  BY <1>10, WakesKeepsInd
<1>11. ASSUME NEW t \in Task, Cancels(t) PROVE Ind'
  BY <1>11, CancelsKeepsInd
<1>12. CASE LogsIn
  BY <1>12, LogsInKeepsInd
<1>13. CASE LogsOut
  BY <1>13, LogsOutKeepsInd
<1>14. CASE Expires
  BY <1>14, ExpiresKeepsInd
<1>15. ASSUME NEW p \in Procs, Crashes(p) PROVE Ind'
  BY <1>15, CrashesKeepsInd
<1>16. CASE UNCHANGED vars
  BY <1>16, StutterKeepsInd
<1>. QED
  BY <1>1, <1>2, <1>3, <1>4, <1>5, <1>6, <1>7, <1>8,
     <1>9, <1>10, <1>11, <1>12, <1>13, <1>14, <1>15, <1>16 DEF Next, Step

LEMMA Inductive == Spec => []Ind
BY InitInd, NextInd, PTL DEF Spec

-----------------------------------------------------------------------------
(* The theorems.                                                           *)

\* Every variable keeps its type, whatever the tasks, the processes and the bounds.
THEOREM Types == Spec => []TypeOK
<1>1. Ind => TypeOK
  BY DEF Ind
<1>. QED  BY <1>1, Inductive, PTL

\* RefreshCoordinator: one refresh at a time in a process, a gate that opens again, and no
\* waiter without someone to wake it.
THEOREM GateIsKept == Spec => []GateKept
<1>1. Ind => GateKept
  BY DEF Ind
<1>. QED  BY <1>1, Inductive, PTL

\* A refresh token in the store that the server no longer accepts is being replaced, or its
\* successor was lost on the way.
THEOREM ChainIsKept == Spec => []ChainKept
<1>1. Ind => ChainKept
  BY DEF Ind
<1>. QED  BY <1>1, Inductive, PTL

\* Two tasks of one process never spend the same refresh token, unless an answer was lost
\* or a write was missed by the cache.
THEOREM RefusalsHaveACause == Spec => []RefusedForCause
<1>1. Ind => RefusedForCause
  BY DEF Ind
<1>. QED  BY <1>1, Inductive, PTL

\* coordinated_access_core replaces a usable credential it did not start from only when it
\* had no chance to see it.
THEOREM LoginsAreKept == Spec => LoginsKept
<1>1. Ind /\ [Next]_vars => [\A t \in Task :
                                /\ pc[t] = "persists" /\ pc'[t] = "closes" /\ store' # store
                                /\ Usable(store) /\ store.access # cur[t].access
                                => t \in blind]_vars
  BY DEF Ind, LooksFirst, Newer
<1>. QED  BY <1>1, Inductive, PTL DEF Spec, LoginsKept

=============================================================================
