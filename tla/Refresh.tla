------------------------------ MODULE Refresh ------------------------------
(***************************************************************************)
(* The access token of a ChatGPT account: one credential on disk, shared   *)
(* by every task of every process, which whoever finds it expired trades   *)
(* in for a new one (crates/hrdr-agent/src/oauth.rs).                      *)
(*                                                                         *)
(* Inside a process one task refreshes and the others wait for it.         *)
(* Between processes there is only the file and its modification time,     *)
(* which each process caches (crates/hrdr-agent/src/auth_store.rs).  A     *)
(* refresh token may be used once when the server rotates it, so losing    *)
(* the answer to a request loses the account until the next login.         *)
(*                                                                         *)
(* One action is what a task does between two awaits, cut where it reads   *)
(* or writes what others share: the file, the gate, the waiters.           *)
(***************************************************************************)
EXTENDS Naturals, FiniteSets

CONSTANTS
    Procs,       \* the processes
    Task,        \* the tasks that ask for an access token
    Home,        \* [Task -> the process it runs in]
    NoCred,      \* no credential
    MaxGrants,   \* bound: grants of the server, the first login's included
    Plans        \* bounds: what happens in one behaviour, records of
                 \*   rotates: whether the server rotates refresh tokens
                 \*   coarse: whether two writes may share a modification time
                 \*   calls: [Task -> the calls it makes]
                 \*   logins, logouts, cancels, faults, crashes: how many

ASSUME TasksAssumption == Home \in [Task -> Procs] /\ IsFiniteSet(Task)

ASSUME GrantsAssumption == MaxGrants \in Nat \ {0} /\ NoCred \notin [access : Nat, refresh : Nat]

Bounds == [rotates : BOOLEAN, coarse : BOOLEAN, calls : [Task -> Nat], logins : Nat,
           logouts : Nat, cancels : Nat, faults : Nat, crashes : Nat]

ASSUME PlansAssumption == Plans \subseteq Bounds

VARIABLES
    store,       \* the credential in auth.json
    stamp,       \* the file's modification time
    cache,       \* [Procs -> what it last read, and at which modification time]
    refreshing,  \* [Procs -> a refresh is in flight]
    pc,          \* [Task -> where its call stands]
    cur,         \* [Task -> the credential it trades in]
    fresh,       \* [Task -> the one it was granted]
    grants,      \* the server's: how many it has granted
    live,        \* the server's: the refresh tokens it accepts
    expired,     \* the access tokens past their time, or within a minute of it
    spentBy,     \* history variable: <<refresh token, the process whose request spent it>>
    lost,        \* history variable: spent tokens whose successor was never stored
    blind,       \* history variable: tasks whose last reading of the store is not what is there
    plan         \* what may still happen

disk == <<store, stamp>>
server == <<grants, live, spentBy>>
vars == <<disk, cache, refreshing, pc, cur, fresh, server, expired, lost, blind, plan>>

-----------------------------------------------------------------------------
(* The store.                                                              *)

Grant == 1..MaxGrants
Cred == [access : Grant, refresh : Grant]

Tasks(p) == {t \in Task : Home[t] = p}

\* !access_expired
Usable(c) == c # NoCred /\ c.access \notin expired

\* load_oauth_entry_at: a file whose time is the cached one is not read again.
Load(p) ==
    IF store # NoCred /\ cache[p].time = stamp THEN cache[p].cred ELSE store

\* What reading leaves in the cache: a missing file leaves it alone.
Reads(p) ==
    cache' = IF store = NoCred THEN cache
             ELSE [cache EXCEPT ![p] = [time |-> stamp, cred |-> Load(p)]]

\* Those who do not know what is there: the last to read before a write, or from a cache
\* that missed one.
Blinds(t) == blind' = IF Load(Home[t]) = store THEN blind \ {t} ELSE blind \union {t}

\* save_oauth_entry_at, under the store lock.  The file's time moves on, unless the clock
\* is coarse.
Writes(c) ==
    /\ store' = c
    /\ \/ stamp' = stamp + 1
       \/ plan.coarse /\ stamp' = stamp

-----------------------------------------------------------------------------
(* One call of coordinated_access_core.                                    *)

\* Where the guard is held, and the request not yet over.
Gate == {"rechecks", "requests", "granted", "persists", "closes"}

Goes(t, where) == pc' = [pc EXCEPT ![t] = where]

Calls(t) ==
    /\ pc[t] = "idle" /\ plan.calls[t] > 0
    /\ Goes(t, "asks")
    /\ plan' = [plan EXCEPT !.calls[t] = @ - 1]
    /\ UNCHANGED <<disk, cache, refreshing, cur, fresh, server, expired, lost, blind>>

\* Mutant: whoever finds the credential expired refreshes it.
DecidesAlone(t) ==
    /\ pc[t] = "asks"
    /\ LET p == Home[t]
           c == Load(p)
       IN
        /\ Reads(p)
        /\ IF c = NoCred \/ Usable(c)
           THEN Goes(t, "idle") /\ UNCHANGED refreshing
           ELSE Goes(t, "rechecks") /\ refreshing' = [refreshing EXCEPT ![p] = TRUE]
    /\ UNCHANGED <<disk, cur, fresh, server, expired, lost, blind, plan>>

\* The decision, under the coordinator's lock.  A waiter is registered before the lock is
\* released.
Decides(t) ==
    /\ pc[t] = "asks"
    /\ LET p == Home[t]
           c == Load(p)
       IN
        /\ Reads(p)
        /\ \/ /\ c = NoCred \/ Usable(c)
              /\ Goes(t, "idle")
              /\ UNCHANGED refreshing
           \/ /\ c # NoCred /\ ~Usable(c) /\ refreshing[p]
              /\ Goes(t, "waits")
              /\ UNCHANGED refreshing
           \/ /\ c # NoCred /\ ~Usable(c) /\ ~refreshing[p]
              /\ Goes(t, "rechecks")
              /\ refreshing' = [refreshing EXCEPT ![p] = TRUE]
    /\ UNCHANGED <<disk, cur, fresh, server, expired, lost, blind, plan>>

\* Mutant: a credential that vanished is traded in all the same.
RechecksBlindly(t) ==
    /\ pc[t] = "rechecks"
    /\ LET c == Load(Home[t]) IN
        /\ Reads(Home[t])
        /\ \/ /\ Usable(c)
              /\ Goes(t, "closes")
              /\ UNCHANGED <<cur, blind>>
           \/ /\ ~Usable(c)
              /\ cur' = [cur EXCEPT ![t] = c]
              /\ Goes(t, "requests")
              /\ Blinds(t)
    /\ UNCHANGED <<disk, refreshing, fresh, server, expired, lost, plan>>

\* The refresher reads the store again: another process may have written it since.
Rechecks(t) ==
    /\ pc[t] = "rechecks"
    /\ LET c == Load(Home[t]) IN
        /\ Reads(Home[t])
        /\ \/ /\ c = NoCred \/ Usable(c)
              /\ Goes(t, "closes")
              /\ UNCHANGED <<cur, blind>>
           \/ /\ c # NoCred /\ ~Usable(c)
              /\ cur' = [cur EXCEPT ![t] = c]
              /\ Goes(t, "requests")
              /\ Blinds(t)
    /\ UNCHANGED <<disk, refreshing, fresh, server, expired, lost, plan>>

\* Mutant: the used refresh token is kept though the server sent another.
KeepsUsed(t) ==
    /\ pc[t] = "requests" /\ cur[t].refresh \in live /\ grants < MaxGrants
    /\ grants' = grants + 1
    /\ fresh' = [fresh EXCEPT ![t] = [access |-> grants + 1, refresh |-> cur[t].refresh]]
    /\ IF plan.rotates
       THEN /\ live' = (live \ {cur[t].refresh}) \union {grants + 1}
            /\ spentBy' = spentBy \union {<<cur[t].refresh, Home[t]>>}
       ELSE UNCHANGED <<live, spentBy>>
    /\ Goes(t, "granted")
    /\ UNCHANGED <<disk, cache, refreshing, cur, expired, lost, blind, plan>>

\* The server answers a request with a new access token, and a new refresh token if it
\* rotates them; `keeping` keeps the used one otherwise.
Grants(t) ==
    /\ pc[t] = "requests" /\ cur[t].refresh \in live /\ grants < MaxGrants
    /\ LET n == grants + 1
           used == cur[t].refresh
       IN
        /\ grants' = n
        /\ IF plan.rotates
           THEN /\ fresh' = [fresh EXCEPT ![t] = [access |-> n, refresh |-> n]]
                /\ live' = (live \ {used}) \union {n}
                /\ spentBy' = spentBy \union {<<used, Home[t]>>}
           ELSE /\ fresh' = [fresh EXCEPT ![t] = [access |-> n, refresh |-> used]]
                /\ UNCHANGED <<live, spentBy>>
    /\ Goes(t, "granted")
    /\ UNCHANGED <<disk, cache, refreshing, cur, expired, lost, blind, plan>>

\* It refuses a token that was spent.
Refuses(t) ==
    /\ pc[t] = "requests" /\ cur[t].refresh \notin live
    /\ Goes(t, "closes")
    /\ UNCHANGED <<disk, cache, refreshing, cur, fresh, server, expired, lost, blind,
                   plan>>

\* What is lost when the answer to t's request is.
Loses(t) ==
    lost' = IF pc[t] \in {"granted", "persists"} /\ cur[t].refresh \notin live
            THEN lost \union {cur[t].refresh} ELSE lost

\* Mutant: a request without a deadline.
TimesOutNever(t) == FALSE /\ UNCHANGED vars

\* OAUTH_HTTP_TIMEOUT, or another failure of the network: the request fails, and what the
\* server may have granted is not seen.
TimesOut(t) ==
    /\ \/ /\ pc[t] = "requests"
          /\ UNCHANGED plan
       \/ /\ pc[t] = "granted" /\ plan.faults > 0
          /\ plan' = [plan EXCEPT !.faults = @ - 1]
    /\ Loses(t)
    /\ Goes(t, "closes")
    /\ UNCHANGED <<disk, cache, refreshing, cur, fresh, server, expired, blind>>

\* Mutant: the store is not read again.
ChecksNothing(t) ==
    /\ pc[t] = "granted"
    /\ Goes(t, "persists")
    /\ Blinds(t)
    /\ UNCHANGED <<disk, cache, refreshing, cur, fresh, server, expired, lost, plan>>

\* c is not what t trades in, and can be used.
Newer(t, c) == Usable(c) /\ c.access # cur[t].access

\* The answer is here, and the store is read again: a newer credential wins over it.
Checks(t) ==
    /\ pc[t] = "granted"
    /\ LET latest == Load(Home[t]) IN
        /\ Reads(Home[t])
        /\ \/ /\ Newer(t, latest)
              /\ Loses(t)
              /\ Goes(t, "closes")
              /\ UNCHANGED blind
           \/ /\ ~Newer(t, latest)
              /\ Goes(t, "persists")
              /\ Blinds(t)
              /\ UNCHANGED lost
    /\ UNCHANGED <<disk, refreshing, cur, fresh, server, expired, plan>>

\* Those who have read the store and are about to write it.
Writing == {t \in Task : pc[t] = "persists"}

\* The write, whose failure is ignored.
Persists(t) ==
    /\ pc[t] = "persists"
    /\ \/ /\ Writes(fresh[t])
          /\ blind' = blind \union Writing
          /\ UNCHANGED <<lost, plan>>
       \/ /\ plan.faults > 0
          /\ plan' = [plan EXCEPT !.faults = @ - 1]
          /\ Loses(t)
          /\ UNCHANGED <<disk, blind>>
    /\ Goes(t, "closes")
    /\ UNCHANGED <<cache, refreshing, cur, fresh, server, expired>>

\* RefresherGuard::drop: the gate is cleared, and its lock released ...
Closes(t) ==
    /\ pc[t] = "closes"
    /\ refreshing' = [refreshing EXCEPT ![Home[t]] = FALSE]
    /\ Goes(t, "wakes")
    /\ cur' = [cur EXCEPT ![t] = NoCred] /\ fresh' = [fresh EXCEPT ![t] = NoCred]
    /\ blind' = blind \ {t}
    /\ UNCHANGED <<disk, cache, server, expired, lost, plan>>

\* ... and then every waiter woken.
Wakes(t) ==
    /\ pc[t] = "wakes"
    /\ pc' = [u \in Task |->
                IF u = t THEN "idle"
                ELSE IF Home[u] = Home[t] /\ pc[u] = "waits" THEN "asks"
                ELSE pc[u]]
    /\ UNCHANGED <<disk, cache, refreshing, cur, fresh, server, expired, lost, blind,
                   plan>>

\* Mutant: a cancelled request leaves the gate as it is.
CancelsUnguarded(t) ==
    /\ plan.cancels > 0
    /\ plan' = [plan EXCEPT !.cancels = @ - 1]
    /\ pc[t] \in {"waits", "requests", "granted"}
    /\ Goes(t, "idle")
    /\ Loses(t)
    /\ UNCHANGED <<disk, cache, refreshing, cur, fresh, server, expired, blind>>

\* The turn that waits for the token is cancelled: the call is dropped at an await, and
\* with it the guard.
Cancels(t) ==
    /\ plan.cancels > 0
    /\ plan' = [plan EXCEPT !.cancels = @ - 1]
    /\ \/ pc[t] = "waits" /\ Goes(t, "idle")
       \/ pc[t] \in {"requests", "granted"} /\ Goes(t, "closes")
    /\ Loses(t)
    /\ UNCHANGED <<disk, cache, refreshing, cur, fresh, server, expired, blind>>

-----------------------------------------------------------------------------
(* What happens around the calls.                                          *)

\* A browser login, in any process, ends with a credential of its own in the store.
LogsIn ==
    /\ plan.logins > 0 /\ grants < MaxGrants
    /\ plan' = [plan EXCEPT !.logins = @ - 1]
    /\ grants' = grants + 1
    /\ live' = live \union {grants + 1}
    /\ Writes([access |-> grants + 1, refresh |-> grants + 1])
    /\ blind' = blind \union Writing
    /\ UNCHANGED <<cache, refreshing, pc, cur, fresh, spentBy, expired, lost>>

\* The user deletes auth.json.
LogsOut ==
    /\ plan.logouts > 0 /\ store # NoCred
    /\ plan' = [plan EXCEPT !.logouts = @ - 1]
    /\ store' = NoCred
    /\ blind' = blind \union Writing
    /\ UNCHANGED <<stamp, cache, refreshing, pc, cur, fresh, server, expired, lost>>

\* Time passes for an access token that someone may still look at.
Expires ==
    /\ \E c \in ({store} \union {cache[p].cred : p \in Procs} \union {fresh[t] : t \in Task})
            \ {NoCred} :
        /\ Usable(c)
        /\ expired' = expired \union {c.access}
    /\ UNCHANGED <<disk, cache, refreshing, pc, cur, fresh, server, lost, blind, plan>>

\* A process dies, and another takes its place.
Crashes(p) ==
    /\ plan.crashes > 0
    /\ plan' = [plan EXCEPT !.crashes = @ - 1]
    /\ pc' = [t \in Task |-> IF Home[t] = p THEN "idle" ELSE pc[t]]
    /\ refreshing' = [refreshing EXCEPT ![p] = FALSE]
    /\ cache' = [cache EXCEPT ![p] = [time |-> 0, cred |-> NoCred]]
    /\ lost' = lost \union {cur[t].refresh :
                              t \in {u \in Tasks(p) : /\ pc[u] \in {"granted", "persists"}
                                                      /\ cur[u].refresh \notin live}}
    /\ cur' = [t \in Task |-> IF Home[t] = p THEN NoCred ELSE cur[t]]
    /\ fresh' = [t \in Task |-> IF Home[t] = p THEN NoCred ELSE fresh[t]]
    /\ blind' = blind \ Tasks(p)
    /\ UNCHANGED <<disk, server, expired>>

-----------------------------------------------------------------------------

Init ==
    /\ store = [access |-> 1, refresh |-> 1] /\ stamp = 1
    /\ cache = [p \in Procs |-> [time |-> 0, cred |-> NoCred]]
    /\ refreshing = [p \in Procs |-> FALSE]
    /\ pc = [t \in Task |-> "idle"]
    /\ cur = [t \in Task |-> NoCred] /\ fresh = [t \in Task |-> NoCred]
    /\ grants = 1 /\ live = {1} /\ expired = {}
    /\ spentBy = {} /\ lost = {} /\ blind = {}
    /\ plan \in Plans

\* What t does by itself: the request ends at its deadline if not before.
Step(t) ==
    \/ Decides(t) \/ Rechecks(t) \/ TimesOut(t) \/ Checks(t) \/ Persists(t) \/ Closes(t)
    \/ Wakes(t)

Next ==
    \/ \E t \in Task : Step(t) \/ Calls(t) \/ Grants(t) \/ Refuses(t) \/ Cancels(t)
    \/ LogsIn \/ LogsOut \/ Expires
    \/ \E p \in Procs : Crashes(p)

Spec == Init /\ [][Next]_vars

\* Tasks are scheduled, and a request has a deadline; the server owes no answer.
FairSpec == Spec /\ \A t \in Task : WF_vars(Step(t))

-----------------------------------------------------------------------------
(* Properties.                                                             *)

\* Every variable has its type; who trades a credential in has one, and who has been
\* granted another has that.
TypeOK ==
    /\ store \in Cred \union {NoCred} /\ stamp \in Nat
    /\ cache \in [Procs -> [time : 0..stamp, cred : Cred \union {NoCred}]]
    /\ refreshing \in [Procs -> BOOLEAN]
    /\ pc \in [Task -> {"idle", "asks", "waits", "wakes"} \union Gate]
    /\ cur \in [Task -> Cred \union {NoCred}] /\ fresh \in [Task -> Cred \union {NoCred}]
    /\ grants \in Grant /\ live \subseteq 1..grants /\ expired \subseteq Grant
    /\ spentBy \subseteq Grant \X Procs /\ lost \subseteq Grant /\ blind \subseteq Task
    /\ plan \in Bounds
    /\ \A t \in Task :
        /\ pc[t] \in {"requests", "granted", "persists"} => cur[t] # NoCred
        /\ pc[t] \in {"granted", "persists"} => fresh[t] # NoCred

\* In a process one task at a time holds the gate, the gate is shut only while one does,
\* and a task waits only for one that will still wake it: whatever way the refresher's call
\* ends, and however the last waiter's registration falls between its two last steps.
GateKept ==
    /\ \A p \in Procs : refreshing[p] <=> \E t \in Tasks(p) : pc[t] \in Gate
    /\ \A t, u \in Task : Home[t] = Home[u] /\ pc[t] \in Gate /\ pc[u] \in Gate => t = u
    /\ \A t \in Task :
        pc[t] = "waits" => \E u \in Tasks(Home[t]) : pc[u] \in Gate \union {"wakes"}

\* The refresh token in the store is one the server accepts, but while the task that spent
\* it is about to store its successor, and after that successor was lost: with an answer
\* that came too late, a cancelled turn, a crash, a write that failed.
ChainKept ==
    store # NoCred /\ store.refresh \notin live =>
        \/ store.refresh \in lost
        \/ \E t \in Task :
            pc[t] \in {"granted", "persists"} /\ cur[t].refresh = store.refresh

\* A request is refused only for what happened outside its process, for a token whose
\* successor was lost, or for one read from a cache that had missed a write: two tasks of
\* one process never spend the same token.
RefusedForCause ==
    \A t \in Task :
        pc[t] = "requests" /\ cur[t].refresh \notin live =>
            \E p \in Procs :
                /\ <<cur[t].refresh, p>> \in spentBy
                /\ p # Home[t] \/ cur[t].refresh \in lost \/ t \in blind

\* A refresh replaces the credential it was made from, or one that has expired; a usable
\* one of a login, or of another process, only when it was written after the refresher had
\* looked, or in the same tick of a coarse clock as what its process has cached.
LoginsKept ==
    [][\A t \in Task :
        /\ pc[t] = "persists" /\ pc'[t] = "closes" /\ store' # store
        /\ Usable(store) /\ store.access # cur[t].access
        => t \in blind]_vars

\* Every call for a token ends, whether the server answers or not and whatever becomes of
\* the task it waits for.
CallsEnd == \A t \in Task : pc[t] # "idle" ~> pc[t] = "idle"

=============================================================================
