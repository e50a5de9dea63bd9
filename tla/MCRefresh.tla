----------------------------- MODULE MCRefresh ------------------------------
(* Three tasks of one process and one of another, and what happens around  *)
(* them, for the run of Refresh.                                           *)
EXTENDS Refresh, TLC

CONSTANTS p1, p2, t1, t2, t3, u1

MCProcs == {p1, p2}
MCTask == {t1, t2, t3, u1}
MCHome == t1 :> p1 @@ t2 :> p1 @@ t3 :> p1 @@ u1 :> p2

\* The calls of t1, t2, t3 and u1.
Each(k, l, m, n) == t1 :> k @@ t2 :> l @@ t3 :> m @@ u1 :> n

Plan(rotates, coarse, calls, logins, logouts, cancels, faults, crashes) ==
    [rotates |-> rotates, coarse |-> coarse, calls |-> calls, logins |-> logins,
     logouts |-> logouts, cancels |-> cancels, faults |-> faults, crashes |-> crashes]

MCPlans ==
    {Plan(TRUE, FALSE, Each(1, 1, 0, 1), 1, 0, 1, 0, 0),
     Plan(TRUE, FALSE, Each(1, 1, 1, 0), 0, 0, 1, 0, 0),
     Plan(TRUE, TRUE, Each(2, 0, 0, 1), 1, 0, 0, 0, 0),
     Plan(TRUE, FALSE, Each(2, 1, 0, 0), 0, 0, 0, 1, 1),
     Plan(FALSE, FALSE, Each(1, 1, 0, 1), 1, 1, 0, 0, 0)}

=============================================================================
