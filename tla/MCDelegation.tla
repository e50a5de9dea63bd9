---------------------------- MODULE MCDelegation ----------------------------
(* Two readers and a writer, and what happens around them, for the runs of  *)
(* Delegation.                                                             *)
EXTENDS Delegation, TLC

CONSTANTS r1, r2, w1

MCJob == {r1, r2, w1}
MCWriters == {w1}
MCCap == "read" :> 1 @@ "write" :> 1

Plan(jobs, steers, cancels, interrupts, clears) ==
    [jobs |-> jobs, steers |-> steers, cancels |-> cancels, interrupts |-> interrupts,
     clears |-> clears]

MCPlans ==
    {Plan({r1, r2}, {}, 1, 0, 0),
     Plan({r1, w1}, {}, 0, 0, 0),
     Plan({r1}, Steer, 1, 1, 0),
     Plan({r1}, Steer, 0, 1, 1),
     Plan({r1, r2}, {}, 0, 1, 1)}

=============================================================================
