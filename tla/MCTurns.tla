------------------------------ MODULE MCTurns ------------------------------
(* What the surroundings of the main agent do, for the runs of Turns.      *)
EXTENDS Turns

Plan(messages, results, cancels, compact, clears, quits) ==
    [messages |-> messages, results |-> results, cancels |-> cancels, compact |-> compact,
     clears |-> clears, quits |-> quits]

AnyPeer == CHOOSE p \in Peer : TRUE

MCPlans ==
    {Plan({1, AnyPeer}, {}, 1, {}, 0, FALSE),
     Plan({1, AnyPeer}, {}, 0, {}, 0, TRUE),
     Plan(Peer, {}, 0, {}, 0, TRUE),
     Plan({1}, Result, 0, {}, 0, TRUE),
     Plan({}, Result, 1, {}, 0, FALSE),
     Plan({1}, {}, 0, Panes, 0, FALSE),
     Plan({1}, {}, 1, {"main"}, 0, FALSE),
     Plan({AnyPeer}, {}, 0, {"sub"}, 0, FALSE),
     Plan(Human, {}, 0, {}, 1, FALSE),
     Plan({AnyPeer}, {}, 0, {}, 1, TRUE),
     Plan({}, Result, 0, {}, 1, FALSE),
     Plan(Human, {}, 1, {}, 0, TRUE)}

=============================================================================
