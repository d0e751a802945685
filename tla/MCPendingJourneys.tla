-------------------------- MODULE MCPendingJourneys --------------------------
(* Two sessions of one executable near enough to be merged, and a third one  *)
(* that is too late to join them.                                            *)
EXTENDS PendingJourneys, TLC

CONSTANT game

MCPlayed == {[exe |-> game, from |-> 0, to |-> 2],
             [exe |-> game, from |-> 3, to |-> 5],
             [exe |-> game, from |-> 8, to |-> 9]}

MCTwoPlayed == {s \in MCPlayed : s.from < 8}

Symmetry == Permutations(Slot)
==============================================================================
