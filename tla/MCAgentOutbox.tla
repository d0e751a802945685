----------------------------- MODULE MCAgentOutbox -----------------------------
(* Values for model checking AgentOutbox. *)
EXTENDS AgentOutbox, TLC

MCBackoff == <<1>>   \* one wait, the same after every failure

(* No step tells one pid from another, or one game: sound for the invariants. *)
Symmetry == Permutations(Pid) \cup Permutations(Exe)

================================================================================
