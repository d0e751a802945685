--------------------------- MODULE MCVelocityLimiter ---------------------------
(* Model checking VelocityLimiter: the users are interchangeable, and the     *)
(* properties are about single steps.                                         *)
EXTENDS VelocityLimiter, TLC

Symmetry == Permutations(User)

================================================================================
