------------------------------ MODULE MCWebPages ------------------------------
(* The pages on small instances. *)
EXTENDS WebPages
================================================================================
