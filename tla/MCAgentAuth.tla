----------------------------- MODULE MCAgentAuth -----------------------------
(* The agent's sign-in with the real durations, in days. *)
EXTENDS AgentAuth

(* Two minutes to two hours: the same day, or the next. *)
MCRefreshBackoff == <<0, 1>>
================================================================================
