---------------------------- MODULE MCNotifications ----------------------------
(* An owner, and another player who comments, follows and waits for a release. *)
EXTENDS Notifications, TLC

(* Two requests and a clock that stops on the next day but one; or one request, *)
(* the maintenance job, and a week and the release date to either side of it.  *)
MCStarts ==
    {[now |-> MaxTime - 2, release |-> 1, requests |-> 0, jobs |-> MaxJobs, faults |-> 0]}
    \cup {[now |-> 0, release |-> d, requests |-> MaxRequests - 1, jobs |-> 0, faults |-> 0] :
             d \in Dates}

Symmetry == Permutations(Slot)
================================================================================
