------------------------ MODULE MCNotificationMonitor ------------------------
(* The owner of the journey runs an agent; somebody else follows or comments. *)
EXTENDS NotificationMonitor

(* Two requests, or one and a failure. *)
MCStarts ==
    {[now |-> 0, release |-> 0, requests |-> 0, jobs |-> 0, faults |-> MaxFaults],
     [now |-> 0, release |-> 0, requests |-> 1, jobs |-> 0, faults |-> 0]}
==============================================================================
