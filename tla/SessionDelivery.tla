---------------------------- MODULE SessionDelivery ----------------------------
(****************************************************************************)
(* What the agent promises for one play session, whatever its threads, its  *)
(* crashes and the network do: a session that was noticed is either handed  *)
(* to the API or dropped because it was too short, and a session that waits *)
(* in the outbox is delivered sooner or later.  A session is named by its   *)
(* key, the executable and the second it was first seen, which is what the  *)
(* outbox and the API identify it by.                                       *)
(****************************************************************************)

CONSTANT Key            \* the sessions there can be

VARIABLE status         \* how far each session has come

Statuses == {"none", "open", "waiting", "delivered", "dropped"}

Init == status = [k \in Key |-> "none"]

(* The watcher notices some games at once.  A session that was dropped can   *)
(* be noticed again: a second process of the game in the very same second.  *)
Begin == \E ks \in (SUBSET Key) \ {{}} :
            /\ \A k \in ks : status[k] \in {"none", "dropped"}
            /\ status' = [k \in Key |-> IF k \in ks THEN "open" ELSE status[k]]

Close(k) == /\ status[k] = "open"
            /\ status' = [status EXCEPT ![k] = "waiting"]

Drop(k) == /\ status[k] = "open"
           /\ status' = [status EXCEPT ![k] = "dropped"]

Deliver(k) == /\ status[k] = "waiting"
              /\ status' = [status EXCEPT ![k] = "delivered"]

Next == \/ Begin
        \/ \E k \in Key : Close(k) \/ Drop(k) \/ Deliver(k)

Safety == Init /\ [][Next]_status

(* Each session is delivered at most once, so for finitely many sessions this *)
(* says that every waiting one is delivered.                                 *)
Spec == Safety /\ WF_status(\E k \in Key : Deliver(k))

================================================================================
