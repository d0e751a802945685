------------------------------ MODULE WebClient ------------------------------
(****************************************************************************)
(* What the pages of the web app share: the requests of a page and the cache *)
(* of react-query, modelled from how the pages use it (main.tsx: a failed   *)
(* query is not retried, data is fresh for thirty seconds).                 *)
(*                                                                          *)
(* A request is three steps: sent, worked on by the server, answered.  Any   *)
(* other step of the page or of another request may come in between, and it *)
(* may fail before or after the server has acted.  Two equal requests that   *)
(* are both waiting for the server count as one.                            *)
(****************************************************************************)
EXTENDS Integers, Sequences, FiniteSets

CONSTANTS
    None,           \* no data, no request, nothing chosen
    Asked,          \* a query the server has not worked on yet (WebLists)
    PageSize,       \* the rows of a page: 20 or 50 in the code
    MaxClicks,      \* bound on the clicks, and on what others do
    MaxFaults       \* bound on failed requests

ASSUME ClientAssumption ==
    /\ None # Asked /\ None \notin Nat /\ None \notin BOOLEAN
    /\ PageSize \in Nat \ {0}
    /\ MaxClicks \in Nat \ {0} /\ MaxFaults \in Nat

VARIABLES
    clicks,         \* the clicks so far
    faults          \* requests failed so far

budget == <<clicks, faults>>

Click == clicks < MaxClicks /\ clicks' = clicks + 1 /\ UNCHANGED faults

Fault == faults < MaxFaults /\ faults' = faults + 1 /\ UNCHANGED clicks

--------------------------------------------------------------------------------
(* A query: the data last fetched, where the request for newer is, and the     *)
(* answer that is on its way.                                                *)

NewQuery == [data |-> None, req |-> "asked", answer |-> None]

Cached(value) == [data |-> value, req |-> "none", answer |-> None]

NotAsked == [data |-> None, req |-> "none", answer |-> None]

(* A timer, the window's focus, a mount with stale data. *)
Refetched(q) == IF q.req = "none" THEN [q EXCEPT !.req = "asked"] ELSE q

(* invalidateQueries on a mounted query: the request in flight is dropped for *)
(* a new one, unless it is the first.                                        *)
Invalidated(q) ==
    IF q.data = None /\ q.req # "none" THEN q
    ELSE [q EXCEPT !.req = "asked", !.answer = None]

IsAsked(q)   == q.req = "asked"
IsServed(q)  == q.req = "served"
InFlight(q)  == q.req # "none"

Served(q, value) == [q EXCEPT !.req = "served", !.answer = value]
Arrived(q)       == [data |-> q.answer, req |-> "none", answer |-> None]
Lost(q)          == [q EXCEPT !.req = "none", !.answer = None]

(* setQueryData. *)
Written(q, value) == [q EXCEPT !.data = value]

--------------------------------------------------------------------------------
(* A mutation in flight: sent until the server has worked on it, then done. *)

Sent(op, arg) == [op |-> op, arg |-> arg, at |-> "sent"]
Done(w)       == [w EXCEPT !.at = "done"]

Pending(writes, op) == \E w \in writes : w.op = op

Replace(writes, w, v) == (writes \ {w}) \cup {v}
================================================================================
