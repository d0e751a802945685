-------------------------- MODULE NotificationMonitor --------------------------
(****************************************************************************)
(* The agent's notification monitor over the API's notifications: every hour,  *)
(* and once at its start, it asks for the player's preferences, then for the   *)
(* first page of notifications, shows the unread ones it has not shown before, *)
(* and writes down in SQLite which it has shown.                              *)
(*                                                                          *)
(* The timer fires on threads of a pool and Stop does not end a check, so that *)
(* checks overlap; a check may fail at any of its calls, and the agent may be  *)
(* closed between a toast and the note of it.                                *)
(****************************************************************************)
EXTENDS Notifications

CONSTANTS
    Player,         \* the one signed in to the agent
    Check,          \* checks that run at once
    PageSize        \* notifications of a page: 50

ASSUME MonitorAssumption ==
    /\ Player \in People /\ PageSize \in Nat \ {0}
    /\ IsFiniteSet(Check)

VARIABLES
    started,        \* the timer runs
    wanted,         \* the server: the player's preference for notifications
    checks,         \* checks in flight
    notified,       \* SQLite: ids shown, kept for good
    toasts,         \* history: how often each id was shown
    cut,            \* history: toasts of each id whose note was never written
    crowd           \* history: the most checks that ran at once

agent       == <<started, checks, notified, toasts, cut, crowd>>
monitorVars == <<vars, wanted, agent>>

Ids == 1 .. nextId - 1

Resting == [at |-> "rest", list |-> {}, cur |-> 0]

MonitorInit ==
    /\ Init
    /\ started = FALSE /\ wanted = TRUE
    /\ checks = [c \in Check |-> Resting]
    /\ notified = {}
    /\ toasts = [id \in {} |-> 0] /\ cut = [id \in {} |-> 0]
    /\ crowd = 0

Count(f, id) == IF id \in DOMAIN f THEN f[id] ELSE 0
Counted(f, ids) ==
    [id \in DOMAIN f \cup ids |-> Count(f, id) + (IF id \in ids THEN 1 ELSE 0)]

CheckAt(c, place) == checks[c].at = place
SetCheck(c, r) == checks' = [checks EXCEPT ![c] = r]

Running == {c \in Check : ~CheckAt(c, "rest")}

--------------------------------------------------------------------------------
(* Start: the timer, and a check at once.  Elapsed: a check, whatever others  *)
(* are doing.                                                                *)

Begin(c) ==
    /\ CheckAt(c, "rest")
    /\ SetCheck(c, [Resting EXCEPT !.at = "me"])
    /\ LET n == Cardinality(Running) + 1 IN crowd' = IF n > crowd THEN n ELSE crowd
    /\ UNCHANGED <<vars, wanted, notified, toasts, cut>>

MonitorStart(c) == ~started /\ started' = TRUE /\ Begin(c)

Elapsed(c) == started /\ Begin(c) /\ UNCHANGED started

(* The timer only. *)
MonitorStop ==
    /\ started /\ started' = FALSE
    /\ UNCHANGED <<vars, wanted, checks, notified, toasts, cut, crowd>>

--------------------------------------------------------------------------------
(* CheckForNotificationsAsync.                                               *)

GetMe(c) ==
    /\ CheckAt(c, "me")
    /\ SetCheck(c, IF wanted THEN [checks[c] EXCEPT !.at = "list"] ELSE Resting)
    /\ UNCHANGED <<vars, wanted, started, notified, toasts, cut, crowd>>

Mine == {id \in DOMAIN rows : rows[id].to = Player}

Newer(i, j) ==
    rows[i].updated > rows[j].updated \/ (rows[i].updated = rows[j].updated /\ i > j)

(* ORDER BY updated_at DESC, id DESC LIMIT 50. *)
Page == {id \in Mine : Cardinality({i \in Mine : Newer(i, id)}) < PageSize}

(* Mutant: what was shown before is not left out. *)
FreshAgain == {id \in Page : ~rows[id].read}

(* Mutant: only what is newer than all that was shown. *)
FreshAbove == {id \in Page : ~rows[id].read /\ \A n \in notified : n < id}

Fresh == {id \in Page : ~rows[id].read} \ notified

ShowingOrRest(r) == IF r.list = {} THEN Resting ELSE [r EXCEPT !.at = "show"]

GetList(c) ==
    /\ CheckAt(c, "list")
    /\ SetCheck(c, ShowingOrRest([checks[c] EXCEPT !.list = Fresh]))
    /\ UNCHANGED <<vars, wanted, started, notified, toasts, cut, crowd>>

Show(c) ==
    /\ CheckAt(c, "show")
    /\ \E id \in checks[c].list :
         /\ SetCheck(c, [checks[c] EXCEPT !.at = "mark", !.cur = id])
         /\ toasts' = Counted(toasts, {id})
    /\ UNCHANGED <<vars, wanted, started, notified, cut, crowd>>

(* Mutant: the whole list is noted with its first toast. *)
NotedList(c) == checks[c].list

Noted(c) == {checks[c].cur}

(* ON CONFLICT DO NOTHING. *)
MarkNotified(c) ==
    /\ CheckAt(c, "mark")
    /\ notified' = notified \cup Noted(c)
    /\ SetCheck(c, ShowingOrRest([checks[c] EXCEPT !.list = @ \ {checks[c].cur}, !.cur = 0]))
    /\ UNCHANGED <<vars, wanted, started, toasts, cut, crowd>>

Cut(ids) == cut' = Counted(cut, ids)
Unnoted(cs) == {checks[c].cur : c \in {d \in cs : CheckAt(d, "mark")}}

(* A call that is not answered with success, or throws, ends the check. *)
CheckFails(c) ==
    /\ c \in Running /\ Fault
    /\ SetCheck(c, Resting)
    /\ Cut(Unnoted({c}))
    /\ UNCHANGED <<now, comments, rows, nextId, slots, upkeep, told, requests, jobs,
                   wanted, started, notified, toasts, crowd>>

(* The agent is closed, or crashes. *)
AgentExits ==
    /\ started \/ Running # {}
    /\ Fault
    /\ started' = FALSE
    /\ checks' = [c \in Check |-> Resting]
    /\ cut' = [id \in DOMAIN cut \cup Unnoted(Check) |->
                 Count(cut, id) + Cardinality({c \in Check : CheckAt(c, "mark") /\ checks[c].cur = id})]
    /\ UNCHANGED <<now, comments, rows, nextId, slots, upkeep, told, requests, jobs,
                   wanted, notified, toasts, crowd>>

(* putPreferences: one of the preferences is read by the agent. *)
Prefer ==
    /\ wanted' = ~wanted
    /\ requests < MaxRequests /\ requests' = requests + 1
    /\ UNCHANGED <<now, comments, rows, nextId, slots, upkeep, told, jobs, faults, agent>>

--------------------------------------------------------------------------------
CheckStep(c) == GetMe(c) \/ GetList(c) \/ Show(c) \/ MarkNotified(c)

ServerNext == Next /\ UNCHANGED <<wanted, agent>>

MonitorNext ==
    \/ ServerNext
    \/ \E c \in Check : MonitorStart(c) \/ Elapsed(c) \/ CheckStep(c) \/ CheckFails(c)
    \/ MonitorStop \/ AgentExits \/ Prefer

(* The pool runs every check on, and the timer fires again and again. *)
MonitorFairness ==
    /\ WF_monitorVars(\E c \in Check : Elapsed(c))
    /\ \A c \in Check : WF_monitorVars(CheckStep(c))

MonitorSpec == MonitorInit /\ [][MonitorNext]_monitorVars /\ MonitorFairness

--------------------------------------------------------------------------------
(* Every variable of the agent has its type; and what is noted as shown was     *)
(* shown, although checks that overlap write the notes of one list.           *)
MonitorTypeOK ==
    /\ started \in BOOLEAN /\ wanted \in BOOLEAN
    /\ checks \in [Check -> [at : {"rest", "me", "list", "show", "mark"},
                             list : SUBSET Nat, cur : Nat]]
    /\ notified \subseteq DOMAIN toasts
    /\ DOMAIN toasts \subseteq Ids /\ DOMAIN cut \subseteq Ids
    /\ crowd <= Cardinality(Check)

(* A notification is shown again only by a check that ran at the same time, or *)
(* after one that ended between its toast and the note of it: neither new      *)
(* activity on the row, nor a start of the agent, nor what the job or the      *)
(* panel does to the row shows it again.                                     *)
ToastsAreExcused ==
    \A id \in DOMAIN toasts : toasts[id] <= crowd + Count(cut, id)

(* An unread notification of the first page is shown, unless it is read or      *)
(* pushed off the page first, the agent stops, or the player wants none.  The   *)
(* first rows are followed, as many as there may be requests.                *)
UnreadIsShown ==
    \A id \in 1 .. MaxRequests :
        (id \in DOMAIN rows /\ id \in Page /\ ~rows[id].read) ~>
            \/ id \in DOMAIN toasts
            \/ id \notin DOMAIN rows \/ id \notin Page \/ rows[id].read
            \/ ~started \/ ~wanted
================================================================================
