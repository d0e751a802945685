---------------------------- MODULE PendingJourneys ----------------------------
(****************************************************************************)
(* The API's half of the pipeline, for one user: sessions the agent posts   *)
(* become pending journeys, the user confirms, discards or excludes them,   *)
(* the maintenance job evicts them, and a learned hint confirms a session   *)
(* at once.                                                                 *)
(*                                                                          *)
(* A handler is a sequence of SQL statements (UpsertPendingJourney is one   *)
(* transaction), each an action here; other requests run in between, a      *)
(* statement may fail (the database, or the request's context cancelled     *)
(* when its client hangs up), and the server may stop at any point, which   *)
(* ends every request in flight.                                            *)
(* The agent posts a session again when it got no answer, also while the    *)
(* first request is still running.  Sessions are at least five minutes long *)
(* (the agent discards shorter ones), so the handler's branches for less    *)
(* than a minute are never taken.                                           *)
(****************************************************************************)
EXTENDS Integers, FiniteSets

CONSTANTS
    Exe,            \* executables; each stands for one game as well
    Played,         \* the sessions the agent has to report
    MergeWindow,    \* the 15 minutes of UpsertPendingJourney
    Slot,           \* agent requests the server works on at once
    MaxPosts,       \* bound on the agent's requests
    MaxRows,        \* bound on pending rows ever inserted
    MaxJourneys,    \* bound on journeys ever inserted
    MaxClicks,      \* bound on the user's requests
    MaxFaults       \* bound on failed statements and server crashes

Session == [exe : Exe, from : Nat, to : Nat]

ASSUME PendingAssumption ==
    /\ Played \subseteq Session
    /\ \A s \in Played : s.from < s.to
    /\ \A s, t \in Played : (s.exe = t.exe /\ s # t) => s.to <= t.from \/ t.to <= s.from
    /\ MergeWindow \in Nat

VARIABLES
    pending,        \* table pending_journeys; parts is history: the sessions
                    \* whose time the row holds
    nextRow,        \* next pending id
    journeys,       \* table journeys; row and parts are history: the pending
                    \* row confirmed (0: none), and the sessions it then held
    nextJourney,    \* next journey id
    excluded,       \* table exe_exclusions
    hints,          \* table exe_game_hints: executables with a known game
    create,         \* createPending requests in flight, per slot
    confirming,     \* at most one confirm request in flight
    excluding,      \* at most one exclude request in flight
    accepted,       \* history: sessions UpsertPendingJourney has committed
    dismissed,      \* history: sessions the user or the maintenance removed
    posts, clicks, faults   \* bounded counters

tables  == <<pending, nextRow, journeys, nextJourney, excluded, hints>>
flights == <<create, confirming, excluding>>
history == <<accepted, dismissed>>
budget  == <<posts, clicks, faults>>
vars    == <<tables, flights, history, budget>>

Idle == [at |-> "idle"]

(* started is unknown for a confirmed journey: it is derived from the time of *)
(* the confirmation, which no other journey shares.                          *)
Unknown == -1

Init ==
    /\ pending = {} /\ nextRow = 1
    /\ journeys = {} /\ nextJourney = 1
    /\ excluded = {} /\ hints = {}
    /\ create = [c \in Slot |-> Idle]
    /\ confirming = {} /\ excluding = {}
    /\ accepted = {} /\ dismissed = {}
    /\ posts = 0 /\ clicks = 0 /\ faults = 0

Row(id) == {r \in pending : r.id = id}
Without(id) == {r \in pending : r.id # id}
PartsOf(rows) == UNION {r.parts : r \in rows}

--------------------------------------------------------------------------------
(* createPending, called by the agent. *)

Fault == faults < MaxFaults /\ faults' = faults + 1

At(c, place) == create[c].at = place
Goto(c, place) == create' = [create EXCEPT ![c] = place]

(* The request arrives and IsExcluded lets it pass; an excluded executable is *)
(* answered 204 and nothing changes.                                         *)
Receive(c, s) ==
    /\ At(c, "idle")
    /\ posts < MaxPosts /\ posts' = posts + 1
    /\ s.exe \notin excluded
    /\ Goto(c, [at |-> "hint", session |-> s])
    /\ UNCHANGED <<tables, confirming, excluding, history, clicks, faults>>

(* GetGameHintIGDBID: the hint as it is now, kept for the request's end. *)
LookUpHint(c) ==
    /\ At(c, "hint")
    /\ Goto(c, [at |-> "upsert", session |-> create[c].session,
                hinted |-> create[c].session.exe \in hints])
    /\ UNCHANGED <<tables, confirming, excluding, history, budget>>

(* An error there is logged and counts as no hint. *)
LookUpFails(c) ==
    /\ At(c, "hint") /\ Fault
    /\ Goto(c, [at |-> "upsert", session |-> create[c].session, hinted |-> FALSE])
    /\ UNCHANGED <<tables, confirming, excluding, history, posts, clicks>>

(* Mutant: any earlier end is near enough. *)
MergeableAnyGap(r, s) == r.exe = s.exe /\ r.ended <= s.from

(* ended_at BETWEEN started_at - 15 minutes AND started_at. *)
Mergeable(r, s) == r.exe = s.exe /\ s.from - MergeWindow <= r.ended /\ r.ended <= s.from

(* ORDER BY ended_at DESC LIMIT 1. *)
MergeTargets(s) ==
    {r \in pending : Mergeable(r, s) /\ \A q \in pending : Mergeable(q, s) => q.ended <= r.ended}

(* Mutant: looked up by start and end, as the comment on the function says. *)
SameStartAndEnd(s) ==
    {r \in pending : r.exe = s.exe /\ r.started = s.from /\ r.ended = s.to}

SameStart(s) == {r \in pending : r.exe = s.exe /\ r.started = s.from}

(* Found by its start or by the merge, the row takes the session's end. *)
Take(r, s) == pending' = Without(r.id) \cup {[r EXCEPT !.ended = s.to, !.parts = @ \cup {s}]}

Insert(s) ==
    /\ nextRow <= MaxRows /\ nextRow' = nextRow + 1
    /\ pending' = pending \cup {[id |-> nextRow, exe |-> s.exe, started |-> s.from,
                                 ended |-> s.to, parts |-> {s}]}

(* One transaction; id is the row the session went into. *)
UpsertPendingJourney(s, id) ==
    \/ /\ \E r \in SameStart(s) : id = r.id /\ Take(r, s)
       /\ UNCHANGED nextRow
    \/ /\ SameStart(s) = {}
       /\ \E r \in MergeTargets(s) : id = r.id /\ Take(r, s)
       /\ UNCHANGED nextRow
    \/ /\ SameStart(s) = {} /\ MergeTargets(s) = {}
       /\ id = nextRow /\ Insert(s)

(* Without a hint the request is answered now, else it goes on. *)
Upsert(c) ==
    /\ At(c, "upsert")
    /\ LET s == create[c].session
       IN  /\ \E id \in 1 .. nextRow :
                /\ UpsertPendingJourney(s, id)
                /\ Goto(c, IF create[c].hinted
                           THEN [at |-> "journey", session |-> s, id |-> id]
                           ELSE Idle)
           /\ accepted' = accepted \cup {s}
    /\ UNCHANGED <<journeys, nextJourney, excluded, hints, confirming, excluding,
                   dismissed, budget>>

(* IsExcluded or the transaction fails: 500, the agent will post again. *)
UpsertFails(c) ==
    /\ create[c].at \in {"hint", "upsert"} /\ Fault
    /\ Goto(c, Idle)
    /\ UNCHANGED <<tables, confirming, excluding, history, posts, clicks>>

(* The unique index on (user_id, igdb_id, started_at). *)
Recorded(s) == \E j \in journeys : j.exe = s.exe /\ j.started = s.from

InsertJourney(exe, started, row, parts) ==
    /\ nextJourney <= MaxJourneys /\ nextJourney' = nextJourney + 1
    /\ journeys' = journeys \cup {[id |-> nextJourney, exe |-> exe, started |-> started,
                                   row |-> row, parts |-> parts]}

(* Auto-confirm: a journey of the posted session alone. *)
AutoInsert(c) ==
    /\ At(c, "journey")
    /\ LET s == create[c].session
       IN  ~Recorded(s) /\ InsertJourney(s.exe, s.from, 0, {s})
    /\ Goto(c, [at |-> "delete", id |-> create[c].id])
    /\ UNCHANGED <<pending, nextRow, excluded, hints, confirming, excluding,
                   history, budget>>

(* 23505: the journey was there already. *)
AutoDuplicate(c) ==
    /\ At(c, "journey") /\ Recorded(create[c].session)
    /\ Goto(c, [at |-> "delete", id |-> create[c].id])
    /\ UNCHANGED <<tables, confirming, excluding, history, budget>>

(* Mutant: the pending row is deleted whether or not the insert worked. *)
AutoFailsDeletes(c) ==
    /\ At(c, "journey") /\ Fault
    /\ Goto(c, [at |-> "delete", id |-> create[c].id])
    /\ UNCHANGED <<tables, confirming, excluding, history, posts, clicks>>

(* Any other error: the pending row is left to the user. *)
AutoFails(c) ==
    /\ At(c, "journey") /\ Fault
    /\ Goto(c, Idle)
    /\ UNCHANGED <<tables, confirming, excluding, history, posts, clicks>>

AutoDelete(c) ==
    /\ At(c, "delete")
    /\ pending' = Without(create[c].id)
    /\ Goto(c, Idle)
    /\ UNCHANGED <<nextRow, journeys, nextJourney, excluded, hints, confirming,
                   excluding, history, budget>>

(* The error of the delete is ignored. *)
AutoDeleteFails(c) ==
    /\ At(c, "delete") /\ Fault
    /\ Goto(c, Idle)
    /\ UNCHANGED <<tables, confirming, excluding, history, posts, clicks>>

CreatePending(c) ==
    \/ \E s \in Played : Receive(c, s)
    \/ LookUpHint(c) \/ LookUpFails(c) \/ Upsert(c) \/ UpsertFails(c)
    \/ AutoInsert(c) \/ AutoDuplicate(c) \/ AutoFails(c)
    \/ AutoDelete(c) \/ AutoDeleteFails(c)

--------------------------------------------------------------------------------
(* The user's requests. *)

Click == clicks < MaxClicks /\ clicks' = clicks + 1

(* Mutant: no velocity limit. *)
VelocityIgnored == TRUE

(* checkVelocity spaces a user's confirmations by 20 seconds, longer than a   *)
(* confirmation takes, so that one runs at a time.                           *)
VelocityAllows == confirming = {}

(* GetPendingJourney: the handler works on this copy from now on. *)
ConfirmRead(r) ==
    /\ VelocityAllows /\ Click
    /\ r \in pending
    /\ confirming' = confirming \cup {[at |-> "journey", row |-> r]}
    /\ UNCHANGED <<tables, create, excluding, history, posts, faults>>

ConfirmGoto(f, place) == confirming' = (confirming \ {f}) \cup {[f EXCEPT !.at = place]}
ConfirmEnds(f) == confirming' = confirming \ {f}

ConfirmInsert(f) ==
    /\ f.at = "journey"
    /\ InsertJourney(f.row.exe, Unknown, f.row.id, f.row.parts)
    /\ ConfirmGoto(f, "hint")
    /\ UNCHANGED <<pending, nextRow, excluded, hints, create, excluding, history,
                   budget>>

ConfirmFails(f) ==
    /\ f.at = "journey" /\ Fault
    /\ ConfirmEnds(f)
    /\ UNCHANGED <<tables, create, excluding, history, posts, clicks>>

(* UpsertGameHint; its error is logged only. *)
ConfirmHint(f) ==
    /\ f.at = "hint"
    /\ hints' = hints \cup {f.row.exe}
    /\ ConfirmGoto(f, "delete")
    /\ UNCHANGED <<pending, nextRow, journeys, nextJourney, excluded, create,
                   excluding, history, budget>>

ConfirmHintFails(f) ==
    /\ f.at = "hint" /\ Fault
    /\ ConfirmGoto(f, "delete")
    /\ UNCHANGED <<tables, create, excluding, history, posts, clicks>>

ConfirmDelete(f) ==
    /\ f.at = "delete"
    /\ pending' = Without(f.row.id)
    /\ ConfirmEnds(f)
    /\ UNCHANGED <<nextRow, journeys, nextJourney, excluded, hints, create,
                   excluding, history, budget>>

(* The error of the delete is logged; the confirmation is answered anyway. *)
ConfirmDeleteFails(f) ==
    /\ f.at = "delete" /\ Fault
    /\ ConfirmEnds(f)
    /\ UNCHANGED <<tables, create, excluding, history, posts, clicks>>

Confirm ==
    \/ \E r \in pending : ConfirmRead(r)
    \/ \E f \in confirming :
         \/ ConfirmInsert(f) \/ ConfirmFails(f)
         \/ ConfirmHint(f) \/ ConfirmHintFails(f)
         \/ ConfirmDelete(f) \/ ConfirmDeleteFails(f)

(* The row goes with all it holds by then, by the user's or the maintenance's *)
(* will.                                                                     *)
Dismiss(id) ==
    /\ pending' = Without(id)
    /\ dismissed' = dismissed \cup UNION {r.parts : r \in Row(id)}

(* The discard handler; and evictData of cmd/maintenance, whose thirty days   *)
(* are not counted here.                                                     *)
Discard(r) ==
    /\ Click
    /\ Dismiss(r.id)
    /\ UNCHANGED <<nextRow, journeys, nextJourney, excluded, hints, flights,
                   accepted, posts, faults>>

ExcludeRead(r) ==
    /\ excluding = {} /\ Click
    /\ excluding' = {[at |-> "exclusion", row |-> r]}
    /\ UNCHANGED <<tables, create, confirming, history, posts, faults>>

ExcludeInsert(f) ==
    /\ f.at = "exclusion"
    /\ excluded' = excluded \cup {f.row.exe}
    /\ excluding' = {[f EXCEPT !.at = "delete"]}
    /\ UNCHANGED <<pending, nextRow, journeys, nextJourney, hints, create,
                   confirming, history, budget>>

ExcludeDelete(f) ==
    /\ f.at = "delete"
    /\ Dismiss(f.row.id)
    /\ excluding' = {}
    /\ UNCHANGED <<nextRow, journeys, nextJourney, excluded, hints, create,
                   confirming, accepted, budget>>

ExcludeFails(f) ==
    /\ Fault
    /\ excluding' = {}
    /\ UNCHANGED <<tables, create, confirming, history, posts, clicks>>

Exclude ==
    \/ \E r \in pending : ExcludeRead(r)
    \/ \E f \in excluding : ExcludeInsert(f) \/ ExcludeDelete(f) \/ ExcludeFails(f)

(* The settings page: exclusions and hints, added and removed. *)
ChangeExclusion(e) ==
    /\ Click
    /\ excluded' \in {excluded \cup {e}, excluded \ {e}}
    /\ UNCHANGED <<pending, nextRow, journeys, nextJourney, hints, flights, history,
                   posts, faults>>

ChangeHint(e) ==
    /\ Click
    /\ hints' \in {hints \cup {e}, hints \ {e}}
    /\ UNCHANGED <<pending, nextRow, journeys, nextJourney, excluded, flights,
                   history, posts, faults>>

(* The user deletes a journey. *)
DeleteJourney(j) ==
    /\ Click
    /\ journeys' = journeys \ {j}
    /\ dismissed' = dismissed \cup j.parts
    /\ UNCHANGED <<pending, nextRow, nextJourney, excluded, hints, flights, accepted,
                   posts, faults>>

(* The server stops; the tables stay. *)
Crash ==
    /\ Fault
    /\ create' = [c \in Slot |-> Idle]
    /\ confirming' = {} /\ excluding' = {}
    /\ UNCHANGED <<tables, history, posts, clicks>>

Next ==
    \/ \E c \in Slot : CreatePending(c)
    \/ Confirm
    \/ Exclude
    \/ \E r \in pending : Discard(r)
    \/ \E j \in journeys : DeleteJourney(j)
    \/ \E e \in Exe : ChangeExclusion(e) \/ ChangeHint(e)
    \/ Crash

Spec == Init /\ [][Next]_vars

--------------------------------------------------------------------------------
Rows == [id : Nat, exe : Exe, started : Nat, ended : Nat, parts : SUBSET Played]

CreateStates ==
    {Idle} \cup [at : {"hint"}, session : Played]
           \cup [at : {"upsert"}, session : Played, hinted : BOOLEAN]
           \cup [at : {"journey"}, session : Played, id : Nat]
           \cup [at : {"delete"}, id : Nat]

(* Types, and the unique index on (user_id, exe_name, started_at). *)
TypeOK ==
    /\ pending \subseteq Rows
    /\ \A r, q \in pending : (r.exe = q.exe /\ r.started = q.started) => r = q
    /\ \A r \in pending : r.id < nextRow
    /\ \A j \in journeys : j.id < nextJourney /\ j.exe \in Exe /\ j.parts \subseteq Played
    /\ excluded \subseteq Exe /\ hints \subseteq Exe
    /\ create \in [Slot -> CreateStates]
    /\ \A f \in confirming \cup excluding : f.row \in Rows
    /\ accepted \subseteq Played /\ dismissed \subseteq Played
    /\ nextRow \in Nat /\ nextJourney \in Nat /\ posts \in Nat /\ clicks \in Nat /\ faults \in Nat

(* A session continues another when it starts within the merge window. *)
Continues(s, t) == s.exe = t.exe /\ t.to <= s.from /\ s.from - MergeWindow <= t.to

(* However requests interleave, repeat and fail, a pending row starts with    *)
(* the earliest of the sessions merged into it and every later one continues *)
(* another of them: no row spans a pause longer than the merge window        *)
(* (UpsertPendingJourney, db/journeys.go).                                   *)
RowsAreOneSitting ==
    \A r \in pending :
        /\ \E s \in r.parts : s.from = r.started
        /\ \E s \in r.parts : s.to = r.ended
        /\ \A s \in r.parts :
             s.from = r.started \/ \E t \in r.parts : Continues(s, t)

(* A pending row confirmed by the user becomes one journey; each further one  *)
(* takes a crash or a failed delete (confirm, journeys/handler.go, which     *)
(* inserts and deletes in separate statements).                              *)
ConfirmedOnce ==
    \A id \in 1 .. nextRow - 1 : Cardinality({j \in journeys : j.row = id}) <= 1 + faults

(* A session the API has accepted and no other could be merged with is in a   *)
(* pending row or a journey until the user or the maintenance removes it:    *)
(* the two statements of confirm and of auto-confirm never leave a gap.      *)
LoneSessionsStay ==
    \A s \in accepted :
        (\A t \in Played \ {s} : ~Continues(s, t) /\ ~Continues(t, s)) =>
            \/ \E r \in pending : s \in r.parts
            \/ \E j \in journeys : s \in j.parts
            \/ s \in dismissed

--------------------------------------------------------------------------------
(* What comments and documents say and the code does not do *)

(* db/journeys.go:132: an exact duplicate "returns the existing ID unchanged".*)
(* So a row never ends before a session merged into it.                      *)
RepeatsLeaveRows == \A r \in pending : \A s \in r.parts : s.to <= r.ended

(* README.md:52: the server "holds pending (unconfirmed) journeys until the   *)
(* user acts on them or they're evicted".                                    *)
PendingIsHeld ==
    \A s \in accepted :
        \/ \E r \in pending : s \in r.parts
        \/ \E j \in journeys : s \in j.parts
        \/ s \in dismissed
================================================================================
