------------------------------- MODULE AdminPage -------------------------------
(****************************************************************************)
(* The moderators' page (Admin.tsx): tabs, of which the suspended players'    *)
(* list is followed here, and a dialog that other pages open through the      *)
(* address (PlayerProfile.tsx, JourneyDetail.tsx): suspend a player, reset a   *)
(* profile, delete a journey's log or a comment.  What other pages have        *)
(* fetched stays in the cache until it is invalidated.                        *)
(****************************************************************************)
EXTENDS WebClient

CONSTANT Target     \* players, journeys and comments, by number

VARIABLES
    admin,          \* getCurrentPlayer says the player is a moderator
    aStore,         \* the server: the suspended players
    aQuery,         \* the query for them
    aFresh,         \* its data need not be fetched again when its tab is opened
    aTab,           \* the tab shown
    aDialog,        \* None, or the act to confirm and on what
    aAway,          \* another page is shown
    aWrites,        \* mutations in flight; whether it is the page (or its tab) now
                    \* mounted that waits for them, and whether the address has the
                    \* dialog's parameters
    aOutdated,      \* history: changed on the server and not invalidated
    aExcused        \* history: what an act changed whose dialog closed before its
                    \* answer; and the list, when a fetch under way, its first or
                    \* one whose tab was closed, missed an invalidation

aUi   == <<aTab, aDialog, aAway>>
aVars == <<admin, aStore, aQuery, aFresh, aUi, aWrites, aOutdated, aExcused>>

Acts == {"suspend", "reset", "deleteLog", "deleteComment"}
SuspendedList == <<"suspended", 0>>
Tabs == {"reports", "suspended", "users"}

AdminInit ==
    /\ aStore = {1}
    /\ aQuery = NotAsked
    /\ aFresh = FALSE
    /\ aTab = "reports"
    /\ aDialog = None
    /\ aAway = FALSE
    /\ aWrites = {}
    /\ aOutdated = {}
    /\ aExcused = {}

--------------------------------------------------------------------------------
(* The list of suspended players: fetched while its tab is open.             *)

Mounted == ~aAway /\ aTab = "suspended"

SuspendedRefetch ==
    /\ Mounted
    /\ aQuery' = Refetched(aQuery)
    /\ UNCHANGED <<admin, aStore, aFresh, aUi, aWrites, aOutdated, aExcused, budget>>

SuspendedServe ==
    /\ IsAsked(aQuery)
    /\ aQuery' = Served(aQuery, aStore)
    /\ aExcused' = aExcused \ {SuspendedList}
    /\ UNCHANGED <<admin, aStore, aFresh, aUi, aWrites, aOutdated, budget>>

SuspendedArrive ==
    /\ IsServed(aQuery)
    /\ aQuery' = Arrived(aQuery)
    /\ aFresh' = TRUE
    /\ UNCHANGED <<admin, aStore, aUi, aWrites, aOutdated, aExcused, budget>>

SuspendedFails ==
    /\ InFlight(aQuery) /\ Fault
    /\ aQuery' = Lost(aQuery)
    /\ UNCHANGED <<admin, aStore, aFresh, aUi, aWrites, aOutdated, aExcused>>

(* Thirty seconds have passed. *)
SuspendedExpires ==
    /\ aFresh
    /\ aFresh' = FALSE
    /\ UNCHANGED <<admin, aStore, aQuery, aUi, aWrites, aOutdated, aExcused, budget>>

--------------------------------------------------------------------------------
(* Tabs and dialogs.  A tab takes its mutation along when it is closed. *)

ChooseAdminTab(tab) ==
    /\ admin /\ ~aAway /\ aDialog = None /\ tab # aTab
    /\ aTab' = tab
    /\ aQuery' = IF tab = "suspended" /\ ~aFresh THEN Refetched(aQuery) ELSE aQuery
    /\ aWrites' = {[w EXCEPT !.mine = @ /\ w.act # "unsuspend"] : w \in aWrites}
    /\ UNCHANGED <<admin, aStore, aFresh, aDialog, aAway, aOutdated, aExcused, budget>>

Unmounted(writes) == {[w EXCEPT !.mine = FALSE] : w \in writes}

(* A link of the page of a player or a journey, where a moderator finds it:    *)
(* the page is opened anew, and its mutations with it.                       *)
OpenDialog(act, target) ==
    /\ admin /\ aDialog = None
    /\ aDialog' = [act |-> act, target |-> target]
    /\ aWrites' = Unmounted(aWrites)
    /\ aTab' = "reports"
    /\ aAway' = FALSE
    /\ UNCHANGED <<admin, aStore, aQuery, aFresh, aOutdated, aExcused, budget>>

(* What an act changes that may be cached. *)
Changes(act, target) ==
    CASE act = "suspend"       -> {SuspendedList, <<"profile", target>>}
      [] act = "unsuspend"     -> {SuspendedList}
      [] act = "reset"         -> {<<"profile", target>>}
      [] act = "deleteLog"     -> {<<"journey", target>>}
      [] act = "deleteComment" -> {<<"comments", target>>}

Excuse(things) == aExcused' = aExcused \cup things

(* A callback reads the parameters of the address when it runs: they are gone  *)
(* once the dialog is closed.                                                *)
ParametersGone(writes, missed) ==
    /\ aWrites' = {[w EXCEPT !.known = @ /\ ~w.mine] : w \in writes}
    /\ Excuse(missed \cup UNION {Changes(w.act, w.target) \ {SuspendedList} :
                                  w \in {v \in writes : v.mine}})

CancelDialog ==
    /\ aDialog # None
    /\ aDialog' = None
    /\ ParametersGone(aWrites, {})
    /\ UNCHANGED <<admin, aStore, aQuery, aFresh, aTab, aAway, aOutdated, budget>>

SendAct(act, target) ==
    /\ ~\E w \in aWrites : w.mine /\ w.act = act
    /\ Click
    /\ aWrites' = aWrites \cup {[act |-> act, target |-> target, at |-> "sent",
                                 mine |-> TRUE, known |-> TRUE]}
    /\ UNCHANGED <<admin, aStore, aQuery, aFresh, aUi, aOutdated, aExcused>>

(* The second button of the dialog. *)
ConfirmAct == aDialog # None /\ SendAct(aDialog.act, aDialog.target)

(* The button in a row of the suspended. *)
Unsuspend(p) ==
    /\ Mounted /\ aDialog = None
    /\ aQuery.data # None /\ p \in aQuery.data
    /\ SendAct("unsuspend", p)

--------------------------------------------------------------------------------
(* The mutations. *)

ActServed(w) ==
    /\ w.at = "sent"
    /\ aStore' = CASE w.act = "suspend"   -> aStore \cup {w.target}
                   [] w.act = "unsuspend" -> aStore \ {w.target}
                   [] OTHER -> aStore
    /\ aWrites' = Replace(aWrites, w, Done(w))
    /\ aOutdated' = aOutdated \cup (Changes(w.act, w.target) \ {SuspendedList})
    /\ UNCHANGED <<admin, aQuery, aFresh, aUi, aExcused, budget>>

(* Mutant: a reset profile, or the list of the suspended, stays cached. *)
InvalidatesTooLittle(w) ==
    CASE w.act \in {"deleteLog", "deleteComment"} /\ ~w.known -> {}
      [] w.act = "suspend" -> {<<"profile", w.target>>}
      [] OTHER -> Changes(w.act, w.target)

(* The keys each onSuccess invalidates. *)
InvalidatedByAct(w) ==
    IF w.act \in {"deleteLog", "deleteComment"} /\ ~w.known THEN {}
    ELSE Changes(w.act, w.target)

(* A list that is not on the screen is fetched when it is shown again, unless  *)
(* the answer under way makes it fresh.                                      *)
InvalidateSuspended ==
    /\ aQuery' = IF Mounted THEN Invalidated(aQuery) ELSE aQuery
    /\ aFresh' = FALSE

Missed(w) ==
    IF /\ SuspendedList \in InvalidatedByAct(w)
       /\ InFlight(aQuery) /\ (~Mounted \/ aQuery.data = None)
    THEN {SuspendedList} ELSE {}

(* onSuccess of an act of the dialog: on to the journey of the comment, or to  *)
(* the bare page, from whatever page or dialog is open by then.              *)
ActSucceeds(w) ==
    /\ w.at = "done" /\ w.act # "unsuspend"
    /\ aOutdated' = aOutdated \ InvalidatedByAct(w)
    /\ IF SuspendedList \in InvalidatedByAct(w) THEN InvalidateSuspended
       ELSE UNCHANGED <<aQuery, aFresh>>
    /\ aDialog' = None
    /\ aAway' = (w.act = "deleteComment" /\ w.known)
    /\ IF aAway' \/ aAway
       THEN aWrites' = Unmounted(aWrites \ {w}) /\ Excuse(Missed(w))
       ELSE ParametersGone(aWrites \ {w}, Missed(w))
    /\ aTab' = IF aAway THEN "reports" ELSE aTab
    /\ UNCHANGED <<admin, aStore, budget>>

Unsuspended(w) ==
    /\ w.at = "done" /\ w.act = "unsuspend"
    /\ InvalidateSuspended
    /\ Excuse(Missed(w))
    /\ aWrites' = aWrites \ {w}
    /\ UNCHANGED <<admin, aStore, aUi, aOutdated, budget>>

(* Nothing tells the moderator: the dialog stays. *)
ActFails(w) ==
    /\ Fault
    /\ aWrites' = aWrites \ {w}
    /\ UNCHANGED <<admin, aStore, aQuery, aFresh, aUi, aOutdated, aExcused>>

AdminNext ==
    \/ SuspendedRefetch \/ SuspendedServe \/ SuspendedArrive \/ SuspendedFails
    \/ SuspendedExpires
    \/ \E tab \in Tabs : ChooseAdminTab(tab)
    \/ \E target \in Target : \/ \E act \in Acts : OpenDialog(act, target)
                              \/ Unsuspend(target)
    \/ CancelDialog \/ ConfirmAct
    \/ \E w \in aWrites : \/ ActServed(w) \/ ActSucceeds(w)
                          \/ Unsuspended(w) \/ ActFails(w)

--------------------------------------------------------------------------------
(* Once every act is answered and none has failed, nothing that an act has     *)
(* changed is served from the cache: the page of the player, the journey or   *)
(* the comment fetches again, and the list of the suspended, when its tab is  *)
(* open and at rest, is the server's; except for an act whose dialog was       *)
(* closed before its answer came, and for a list whose fetch was under way     *)
(* and could not be restarted (the onSuccess callbacks of Admin.tsx).         *)
AdminSeesItsActs ==
    (aWrites = {} /\ faults = 0) =>
        /\ aOutdated \subseteq aExcused
        /\ (Mounted /\ ~InFlight(aQuery) /\ SuspendedList \notin aExcused) =>
             aQuery.data = aStore
================================================================================
