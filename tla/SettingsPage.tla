----------------------------- MODULE SettingsPage -----------------------------
(****************************************************************************)
(* The settings page (Settings.tsx): two notification switches, three lists   *)
(* (excluded executables, included ones, and hints, which map an executable   *)
(* to a game), and the account.  Its sections share only the signed-in        *)
(* player, so one of them is used per behaviour.                             *)
(****************************************************************************)
EXTENDS WebClient

CONSTANTS
    Exe,            \* executables a list can hold, numbers from 1
    Hinted          \* games an executable can be hinted at, numbers from 1

Switch == {"updates", "notifications"}

ASSUME SettingsAssumption ==
    /\ Exe \subseteq Nat \ {0} /\ Hinted \subseteq Nat \ {0}
    /\ None \notin [Switch -> BOOLEAN] \cup [Exe -> Nat]

VARIABLES
    section,        \* the section used
    sStore,         \* the server: the preferences, the section's rows (a game or 0
                    \* for each executable, 0 is no row), the account
    sQuery,         \* the queries: me, and the list of the section
    sForm,          \* the rows being confirmed, edited and typed, 0 for none; whether
                    \* signing out and deleting the account are being confirmed, the
                    \* latter with the handle typed
    sWrites,        \* mutations in flight
    sError,         \* the deletion of the account has failed
    sAway,          \* the browser has been sent to the front page
    sWanted,        \* history: the switches as last clicked
    sOverlap        \* history: a switch was clicked before the last click was
                    \* answered and fetched, or a row changed before the list was
                    \* first fetched

sVars == <<section, sStore, sQuery, sForm, sWrites, sError, sAway, sWanted, sOverlap>>

Lists == {"exclusions", "inclusions", "hints"}

(* The game of a row that has none to speak of. *)
Plain == 1

SettingsInit ==
    /\ sStore = [preferences |-> [s \in Switch |-> TRUE],
                 rows |-> [e \in Exe |-> IF e = 1 \/ section = "hints" THEN Plain ELSE 0],
                 account |-> "there"]
    /\ sQuery = [me |-> NewQuery, list |-> IF section \in Lists THEN NewQuery ELSE NotAsked]
    /\ sForm = [confirming |-> 0, editing |-> 0, typed |-> 0,
              leaving |-> FALSE, deleting |-> FALSE, sure |-> FALSE]
    /\ sWrites = {}
    /\ sError = FALSE
    /\ sAway = FALSE
    /\ sWanted = sStore.preferences
    /\ sOverlap = FALSE

--------------------------------------------------------------------------------
(* The queries.  getCurrentPlayer refuses an account that is gone; what was   *)
(* fetched before stays on the screen.                                       *)

SettingsQueries == {"me", "list"}

SetSettings(name, q) == sQuery' = [sQuery EXCEPT ![name] = q]

SettingsAnswer(name) == IF name = "me" THEN sStore.preferences ELSE sStore.rows

SettingsRefetch(name) ==
    /\ name = "list" => section \in Lists
    /\ SetSettings(name, Refetched(sQuery[name]))
    /\ UNCHANGED <<section, sStore, sForm, sWrites, sError, sAway, sWanted, sOverlap, budget>>

SettingsServe(name) ==
    /\ IsAsked(sQuery[name])
    /\ SetSettings(name, IF sStore.account = "gone" THEN Lost(sQuery[name])
                         ELSE Served(sQuery[name], SettingsAnswer(name)))
    /\ UNCHANGED <<section, sStore, sForm, sWrites, sError, sAway, sWanted, sOverlap, budget>>

SettingsArrive(name) ==
    /\ IsServed(sQuery[name])
    /\ SetSettings(name, Arrived(sQuery[name]))
    /\ UNCHANGED <<section, sStore, sForm, sWrites, sError, sAway, sWanted, sOverlap, budget>>

SettingsQueryFails(name) ==
    /\ InFlight(sQuery[name]) /\ Fault
    /\ SetSettings(name, Lost(sQuery[name]))
    /\ UNCHANGED <<section, sStore, sForm, sWrites, sError, sAway, sWanted, sOverlap>>

--------------------------------------------------------------------------------
(* The user.  Without a player the page is empty or an invitation to sign in. *)

SettingsShown == sQuery.me.data # None

RowShown(e) == sQuery.list.data # None /\ sQuery.list.data[e] # 0

SendSetting(op, arg) ==
    /\ Click
    /\ sWrites' = sWrites \cup {Sent(op, arg)}

(* Mutant: a switch sends the other one as on. *)
ToggleAlone(s) == [r \in Switch |-> r # s \/ ~sQuery.me.data[s]]

(* What the switch s sends: both preferences, s the other way round. *)
Toggled(s) == [sQuery.me.data EXCEPT ![s] = ~@]

Toggle(s) ==
    /\ section = "preferences" /\ SettingsShown
    /\ SendSetting("preferences", Toggled(s))
    /\ sWanted' = [sWanted EXCEPT ![s] = ~sQuery.me.data[s]]
    /\ sOverlap' = (sOverlap \/ sWrites # {} \/ sQuery.me.data # sStore.preferences)
    /\ UNCHANGED <<section, sStore, sQuery, sForm, sError, sAway>>

(* Remove, on a row that is neither edited nor confirmed. *)
ConfirmRow(e) ==
    /\ section \in Lists /\ SettingsShown /\ RowShown(e)
    /\ e \notin {sForm.confirming, sForm.editing} /\ Click
    /\ sForm' = [sForm EXCEPT !.confirming = e]
    /\ UNCHANGED <<section, sStore, sQuery, sWrites, sError, sAway, sWanted, sOverlap>>

RowAsked(e) == SettingsShown /\ RowShown(e) /\ sForm.confirming = e /\ sForm.editing # e

CancelRow(e) ==
    /\ RowAsked(e) /\ Click
    /\ sForm' = [sForm EXCEPT !.confirming = 0]
    /\ UNCHANGED <<section, sStore, sQuery, sWrites, sError, sAway, sWanted, sOverlap>>

(* Remove, once more.  The button can be clicked again while it waits. *)
RemoveRow(e) ==
    /\ RowAsked(e)
    /\ SendSetting("remove", e)
    /\ UNCHANGED <<section, sStore, sQuery, sForm, sError, sAway, sWanted, sOverlap>>

TypeInclusion(e) ==
    /\ section = "inclusions" /\ SettingsShown /\ Click
    /\ sForm' = [sForm EXCEPT !.typed = e]
    /\ UNCHANGED <<section, sStore, sQuery, sWrites, sError, sAway, sWanted, sOverlap>>

(* The form.  Enter is the disabled button's too. *)
AddInclusion ==
    /\ section = "inclusions" /\ SettingsShown
    /\ sForm.typed # 0 /\ ~Pending(sWrites, "add")
    /\ SendSetting("add", sForm.typed)
    /\ sOverlap' = (sOverlap \/ sQuery.list.data = None)
    /\ UNCHANGED <<section, sStore, sQuery, sForm, sError, sAway, sWanted>>

EditHint(e) ==
    /\ section = "hints" /\ SettingsShown /\ RowShown(e)
    /\ e \notin {sForm.confirming, sForm.editing} /\ Click
    /\ sForm' = [sForm EXCEPT !.confirming = 0, !.editing = e]
    /\ UNCHANGED <<section, sStore, sQuery, sWrites, sError, sAway, sWanted, sOverlap>>

CancelEdit ==
    /\ sForm.editing # 0 /\ SettingsShown /\ RowShown(sForm.editing) /\ Click
    /\ sForm' = [sForm EXCEPT !.editing = 0]
    /\ UNCHANGED <<section, sStore, sQuery, sWrites, sError, sAway, sWanted, sOverlap>>

(* One of the games found; another may be clicked while it waits. *)
PickGame(game) ==
    /\ sForm.editing # 0 /\ SettingsShown /\ RowShown(sForm.editing)
    /\ SendSetting("hint", <<sForm.editing, game>>)
    /\ UNCHANGED <<section, sStore, sQuery, sForm, sError, sAway, sWanted, sOverlap>>

(* The two buttons of the account, the handle typed, and Cancel. *)
AskSignOut ==
    /\ section = "account" /\ SettingsShown /\ ~sForm.leaving /\ Click
    /\ sForm' = [sForm EXCEPT !.leaving = TRUE]
    /\ UNCHANGED <<section, sStore, sQuery, sWrites, sError, sAway, sWanted, sOverlap>>

AskDelete ==
    /\ section = "account" /\ SettingsShown /\ ~sForm.deleting /\ Click
    /\ sForm' = [sForm EXCEPT !.deleting = TRUE]
    /\ UNCHANGED <<section, sStore, sQuery, sWrites, sError, sAway, sWanted, sOverlap>>

TypeHandle ==
    /\ sForm.deleting /\ SettingsShown
    /\ sForm' = [sForm EXCEPT !.sure = ~@]
    /\ UNCHANGED <<section, sStore, sQuery, sWrites, sError, sAway, sWanted, sOverlap, budget>>

CancelAccount ==
    /\ section = "account" /\ SettingsShown /\ Click
    /\ \/ sForm.leaving /\ sForm' = [sForm EXCEPT !.leaving = FALSE]
       \/ sForm.deleting /\ sForm' = [sForm EXCEPT !.deleting = FALSE, !.sure = FALSE]
    /\ UNCHANGED <<section, sStore, sQuery, sWrites, sError, sAway, sWanted, sOverlap>>

SignOut ==
    /\ sForm.leaving /\ SettingsShown
    /\ SendSetting("signOut", None)
    /\ sForm' = [sForm EXCEPT !.leaving = FALSE]
    /\ UNCHANGED <<section, sStore, sQuery, sError, sAway, sWanted, sOverlap>>

DeleteAccount ==
    /\ sForm.deleting /\ sForm.sure /\ SettingsShown
    /\ ~Pending(sWrites, "delete")
    /\ SendSetting("delete", None)
    /\ sError' = FALSE
    /\ UNCHANGED <<section, sStore, sQuery, sForm, sAway, sWanted, sOverlap>>

--------------------------------------------------------------------------------
(* The mutations.                                                            *)

Set(w) ==
    CASE w.op = "preferences" -> [sStore EXCEPT !.preferences = w.arg]
      [] w.op = "remove"      -> [sStore EXCEPT !.rows[w.arg] = 0]
      [] w.op = "add"         -> [sStore EXCEPT !.rows[w.arg] = Plain]
      [] w.op = "hint"        -> [sStore EXCEPT !.rows[w.arg[1]] = w.arg[2]]
      [] w.op = "delete"      -> [sStore EXCEPT !.account = "gone"]
      [] w.op = "signOut"     -> sStore

(* The server refuses a player whose account is gone. *)
SettingsWrite(w) ==
    /\ w.at = "sent" /\ sStore.account = "there"
    /\ sStore' = Set(w)
    /\ sWrites' = Replace(sWrites, w, Done(w))
    /\ UNCHANGED <<section, sQuery, sForm, sError, sAway, sWanted, sOverlap, budget>>

(* The query each onSuccess invalidates. *)
SettingsInvalidated(w) ==
    CASE w.op = "preferences" -> [sQuery EXCEPT !.me = Invalidated(@)]
      [] w.op \in {"remove", "add", "hint"} -> [sQuery EXCEPT !.list = Invalidated(@)]
      [] OTHER -> sQuery

(* onSuccess: the row that is being confirmed or edited is closed, whichever  *)
(* it is by now.                                                             *)
SettingsWritten(w) ==
    /\ w.at = "done"
    /\ sWrites' = sWrites \ {w}
    /\ sQuery' = SettingsInvalidated(w)
    /\ sForm' = CASE w.op = "remove" -> [sForm EXCEPT !.confirming = 0]
                  [] w.op = "add"    -> [sForm EXCEPT !.typed = 0]
                  [] w.op = "hint"   -> [sForm EXCEPT !.editing = 0]
                  [] OTHER -> sForm
    /\ sAway' = (w.op \in {"signOut", "delete"})
    /\ UNCHANGED <<section, sStore, sError, sWanted, sOverlap, budget>>

(* An answer that is not a success: signOut leaves the page all the same.     *)
SettingsRefused(w) ==
    /\ w.at = "sent"
    /\ \/ Fault
       \/ sStore.account = "gone" /\ UNCHANGED budget
    /\ sWrites' = sWrites \ {w}
    /\ sAway' = (w.op = "signOut")
    /\ sError' = (sError \/ w.op = "delete")
    /\ UNCHANGED <<section, sStore, sQuery, sForm, sWanted, sOverlap>>

(* 429, or no answer at all. *)
SettingsWriteFails(w) ==
    /\ Fault
    /\ sWrites' = sWrites \ {w}
    /\ sError' = (sError \/ w.op = "delete")
    /\ UNCHANGED <<section, sStore, sQuery, sForm, sAway, sWanted, sOverlap>>

SettingsNext ==
    /\ ~sAway
    /\ \/ \E name \in SettingsQueries : \/ SettingsRefetch(name) \/ SettingsServe(name)
                                        \/ SettingsArrive(name) \/ SettingsQueryFails(name)
       \/ \E s \in Switch : Toggle(s)
       \/ \E e \in Exe : \/ ConfirmRow(e) \/ CancelRow(e) \/ RemoveRow(e)
                         \/ TypeInclusion(e) \/ EditHint(e)
       \/ AddInclusion \/ CancelEdit
       \/ \E game \in Hinted : PickGame(game)
       \/ AskSignOut \/ AskDelete \/ TypeHandle \/ CancelAccount
       \/ SignOut \/ DeleteAccount
       \/ \E w \in sWrites : \/ SettingsWrite(w) \/ SettingsWritten(w)
                             \/ SettingsRefused(w) \/ SettingsWriteFails(w)

--------------------------------------------------------------------------------
(* When every request is answered and none has failed, the lists are the      *)
(* server's and the switches stand as they were last clicked, in whatever     *)
(* order requests and answers came; except for a switch clicked before the    *)
(* answer to the last click was fetched, which takes that click back, and an  *)
(* addition before the list was there (the onSuccess callbacks of            *)
(* Settings.tsx).                                                            *)
SettingsShowSaved ==
    (/\ sWrites = {} /\ \A name \in SettingsQueries : ~InFlight(sQuery[name])
     /\ faults = 0 /\ ~sOverlap /\ sStore.account = "there") =>
        /\ sQuery.me.data = sStore.preferences
        /\ section = "preferences" => sQuery.me.data = sWanted
        /\ section \in Lists => sQuery.list.data = sStore.rows
================================================================================
