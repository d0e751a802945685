------------------------------ MODULE ProfilePage ------------------------------
(****************************************************************************)
(* A player's page (PlayerProfile.tsx): the player edits a name and a bio in  *)
(* a dialog and the avatar in another, in more than one tab; a visitor        *)
(* follows or reports them; a guest is asked to sign in.  Opening or leaving  *)
(* a dialog is free, unless its instances must be told apart.                *)
(****************************************************************************)
EXTENDS WebClient

Field == {"name", "bio", "avatar"}

ASSUME ProfileAssumption ==
    None \notin [Field -> Nat] \cup [fields : [Field -> Nat], following : BOOLEAN]

VARIABLES
    pRole,          \* "editor" or "avatar" (the player's own page, by the dialog used),
                    \* "visitor" or "guest"
    pStore,         \* the server: the fields of the player, whether the visitor
                    \* follows and has reported them
    pQuery,         \* the queries: me, and profile but where the editor is used,
                    \* nothing of which depends on it
    pEditor,        \* the dialog to edit: None, or what is typed in it
    pAvatar,        \* the dialog of the avatar
    pReport,        \* the dialog to report: None, or where it stands
    pPrompt,        \* the prompt to sign in is open
    pWrites,        \* mutations in flight
    pLast,          \* history: each field as somebody last set it on purpose
    pOvertaken,     \* history: the player was fetched anew under an open dialog
    pMissed         \* history: queries the server has not worked on since a change
                    \* that was not followed by their invalidation

pUi      == <<pEditor, pAvatar, pReport, pPrompt>>
pHistory == <<pLast, pOvertaken, pMissed>>
pVars    == <<pRole, pStore, pQuery, pUi, pWrites, pHistory>>

(* The value of a field nobody has set: the Discord name, the first bio. *)
Discord == 1

OwnPage == pRole \in {"editor", "avatar"}

ProfileQueries == IF pRole = "editor" THEN {"me"} ELSE {"me", "profile"}

ProfileInit ==
    /\ pStore = [fields |-> [f \in Field |-> Discord], following |-> FALSE, reported |-> FALSE]
    /\ pQuery = [name \in ProfileQueries |-> NewQuery]
    /\ pEditor = None
    /\ pAvatar = [open |-> FALSE, busy |-> FALSE]
    /\ pReport = None
    /\ pPrompt = FALSE
    /\ pWrites = {}
    /\ pLast = pStore.fields
    /\ pOvertaken = FALSE
    /\ pMissed = {}

--------------------------------------------------------------------------------
(* The queries: getCurrentPlayer, getPlayerProfile.                          *)

ProfileAnswer(name) ==
    CASE name = "profile"          -> [fields |-> pStore.fields, following |-> pStore.following]
      [] name = "me" /\ OwnPage  -> pStore.fields
      [] name = "me" /\ ~OwnPage -> [f \in Field |-> Discord]

SetProfile(name, q) == pQuery' = [pQuery EXCEPT ![name] = q]

ProfileRefetch(name) ==
    /\ SetProfile(name, Refetched(pQuery[name]))
    /\ UNCHANGED <<pRole, pStore, pUi, pWrites, pHistory, budget>>

ProfileServe(name) ==
    /\ IsAsked(pQuery[name])
    /\ SetProfile(name, IF name = "me" /\ pRole = "guest" THEN Lost(pQuery.me)
                        ELSE Served(pQuery[name], ProfileAnswer(name)))
    /\ pMissed' = pMissed \ {name}
    /\ UNCHANGED <<pRole, pStore, pUi, pWrites, pLast, pOvertaken, budget>>

ProfileArrive(name) ==
    /\ IsServed(pQuery[name])
    /\ SetProfile(name, Arrived(pQuery[name]))
    /\ pOvertaken' = (pOvertaken \/ /\ name = "me" /\ pEditor # None
                                    /\ pQuery.me.answer # pQuery.me.data)
    /\ UNCHANGED <<pRole, pStore, pUi, pWrites, pLast, pMissed, budget>>

ProfileQueryFails(name) ==
    /\ InFlight(pQuery[name]) /\ Fault
    /\ SetProfile(name, Lost(pQuery[name]))
    /\ pMissed' = pMissed \cup {name}
    /\ UNCHANGED <<pRole, pStore, pUi, pWrites, pLast, pOvertaken>>

(* The player edits a field on another page. *)
OtherTab(f) ==
    /\ pRole = "editor" /\ Click
    /\ pStore' = [pStore EXCEPT !.fields[f] = clicks + 2]
    /\ pLast' = [pLast EXCEPT ![f] = clicks + 2]
    /\ pMissed' = ProfileQueries
    /\ UNCHANGED <<pRole, pQuery, pUi, pWrites, pOvertaken>>

--------------------------------------------------------------------------------
(* The page is empty without a profile.  Until the player is known it is      *)
(* nobody's own.                                                             *)

ProfileShown == "profile" \in ProfileQueries => pQuery.profile.data # None
ShownAsOwn   == ProfileShown /\ OwnPage /\ pQuery.me.data # None

SendProfile(op, arg) == pWrites' = pWrites \cup {Sent(op, arg)}

OpenEditor ==
    /\ ShownAsOwn /\ pRole = "editor" /\ pEditor = None /\ Click
    /\ pEditor' = [id |-> clicks, name |-> pQuery.me.data.name, bio |-> pQuery.me.data.bio,
                   typed |-> {}, saving |-> FALSE, error |-> FALSE]
    /\ UNCHANGED <<pRole, pStore, pQuery, pAvatar, pReport, pPrompt, pWrites, pHistory>>

TypeName ==
    /\ pEditor # None
    /\ \/ Click /\ pEditor' = [pEditor EXCEPT !.name = clicks + 2, !.typed = @ \cup {"name"}]
       \/ /\ pQuery.me.data.name # Discord /\ UNCHANGED budget   \* handleRevertName
          /\ pEditor' = [pEditor EXCEPT !.name = 0, !.typed = @ \cup {"name"}]
    /\ UNCHANGED <<pRole, pStore, pQuery, pAvatar, pReport, pPrompt, pWrites, pHistory>>

TypeBio ==
    /\ pEditor # None /\ Click
    /\ pEditor' = [pEditor EXCEPT !.bio = clicks + 2, !.typed = @ \cup {"bio"}]
    /\ UNCHANGED <<pRole, pStore, pQuery, pAvatar, pReport, pPrompt, pWrites, pHistory>>

(* Cancel and the cross wait while it saves; a click beside the dialog does not. *)
CloseEditor ==
    /\ pEditor # None
    /\ pEditor' = None
    /\ UNCHANGED <<pRole, pStore, pQuery, pAvatar, pReport, pPrompt, pWrites, pHistory, budget>>

(* Mutant: every field of the dialog is sent. *)
ChangedAll(f) == TRUE

(* "Only send fields that changed": that differ from the player as known now. *)
ChangedField(f) == pEditor[f] # pQuery.me.data[f]

(* handleSave. *)
SaveProfile ==
    /\ pEditor # None /\ ~pEditor.saving
    /\ LET changed == {f \in {"name", "bio"} : ChangedField(f)}
       IN  IF changed = {} THEN pEditor' = None /\ UNCHANGED pWrites
           ELSE /\ pEditor' = [pEditor EXCEPT !.saving = TRUE, !.error = FALSE]
                /\ SendProfile("update", [id |-> pEditor.id, typed |-> pEditor.typed,
                                          patch |-> [f \in changed |-> pEditor[f]]])
    /\ UNCHANGED <<pRole, pStore, pQuery, pAvatar, pReport, pPrompt, pHistory, budget>>

OpenAvatar ==
    /\ ShownAsOwn /\ pRole = "avatar" /\ ~pAvatar.open
    /\ pAvatar' = [pAvatar EXCEPT !.open = TRUE]
    /\ UNCHANGED <<pRole, pStore, pQuery, pEditor, pReport, pPrompt, pWrites, pHistory, budget>>

CloseAvatar ==
    /\ pAvatar.open /\ ~pAvatar.busy
    /\ pAvatar' = [pAvatar EXCEPT !.open = FALSE]
    /\ UNCHANGED <<pRole, pStore, pQuery, pEditor, pReport, pPrompt, pWrites, pHistory, budget>>

(* handleFile, with a file it accepts, and handleRemove; an avatar that is not the player's own has no  *)
(* button to remove it.                                                      *)
ChangeAvatar(value) ==
    /\ pAvatar.open /\ ~pAvatar.busy
    /\ value = Discord => pQuery.me.data.avatar # Discord
    /\ Click
    /\ pAvatar' = [pAvatar EXCEPT !.busy = TRUE]
    /\ SendProfile("avatar", value)
    /\ UNCHANGED <<pRole, pStore, pQuery, pEditor, pReport, pPrompt, pHistory>>

(* Follow or Unfollow, whatever is still under way. *)
FollowButton ==
    /\ ProfileShown /\ ~ShownAsOwn
    /\ IF pQuery.me.data = None
       THEN ~pPrompt /\ pPrompt' = TRUE /\ UNCHANGED <<pWrites, budget>>
       ELSE /\ Click /\ UNCHANGED pPrompt
            /\ SendProfile("follow", ~pQuery.profile.data.following)
    /\ UNCHANGED <<pRole, pStore, pQuery, pEditor, pAvatar, pReport, pHistory>>

CloseSignIn ==
    /\ pPrompt /\ pPrompt' = FALSE
    /\ UNCHANGED <<pRole, pStore, pQuery, pEditor, pAvatar, pReport, pWrites, pHistory, budget>>

OpenReport ==
    /\ ProfileShown /\ pQuery.me.data # None /\ pRole = "visitor" /\ pReport = None /\ Click
    /\ pReport' = [id |-> clicks, ready |-> FALSE, at |-> "form"]
    /\ UNCHANGED <<pRole, pStore, pQuery, pEditor, pAvatar, pPrompt, pWrites, pHistory>>

(* A reason, and a note where it needs one. *)
FillReport ==
    /\ pReport # None /\ pReport.at \in {"form", "cooling"}
    /\ pReport' = [pReport EXCEPT !.ready = ~@]
    /\ UNCHANGED <<pRole, pStore, pQuery, pEditor, pAvatar, pPrompt, pWrites, pHistory, budget>>

SubmitReport ==
    /\ pReport # None /\ pReport.ready /\ pReport.at = "form"
    /\ ~\E w \in pWrites : w.op = "report" /\ w.arg = pReport.id
    /\ Click
    /\ SendProfile("report", pReport.id)
    /\ UNCHANGED <<pRole, pStore, pQuery, pUi, pHistory>>

CloseReport ==
    /\ pReport # None
    /\ pReport' = None
    /\ UNCHANGED <<pRole, pStore, pQuery, pEditor, pAvatar, pPrompt, pWrites, pHistory, budget>>

ReportCooled ==
    /\ pReport # None /\ pReport.at = "cooling"
    /\ pReport' = [pReport EXCEPT !.at = "form"]
    /\ UNCHANGED <<pRole, pStore, pQuery, pEditor, pAvatar, pPrompt, pWrites, pHistory, budget>>

--------------------------------------------------------------------------------
(* The mutations on the server.                                              *)

(* Without a name of their own a player has the one on Discord. *)
Kept(v) == IF v = 0 THEN Discord ELSE v

(* The fields fs of an update are saved; those that were typed, on purpose. *)
PatchMe(w, fs) ==
    /\ pStore' = [pStore EXCEPT !.fields =
                    [f \in Field |-> IF f \in fs THEN Kept(w.arg.patch[f]) ELSE @[f]]]
    /\ pLast' = [f \in Field |-> IF f \in fs \cap w.arg.typed THEN Kept(w.arg.patch[f])
                                 ELSE pLast[f]]

ProfileWrite(w) ==
    /\ w.at = "sent"
    /\ CASE w.op = "update" -> PatchMe(w, DOMAIN w.arg.patch)
         [] w.op = "avatar" -> /\ pStore' = [pStore EXCEPT !.fields.avatar = w.arg]
                               /\ pLast' = [pLast EXCEPT !.avatar = w.arg]
         [] w.op = "follow" -> pStore' = [pStore EXCEPT !.following = w.arg] /\ UNCHANGED pLast
         [] w.op = "report" -> /\ ~pStore.reported /\ UNCHANGED pLast
                               /\ pStore' = [pStore EXCEPT !.reported = TRUE]
    /\ pWrites' = Replace(pWrites, w, Done(w))
    /\ UNCHANGED <<pRole, pQuery, pUi, pOvertaken, pMissed, budget>>

--------------------------------------------------------------------------------
(* The answers.                                                              *)

(* The queries of the page that show what an operation changes. *)
ShowsChange(op) ==
    CASE op \in {"update", "avatar"} -> ProfileQueries
      [] op = "follow" -> {"profile"}
      [] op = "report" -> {}

(* Mutant: the profile is not fetched again after a change to the player. *)
MeOnly(op) == ShowsChange(op) \cap {"me"}

(* The queries onSuccess and onChanged invalidate. *)
ProfileInvalidates(op) ==
    CASE op \in {"update", "avatar"} -> {"me", "profile"}
      [] op = "follow" -> {"profile"}
      [] op = "report" -> {}

EditorOf(w) == pEditor # None /\ w.op = "update" /\ pEditor.id = w.arg.id
ReportOf(w) == pReport # None /\ w.op = "report" /\ pReport.id = w.arg

(* A success closes the editor that is open, whichever it is by now. *)
ProfileWritten(w) ==
    /\ w.at = "done"
    /\ pWrites' = pWrites \ {w}
    /\ pQuery' = [n \in ProfileQueries |-> IF n \in ProfileInvalidates(w.op)
                                           THEN Invalidated(pQuery[n]) ELSE pQuery[n]]
    /\ pEditor' = IF w.op = "update" THEN None ELSE pEditor
    /\ pAvatar' = IF w.op = "avatar" THEN [pAvatar EXCEPT !.open = FALSE, !.busy = FALSE]
                  ELSE pAvatar
    /\ pReport' = IF ReportOf(w) THEN [pReport EXCEPT !.at = "submitted"] ELSE pReport
    /\ UNCHANGED <<pRole, pStore, pPrompt, pHistory, budget>>

(* Mutant: the editor goes on waiting. *)
FailureIgnored(w) ==
    /\ pEditor' = pEditor
    /\ pAvatar' = IF w.op = "avatar" THEN [pAvatar EXCEPT !.busy = FALSE] ELSE pAvatar

(* What the dialogs show of a failure; the editor only of its own. *)
ShowFailure(w) ==
    /\ pEditor' = IF EditorOf(w) THEN [pEditor EXCEPT !.saving = FALSE, !.error = TRUE]
                  ELSE pEditor
    /\ pAvatar' = IF w.op = "avatar" THEN [pAvatar EXCEPT !.busy = FALSE]
                  ELSE pAvatar

ProfileWriteFails(w) ==
    /\ Fault
    /\ pWrites' = pWrites \ {w}
    /\ ShowFailure(w)
    /\ pMissed' = pMissed \cup IF w.at = "done" THEN ShowsChange(w.op) ELSE {}
    /\ UNCHANGED <<pRole, pStore, pQuery, pReport, pPrompt, pLast, pOvertaken>>

(* The bio is saved and the name is not (patchMe). *)
HalfSaved(w) ==
    /\ w.at = "sent" /\ w.op = "update" /\ {"name", "bio"} \subseteq DOMAIN w.arg.patch
    /\ Fault
    /\ PatchMe(w, {"bio"})
    /\ pWrites' = pWrites \ {w}
    /\ ShowFailure(w)
    /\ pMissed' = ProfileQueries
    /\ UNCHANGED <<pRole, pQuery, pReport, pPrompt, pOvertaken>>

(* 409, or 429. *)
ReportRefused(w) ==
    /\ w.at = "sent" /\ w.op = "report"
    /\ pWrites' = pWrites \ {w}
    /\ \/ /\ pStore.reported /\ UNCHANGED budget
          /\ pReport' = IF ReportOf(w) THEN [pReport EXCEPT !.at = "already"] ELSE pReport
       \/ /\ Fault
          /\ pReport' = IF ReportOf(w) THEN [pReport EXCEPT !.at = "cooling"] ELSE pReport
    /\ UNCHANGED <<pRole, pStore, pQuery, pEditor, pAvatar, pPrompt, pHistory>>

ProfileNext ==
    \/ \E name \in ProfileQueries : \/ ProfileRefetch(name) \/ ProfileServe(name)
                                    \/ ProfileArrive(name) \/ ProfileQueryFails(name)
    \/ \E f \in {"name", "bio"} : OtherTab(f)
    \/ OpenEditor \/ TypeName \/ TypeBio \/ CloseEditor \/ SaveProfile
    \/ OpenAvatar \/ CloseAvatar
    \/ \E value \in {Discord, clicks + 2} : ChangeAvatar(value)
    \/ FollowButton \/ CloseSignIn
    \/ OpenReport \/ FillReport \/ SubmitReport \/ CloseReport \/ ReportCooled
    \/ \E w \in pWrites : \/ ProfileWrite(w) \/ ProfileWritten(w) \/ ProfileWriteFails(w)
                          \/ HalfSaved(w) \/ ReportRefused(w)

--------------------------------------------------------------------------------
(* When every request is answered, the player and the profile on the screen   *)
(* are the server's, whatever two tabs and the dialogs have saved, except for *)
(* a query that failed or that nobody invalidated after a change: the other   *)
(* tab's, one whose answer was lost, half an update.  A report that is shown  *)
(* as submitted or as already there is there (PlayerProfile.tsx, ReportModal). *)
ProfileShowsSaved ==
    /\ (pWrites = {} /\ \A name \in ProfileQueries : ~InFlight(pQuery[name])) =>
         /\ (OwnPage /\ "me" \notin pMissed) => pQuery.me.data = pStore.fields
         /\ ("profile" \in ProfileQueries \ pMissed) =>
              pQuery.profile.data = [fields |-> pStore.fields, following |-> pStore.following]
    /\ (pReport # None /\ pReport.at \in {"submitted", "already"}) => pStore.reported

(* A field that the player did not touch in the dialog is not written back    *)
(* over a later edit from another tab, also when half an update is lost       *)
(* (EditProfileModal.tsx: only send fields that changed); unless the player   *)
(* is fetched again while the dialog is open, which makes an untouched field  *)
(* look changed.                                                             *)
EditsKeepOthers == ~pOvertaken => pStore.fields = pLast
================================================================================
