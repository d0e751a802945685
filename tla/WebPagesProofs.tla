---------------------------- MODULE WebPagesProofs ----------------------------
(* Proofs about pages of the web app: what is typed is kept, what others       *)
(* changed is not overwritten, a form adds once, and a sign-in lands where it *)
(* was asked for; for any number of clicks, failures, cards and tabs.        *)
EXTENDS WebPages, FiniteSetTheorems, TLAPS

--------------------------------------------------------------------------------
(* Signing in (SignInPage).                                                  *)

TabField == {"at", "next", "state", "sent", "asked", "landed", "left"}

SigningIn == {"provider", "complete", "asking", "found", "issued"}

(* A tab remembers that the agent asked exactly while it signs in for it, and  *)
(* has landed where its last sign-in was asked for; once a sign-in of the     *)
(* agent's came to nothing there, nothing is promised.                       *)
Remembers(tab) ==
    /\ DOMAIN tab = TabField
    /\ ~tab.left =>
         /\ tab.landed # None => tab.landed = tab.asked
         /\ tab.at \in SigningIn => /\ tab.asked \in {"agent", "site"}
                                    /\ tab.next = "agent" <=> tab.asked = "agent"
         /\ tab.at \notin SigningIn => tab.next # "agent"

TabsRemember ==
    /\ uTabs = [t \in Tab |-> uTabs[t]]
    /\ \A t \in Tab : Remembers(uTabs[t])

--------------------------------------------------------------------------------
(* The front page is none of those a sign-in passes through. *)
LEMMA FrontPageIsOutside ==
    FrontPage \notin SigningIn
BY DEF FrontPage, SigningIn

(* A step that moves one tab to a place it may remember keeps the rest. *)
LEMMA MoveKeeps ==
    ASSUME NEW t \in Tab, NEW tab, TabsRemember, MoveTab(t, tab), Remembers(tab)
    PROVE  TabsRemember'
BY DEF TabsRemember, MoveTab, Remembers

(* What has come to nothing promises nothing, or was not the agent's. *)
LEMMA GivingUpRemembers ==
    ASSUME NEW t \in Tab, NEW at, Remembers(uTabs[t]), uTabs[t].at \in SigningIn,
           at \notin SigningIn
    PROVE  Remembers(GivenUp(t, at))
BY DEF Remembers, GivenUp, TabField, SigningIn

(* A sign-in is begun for the one who is remembered. *)
LEMMA BeginningRemembers ==
    ASSUME NEW t \in Tab, NEW tab, TabsRemember, InitAuth(t, tab), DOMAIN tab = TabField,
           ~tab.left => /\ tab.asked \in {"agent", "site"}
                        /\ tab.next = "agent" <=> tab.asked = "agent"
    PROVE  TabsRemember'
<1>. DEFINE next == [tab EXCEPT !.at = "provider", !.state = clicks + 1, !.landed = None]
<1>1. MoveTab(t, next)
  BY DEF InitAuth
<1>2. Remembers(next)
  BY DEF Remembers, TabField, SigningIn
<1>. QED BY <1>1, <1>2, MoveKeeps

--------------------------------------------------------------------------------
(* No step of the browser, the server or the provider lets a tab forget. *)
LEMMA SignInKeeps ==
    ASSUME TabsRemember, SignInNext
    PROVE  TabsRemember'
<1>1. ASSUME NEW t \in Tab, OpenSite(t) \/ OpenAgent(t) \/ Refocus(t)
      PROVE  TabsRemember'
  <2>1. PICK at : at \notin SigningIn /\ MoveTab(t, [uTabs[t] EXCEPT !.at = at])
    BY <1>1, FrontPageIsOutside DEF OpenSite, OpenAgent, Refocus, SigningIn
  <2>2. Remembers(uTabs[t]) /\ uTabs[t].at \notin SigningIn
    BY <1>1 DEF TabsRemember, OpenSite, OpenAgent, Refocus, SigningIn
  <2>3. Remembers([uTabs[t] EXCEPT !.at = at])
    BY <2>1, <2>2 DEF Remembers, TabField
  <2>. QED BY <2>1, <2>3, MoveKeeps
<1>2. ASSUME NEW t \in Tab, SignIn(t)
      PROVE  TabsRemember'
  <2>. DEFINE tab == [uTabs[t] EXCEPT !.asked = "site"]
  <2>1. Remembers(uTabs[t]) /\ uTabs[t].at = "guest"
    BY <1>2 DEF TabsRemember, SignIn
  <2>2. DOMAIN tab = TabField
    BY <2>1 DEF Remembers
  <2>3. ~tab.left => tab.asked = "site" /\ tab.next # "agent"
    BY <2>1 DEF Remembers, TabField, SigningIn
  <2>4. InitAuth(t, tab)
    BY <1>2 DEF SignIn
  <2>. HIDE DEF tab
  <2>. QED BY <2>2, <2>3, <2>4, BeginningRemembers
<1>3. ASSUME NEW t \in Tab, AgentRefused(t)
      PROVE  TabsRemember'
  <2>. DEFINE tab == [uTabs[t] EXCEPT !.asked = "agent", !.next = "agent"]
  <2>1. DOMAIN uTabs[t] = TabField
    BY DEF TabsRemember, Remembers
  <2>2. DOMAIN tab = TabField /\ tab.asked = "agent" /\ tab.next = "agent"
    BY <2>1 DEF TabField
  <2>3. InitAuth(t, tab)
    BY <1>3 DEF AgentRefused
  <2>. HIDE DEF tab
  <2>. QED BY <2>2, <2>3, BeginningRemembers
<1>4. ASSUME NEW t \in Tab, TokenGranted(t) \/ TokenFails(t)
      PROVE  TabsRemember'
  <2>1. PICK at \in {"connected", "failed"} : MoveTab(t, [uTabs[t] EXCEPT !.at = at])
    BY <1>4 DEF TokenGranted, TokenFails
  <2>2. Remembers(uTabs[t]) /\ uTabs[t].at = "agent"
    BY <1>4 DEF TabsRemember, TokenGranted, TokenFails
  <2>3. Remembers([uTabs[t] EXCEPT !.at = at])
    BY <2>2 DEF Remembers, TabField, SigningIn
  <2>. QED BY <2>1, <2>3, MoveKeeps
<1>5. ASSUME NEW t \in Tab, GoBack(t) \/ Denied(t) \/ CallbackFails(t) \/ SessionRefused(t)
      PROVE  TabsRemember'
  <2>1. PICK at : at \notin SigningIn /\ MoveTab(t, GivenUp(t, at))
    BY <1>5, FrontPageIsOutside
    DEF GoBack, Denied, CallbackFails, SessionRefused, SigningIn
  <2>2. Remembers(uTabs[t]) /\ uTabs[t].at \in SigningIn
    BY <1>5 DEF TabsRemember, GoBack, Denied, CallbackFails, SessionRefused, SigningIn
  <2>3. Remembers(GivenUp(t, at))
    BY <2>1, <2>2, GivingUpRemembers
  <2>. QED BY <2>1, <2>3, MoveKeeps
<1>6. ASSUME NEW t \in Tab, Approved(t) \/ SessionFound(t) \/ SessionIssued(t)
      PROVE  TabsRemember'
  <2>1. PICK at \in SigningIn : MoveTab(t, [uTabs[t] EXCEPT !.at = at])
    BY <1>6 DEF Approved, SessionFound, SessionIssued, SigningIn
  <2>2. Remembers(uTabs[t]) /\ uTabs[t].at \in SigningIn
    BY <1>6 DEF TabsRemember, Approved, SessionFound, SessionIssued, SigningIn
  <2>3. Remembers([uTabs[t] EXCEPT !.at = at])
    BY <2>2 DEF Remembers, TabField
  <2>. QED BY <2>1, <2>3, MoveKeeps
<1>7. ASSUME NEW t \in Tab, AskSession(t)
      PROVE  TabsRemember'
  <2>1. Remembers(uTabs[t]) /\ uTabs[t].at = "complete"
    BY <1>7 DEF TabsRemember, AskSession
  <2>2. Remembers([uTabs[t] EXCEPT !.at = "asking", !.sent = uCookie])
    BY <2>1 DEF Remembers, TabField, SigningIn
  <2>. QED BY <1>7, <2>2, MoveKeeps DEF AskSession
<1>8. ASSUME NEW t \in Tab, Landed(t)
      PROVE  TabsRemember'
  <2>. DEFINE toAgent == uTabs[t].next = "agent"
              at      == CASE toAgent -> "agent"
                           [] ~toAgent /\ uSuspended -> "suspended"
                           [] OTHER -> "player"
              tab     == [uTabs[t] EXCEPT !.next = None, !.at = at,
                                          !.landed = IF toAgent THEN "agent" ELSE "site"]
  <2>1. Remembers(uTabs[t]) /\ uTabs[t].at = "issued"
    BY <1>8 DEF TabsRemember, Landed
  <2>2. at \notin SigningIn
    BY DEF SigningIn
  <2>3. MoveTab(t, tab)
    BY <1>8 DEF Landed
  <2>4. Remembers(tab)
    <3>. HIDE DEF at
    <3>. QED BY <2>1, <2>2, SignInAssumption DEF Remembers, TabField, SigningIn
  <2>. HIDE DEF tab
  <2>. QED BY <2>3, <2>4, MoveKeeps
<1>9. ASSUME UNCHANGED uTabs
      PROVE  TabsRemember'
  BY <1>9 DEF TabsRemember
<1>. QED
  BY <1>1, <1>2, <1>3, <1>4, <1>5, <1>6, <1>7, <1>8, <1>9
  DEF SignInNext, StateExpires, SessionEnds, SuspendPlayer

(* A tab that has signed in goes on to the agent or to the site, whichever    *)
(* asked for it, unless a sign-in of the agent's came to nothing in that tab   *)
(* before (AuthComplete.tsx), whatever is done in the other tabs.            *)
THEOREM SignInsReturn == Spec => []SignInReturns
<1>1. Init => TabsRemember
  BY SignInAssumption DEF Init, SignInInit, TabsRemember, Remembers, TabField, SigningIn
<1>2. TabsRemember /\ [Next]_vars => TabsRemember'
  <2>. SUFFICES ASSUME TabsRemember, [Next]_vars PROVE TabsRemember'
    OBVIOUS
  <2>1. CASE SignInNext
    BY <2>1, SignInKeeps
  <2>2. CASE UNCHANGED uVars
    BY <2>2 DEF uVars, TabsRemember
  <2>. QED BY <2>1, <2>2 DEF Next, vars
<1>3. TabsRemember => SignInReturns
  BY DEF TabsRemember, Remembers, SignInReturns
<1>. QED BY <1>1, <1>2, <1>3, PTL DEF Spec

--------------------------------------------------------------------------------
(* The journey page's comments (JourneyPage).                                *)

WriteField == {"op", "arg", "at"}

OtherWrite == {"deleteComment", "follow", "followPlayer", "update", "deleteJourney"}

Posts == {w \in jWrites : w.op = "post"}

(* Of the texts sent, all but the one in the box are stored; a post under way  *)
(* is the only one, and brings the last of them.                             *)
Posting ==
    /\ DOMAIN jStore = {"version", "comments", "next", "texts", "owner", "player"}
    /\ DOMAIN jForm = {"text", "comment", "journey", "editing"}
    /\ \A w \in jWrites : DOMAIN w = WriteField /\ w.op \in OtherWrite \cup {"post"}
    /\ jPosted \subseteq jStore.texts \cup {jForm.text}
    /\ \A w, v \in Posts : w = v
    /\ \A w \in Posts : jPosted \subseteq jStore.texts \cup (IF w.at = "sent" THEN {w.arg} ELSE {})

(* A write that the server has done is the same write. *)
LEMMA DoneIsSame ==
    ASSUME NEW w, DOMAIN w = WriteField
    PROVE  /\ DOMAIN Done(w) = WriteField /\ Done(w).at = "done"
           /\ Done(w).op = w.op /\ Done(w).arg = w.arg
BY DEF Done, WriteField

(* A step that only sends a request other than a post disturbs nothing. *)
LEMMA OthersSent ==
    ASSUME Posting, NEW op \in OtherWrite, NEW arg,
           jWrites' \in {jWrites, jWrites \cup {Sent(op, arg)}},
           jStore' = jStore, jPosted' = jPosted, jForm'.text = jForm.text,
           DOMAIN jForm' = DOMAIN jForm
    PROVE  Posting'
<1>1. DOMAIN Sent(op, arg) = WriteField /\ Sent(op, arg).op = op
  BY DEF Sent, WriteField
<1>2. Posts' = Posts
  BY <1>1 DEF Posts, OtherWrite
<1>. QED BY <1>1, <1>2 DEF Posting

(* A request that is over, with nothing changed, leaves one thing less to say. *)
LEMMA WriteEnds ==
    ASSUME Posting, NEW w, jWrites' = jWrites \ {w},
           jStore' = jStore, jPosted' = jPosted, jForm' = jForm
    PROVE  Posting'
BY DEF Posting, Posts

(* No step of the journey page loses a text. *)
LEMMA PostingKeeps ==
    ASSUME Posting, JourneyNext
    PROVE  Posting'
<1>. USE DEF Posting
<1>1. ASSUME NEW name \in Names,
             \/ JourneyRefetch(name) \/ JourneyServe(name)
             \/ JourneyArrive(name) \/ JourneyQueryFails(name)
      PROVE  UNCHANGED <<jStore, jForm, jWrites, jPosted>>
  BY <1>1 DEF JourneyRefetch, JourneyServe, JourneyArrive, JourneyQueryFails, jUi, jHistory
<1>2. ASSUME LoadMoreComments \/ ServeMoreComments \/ MoreCommentsArrive \/ MoreCommentsFail
             \/ CooldownTick
      PROVE  UNCHANGED <<jStore, jForm, jWrites, jPosted>>
  BY <1>2 DEF LoadMoreComments, ServeMoreComments, MoreCommentsArrive, MoreCommentsFail,
              CooldownTick, jUi, jHistory
<1>3. ASSUME UNCHANGED <<jStore, jForm, jWrites, jPosted>>
      PROVE  Posting'
  BY <1>3 DEF Posts
<1>4. CASE TypeComment
  <2>1. /\ UNCHANGED <<jStore, jWrites>> /\ jPosted' = {}
        /\ DOMAIN jForm' = DOMAIN jForm
    BY <1>4 DEF TypeComment
  <2>. QED BY <2>1 DEF Posts
<1>5. CASE PostComment
  <2>1. /\ UNCHANGED <<jStore, jForm>>
        /\ jPosted' = jPosted \cup {jForm.text}
        /\ jWrites' = jWrites \cup {Sent("post", jForm.text)}
        /\ Posts = {}
    BY <1>5 DEF PostComment, Send, jUi, Posts, Pending
  <2>2. DOMAIN Sent("post", jForm.text) = WriteField
        /\ Sent("post", jForm.text).op = "post" /\ Sent("post", jForm.text).arg = jForm.text
        /\ Sent("post", jForm.text).at = "sent"
    BY DEF Sent, WriteField
  <2>3. Posts' = {Sent("post", jForm.text)}
    BY <2>1, <2>2 DEF Posts
  <2>. QED BY <2>1, <2>2, <2>3
<1>6. CASE \E c \in {1, 4, None} : ConfirmComment(c)
  BY <1>6, OthersSent DEF ConfirmComment, jHistory, OtherWrite
<1>7. CASE DeleteComment
  BY <1>7, OthersSent DEF DeleteComment, Send, OtherWrite, jHistory
<1>8. CASE FollowOwner
  <2>. DEFINE arg == jQuery.follow.data # TRUE
  <2>1. /\ jWrites' = jWrites \cup {Sent("follow", arg)}
        /\ UNCHANGED <<jStore, jPosted, jForm>>
    BY <1>8 DEF FollowOwner, Send, jUi
  <2>. HIDE DEF arg
  <2>. QED BY <2>1, OthersSent DEF OtherWrite
<1>9. CASE FollowPlayer
  BY <1>9, OthersSent DEF FollowPlayer, Send, OtherWrite, jUi
<1>10. CASE ConfirmJourney \/ EditJourney
  BY <1>10, OthersSent DEF ConfirmJourney, EditJourney, jHistory, OtherWrite
<1>11. CASE DeleteJourney
  BY <1>11, OthersSent DEF DeleteJourney, Send, OtherWrite, jHistory
<1>12. CASE SaveJourney
  BY <1>12, OthersSent DEF SaveJourney, Send, OtherWrite, jUi, jHistory
<1>13. ASSUME NEW w \in jWrites, JourneyWrite(w)
       PROVE  Posting'
  <2>. DEFINE v == IF w.op = "post" THEN [Done(w) EXCEPT !.arg = jStore.next] ELSE Done(w)
  <2>1. DOMAIN w = WriteField /\ w.at = "sent"
    BY <1>13 DEF JourneyWrite
  <2>2. DOMAIN v = WriteField /\ v.op = w.op /\ v.at = "done"
    BY <2>1, DoneIsSame DEF WriteField
  <2>3. /\ UNCHANGED <<jForm, jPosted>> /\ jStore' = Stored(w)
        /\ jWrites' = (jWrites \ {w}) \cup {v}
    BY <1>13 DEF JourneyWrite, Replace, jUi, jHistory
  <2>. HIDE DEF v
  <2>4. CASE w.op = "post"
    <3>1. DOMAIN jStore' = DOMAIN jStore /\ jStore'.texts = jStore.texts \cup {w.arg}
      BY <2>3, <2>4 DEF Stored
    <3>2. Posts' = {v}
      BY <2>2, <2>3, <2>4 DEF Posts
    <3>3. jPosted \subseteq jStore.texts \cup {w.arg}
      BY <2>1, <2>4 DEF Posts
    <3>. QED BY <2>2, <2>3, <3>1, <3>2, <3>3
  <2>5. CASE w.op # "post"
    <3>1. DOMAIN Stored(w) = DOMAIN jStore /\ Stored(w).texts = jStore.texts
      <4>1. Stored(w) = jStore \/ \E x : Stored(w) \in
              {[jStore EXCEPT !.comments = x], [jStore EXCEPT !.owner = x],
               [jStore EXCEPT !.player = x], [jStore EXCEPT !.version = x]}
        BY <2>5 DEF Stored, OtherWrite
      <4>. QED BY <4>1
    <3>2. Posts' = Posts
      BY <2>2, <2>3, <2>5 DEF Posts
    <3>. QED BY <2>2, <2>3, <3>1, <3>2
  <2>. QED BY <2>4, <2>5
<1>14. ASSUME NEW w \in jWrites, JourneyWritten(w)
       PROVE  Posting'
  <2>1. /\ UNCHANGED <<jStore, jPosted>> /\ jWrites' = jWrites \ {w} /\ w.at = "done"
    BY <1>14 DEF JourneyWritten, jHistory
  <2>2. DOMAIN jForm' = DOMAIN jForm /\ (w.op = "post" \/ jForm'.text = jForm.text)
    BY <1>14 DEF JourneyWritten
  <2>3. w.op = "post" => jPosted \subseteq jStore.texts
    BY <2>1 DEF Posts
  <2>. QED BY <2>1, <2>2, <2>3 DEF Posts
<1>15. ASSUME NEW w \in jWrites, JourneyWriteFails(w)
       PROVE  Posting'
  BY <1>15, WriteEnds DEF JourneyWriteFails, jUi, jHistory
<1>16. ASSUME NEW w \in jWrites, NEW s \in {0, 1}, TooManyComments(w, s)
       PROVE  Posting'
  BY <1>16, WriteEnds DEF TooManyComments, jHistory
<1>. QED
  <2>. USE DEF JourneyNext
  <2>. HIDE DEF Posting
  <2>. QED BY <1>1, <1>2, <1>3, <1>4, <1>5, <1>6, <1>7, <1>8, <1>9, <1>10, <1>11, <1>12,
              <1>13, <1>14, <1>15, <1>16

(* A comment that was sent is stored, on its way or still in the box, until    *)
(* the user types another (postCommentMutation), for any length of use.      *)
THEOREM CommentsStay == Spec => []CommentsAreKept
<1>1. Init => Posting
  BY DEF Init, JourneyInit, Posting, Posts
<1>2. Posting /\ [Next]_vars => Posting'
  <2>. SUFFICES ASSUME Posting, [Next]_vars PROVE Posting'
    OBVIOUS
  <2>1. CASE JourneyNext
    BY <2>1, PostingKeeps
  <2>2. CASE UNCHANGED jVars
    BY <2>2 DEF jVars, jUi, jHistory, Posting, Posts
  <2>. QED BY <2>1, <2>2 DEF Next, vars
<1>3. Posting => CommentsAreKept
  BY DEF Posting, CommentsAreKept
<1>. QED BY <1>1, <1>2, <1>3, PTL DEF Spec

--------------------------------------------------------------------------------
(* The dialog to edit the player (ProfilePage).                              *)

Edited == {"name", "bio"}

OtherChange == {"avatar", "follow", "report"}

QueryField == {"data", "req", "answer"}

EditorFields == {"id", "name", "bio", "typed", "saving", "error"}

(* Unless the player was fetched anew under the dialog: what is saved is what  *)
(* was meant, what was not typed is what is known, and what is on its way was *)
(* typed.                                                                    *)
Editing ==
    /\ DOMAIN pStore = {"fields", "following", "reported"}
    /\ DOMAIN pQuery = ProfileQueries
    /\ \A name \in ProfileQueries : DOMAIN pQuery[name] = QueryField
    /\ pEditor # None => DOMAIN pEditor = EditorFields
    /\ \A w \in pWrites : DOMAIN w = WriteField /\ w.op \in OtherChange \cup {"update"}
    /\ ~pOvertaken =>
         /\ pStore.fields = pLast
         /\ pEditor # None => \A f \in Edited \ pEditor.typed : ~ChangedField(f)
         /\ \A w \in pWrites : w.op = "update" => DOMAIN w.arg.patch \subseteq w.arg.typed

(* A query that moves on disturbs nothing, unless it changes the player under  *)
(* the dialog.                                                               *)
LEMMA QueryMoves ==
    ASSUME Editing, UNCHANGED <<pRole, pStore, pWrites, pLast>>,
           DOMAIN pQuery' = DOMAIN pQuery,
           \A name \in ProfileQueries : DOMAIN pQuery'[name] = QueryField,
           pEditor' \in {pEditor, None},
           ~pOvertaken' => /\ ~pOvertaken
                           /\ pEditor' = None \/ pQuery'.me.data = pQuery.me.data
    PROVE  Editing'
BY DEF Editing, ProfileQueries, ChangedField

(* One query, of the page, that is asked, served or lost keeps its data. *)
LEMMA OneQueryMoves ==
    ASSUME Editing, NEW name \in ProfileQueries, NEW q, SetProfile(name, q),
           DOMAIN q = QueryField, q.data = pQuery[name].data,
           UNCHANGED <<pRole, pStore, pEditor, pWrites, pLast, pOvertaken>>
    PROVE  Editing'
<1>1. /\ DOMAIN pQuery' = DOMAIN pQuery
      /\ \A n \in ProfileQueries : DOMAIN pQuery'[n] = QueryField
      /\ pQuery'.me.data = pQuery.me.data
  BY DEF SetProfile, Editing, ProfileQueries
<1>. QED BY <1>1, QueryMoves

(* What the cache does to a query keeps its shape and its data. *)
LEMMA QueryShapes ==
    ASSUME NEW q, DOMAIN q = QueryField, NEW value
    PROVE  /\ DOMAIN Refetched(q) = QueryField /\ Refetched(q).data = q.data
           /\ DOMAIN Invalidated(q) = QueryField /\ Invalidated(q).data = q.data
           /\ DOMAIN Served(q, value) = QueryField /\ Served(q, value).data = q.data
           /\ DOMAIN Lost(q) = QueryField /\ Lost(q).data = q.data
BY DEF Refetched, Invalidated, Served, Lost

(* A request that begins or ends, other than an update that begins. *)
LEMMA OtherWrites ==
    ASSUME Editing, NEW op \in OtherChange, NEW arg, NEW w,
           pWrites' \in {pWrites, pWrites \cup {Sent(op, arg)}, pWrites \ {w}},
           UNCHANGED <<pRole, pStore, pQuery, pEditor, pLast, pOvertaken>>
    PROVE  Editing'
<1>1. DOMAIN Sent(op, arg) = WriteField /\ Sent(op, arg).op = op
  BY DEF Sent, WriteField
<1>. QED BY <1>1 DEF Editing, ProfileQueries, ChangedField, OtherChange

(* A step of the dialog or of its answer, with the fields fs of it saved. *)
LEMMA PatchKeeps ==
    ASSUME Editing, NEW w \in pWrites, w.op = "update", NEW fs \in SUBSET DOMAIN w.arg.patch,
           PatchMe(w, fs)
    PROVE  /\ DOMAIN pStore' = DOMAIN pStore
           /\ ~pOvertaken => pStore'.fields = pLast'
<1>1. DOMAIN pStore' = DOMAIN pStore
  BY DEF PatchMe
<1>2. ASSUME ~pOvertaken
      PROVE  pStore'.fields = pLast'
  <2>1. fs \cap w.arg.typed = fs /\ pStore.fields = pLast
    BY <1>2 DEF Editing
  <2>2. pStore'.fields = [f \in Field |-> IF f \in fs THEN Kept(w.arg.patch[f])
                                           ELSE pStore.fields[f]]
    BY DEF PatchMe, Editing
  <2>. QED BY <2>1, <2>2 DEF PatchMe
<1>. QED BY <1>1, <1>2

(* A failure leaves what is typed. *)
LEMMA FailureShown ==
    ASSUME Editing, NEW w, ShowFailure(w)
    PROVE  \/ pEditor' = pEditor
           \/ /\ pEditor # None /\ DOMAIN pEditor' = EditorFields
              /\ pEditor'.typed = pEditor.typed
              /\ \A f \in Edited : pEditor'[f] = pEditor[f]
BY DEF ShowFailure, EditorOf, Editing, EditorFields, Edited

--------------------------------------------------------------------------------
(* No step of the profile overwrites what was not typed. *)
LEMMA EditingKeeps ==
    ASSUME Editing, ProfileNext
    PROVE  Editing'
<1>1. ASSUME NEW name \in ProfileQueries,
             ProfileRefetch(name) \/ ProfileServe(name) \/ ProfileQueryFails(name)
      PROVE  Editing'
  <2>1. DOMAIN pQuery[name] = QueryField
    BY DEF Editing
  <2>2. UNCHANGED <<pRole, pStore, pEditor, pWrites, pLast, pOvertaken>>
    BY <1>1 DEF ProfileRefetch, ProfileServe, ProfileQueryFails, pUi, pHistory
  <2>3. PICK q : SetProfile(name, q) /\ DOMAIN q = QueryField /\ q.data = pQuery[name].data
    BY <1>1, <2>1, QueryShapes DEF ProfileRefetch, ProfileServe, ProfileQueryFails
  <2>. QED BY <2>2, <2>3, OneQueryMoves
<1>2. ASSUME NEW name \in ProfileQueries, ProfileArrive(name)
      PROVE  Editing'
  <2>1. /\ UNCHANGED <<pRole, pStore, pEditor, pWrites, pLast>>
        /\ SetProfile(name, Arrived(pQuery[name]))
        /\ ~pOvertaken' => /\ ~pOvertaken
                           /\ \/ name # "me" \/ pEditor = None
                              \/ pQuery.me.answer = pQuery.me.data
    BY <1>2 DEF ProfileArrive, pUi
  <2>2. DOMAIN pQuery' = DOMAIN pQuery
        /\ \A n \in ProfileQueries : DOMAIN pQuery'[n] = QueryField
    BY <2>1 DEF SetProfile, Arrived, Editing, QueryField
  <2>3. pQuery'.me.data = IF name = "me" THEN pQuery.me.answer ELSE pQuery.me.data
    BY <2>1 DEF SetProfile, Arrived, Editing, ProfileQueries
  <2>. QED BY <2>1, <2>2, <2>3, QueryMoves
<1>3. ASSUME NEW f \in Edited, OtherTab(f)
      PROVE  Editing'
  <2>1. /\ DOMAIN pStore' = DOMAIN pStore
        /\ ~pOvertaken => pStore'.fields = pLast'
    BY <1>3 DEF OtherTab, Editing
  <2>2. UNCHANGED <<pRole, pQuery, pEditor, pWrites, pOvertaken>>
    BY <1>3 DEF OtherTab, pUi
  <2>. QED BY <2>1, <2>2 DEF Editing, ProfileQueries, ChangedField
<1>4. CASE OpenEditor
  <2>1. /\ UNCHANGED <<pRole, pStore, pQuery, pWrites, pLast, pOvertaken>>
        /\ DOMAIN pEditor' = EditorFields
        /\ \A f \in Edited : pEditor'[f] = pQuery.me.data[f]
    BY <1>4 DEF OpenEditor, pHistory, EditorFields, Edited
  <2>. QED BY <2>1 DEF Editing, ProfileQueries, ChangedField
<1>5. CASE TypeName \/ TypeBio
  <2>1. /\ UNCHANGED <<pRole, pStore, pQuery, pWrites, pLast, pOvertaken>> /\ pEditor # None
    BY <1>5 DEF TypeName, TypeBio, pHistory
  <2>2. /\ DOMAIN pEditor' = EditorFields
        /\ \A f \in Edited \ pEditor'.typed : f \notin pEditor.typed /\ pEditor'[f] = pEditor[f]
    <3>1. DOMAIN pEditor = EditorFields
      BY <2>1 DEF Editing
    <3>2. PICK v : \/ pEditor' = [pEditor EXCEPT !.name = v, !.typed = @ \cup {"name"}]
                   \/ pEditor' = [pEditor EXCEPT !.bio = v, !.typed = @ \cup {"bio"}]
      BY <1>5 DEF TypeName, TypeBio
    <3>3. CASE pEditor' = [pEditor EXCEPT !.name = v, !.typed = @ \cup {"name"}]
      BY <3>1, <3>3 DEF EditorFields, Edited
    <3>4. CASE pEditor' = [pEditor EXCEPT !.bio = v, !.typed = @ \cup {"bio"}]
      BY <3>1, <3>4 DEF EditorFields, Edited
    <3>. QED BY <3>2, <3>3, <3>4
  <2>. QED BY <2>1, <2>2 DEF Editing, ProfileQueries, ChangedField
<1>6. CASE CloseEditor
  BY <1>6 DEF CloseEditor, pHistory, Editing, ProfileQueries, ChangedField
<1>7. CASE SaveProfile
  <2>. DEFINE changed == {f \in Edited : ChangedField(f)}
              w == Sent("update", [id |-> pEditor.id, typed |-> pEditor.typed,
                                   patch |-> [f \in changed |-> pEditor[f]]])
  <2>1. /\ UNCHANGED <<pRole, pStore, pQuery, pLast, pOvertaken>> /\ pEditor # None
        /\ pWrites' \in {pWrites, pWrites \cup {w}}
        /\ \/ pEditor' = None
           \/ pEditor' = [pEditor EXCEPT !.saving = TRUE, !.error = FALSE]
    BY <1>7 DEF SaveProfile, SendProfile, pHistory, Edited
  <2>2. /\ pEditor' # None => DOMAIN pEditor' = EditorFields
        /\ pEditor' # None => pEditor'.typed = pEditor.typed
        /\ pEditor' # None => \A f \in Edited : pEditor'[f] = pEditor[f]
    BY <2>1 DEF Editing, EditorFields, Edited
  <2>3. DOMAIN w = WriteField /\ w.op = "update"
        /\ w.arg.typed = pEditor.typed /\ DOMAIN w.arg.patch = changed
    BY DEF Sent, WriteField
  <2>4. ~pOvertaken => changed \subseteq pEditor.typed
    BY <2>1 DEF Editing
  <2>. HIDE DEF w, changed
  <2>. QED BY <2>1, <2>2, <2>3, <2>4 DEF Editing, ProfileQueries, ChangedField
<1>8. CASE OpenAvatar \/ CloseAvatar \/ CloseSignIn \/ OpenReport \/ FillReport
           \/ CloseReport \/ ReportCooled
  <2>1. UNCHANGED <<pRole, pStore, pQuery, pEditor, pWrites, pLast, pOvertaken>>
    BY <1>8 DEF OpenAvatar, CloseAvatar, CloseSignIn, OpenReport, FillReport, CloseReport,
                ReportCooled, pHistory
  <2>. QED BY <2>1, OtherWrites DEF OtherChange
<1>9. ASSUME NEW value, ChangeAvatar(value)
      PROVE  Editing'
  BY <1>9, OtherWrites DEF ChangeAvatar, SendProfile, OtherChange, pHistory
<1>10. CASE FollowButton
  <2>. DEFINE arg == ~pQuery.profile.data.following
  <2>1. /\ pWrites' \in {pWrites, pWrites \cup {Sent("follow", arg)}}
        /\ UNCHANGED <<pRole, pStore, pQuery, pEditor, pLast, pOvertaken>>
    BY <1>10 DEF FollowButton, SendProfile, pHistory
  <2>. HIDE DEF arg
  <2>. QED BY <2>1, OtherWrites DEF OtherChange
<1>11. CASE SubmitReport
  BY <1>11, OtherWrites DEF SubmitReport, SendProfile, OtherChange, pUi, pHistory
<1>12. ASSUME NEW w \in pWrites, ProfileWrite(w)
       PROVE  Editing'
  <2>1. /\ UNCHANGED <<pRole, pQuery, pEditor, pOvertaken>>
        /\ pWrites' = (pWrites \ {w}) \cup {Done(w)}
    BY <1>12 DEF ProfileWrite, Replace, pUi
  <2>2. DOMAIN w = WriteField /\ w.op \in OtherChange \cup {"update"}
    BY DEF Editing
  <2>3. /\ DOMAIN pStore' = DOMAIN pStore
        /\ ~pOvertaken => pStore'.fields = pLast'
    <3>1. CASE w.op = "update"
      BY <1>12, <3>1, PatchKeeps DEF ProfileWrite
    <3>2. CASE w.op = "avatar"
      BY <1>12, <3>2 DEF ProfileWrite, Editing
    <3>3. CASE w.op \in {"follow", "report"}
      BY <1>12, <3>3 DEF ProfileWrite, Editing
    <3>. QED BY <2>2, <3>1, <3>2, <3>3 DEF OtherChange
  <2>. QED BY <2>1, <2>2, <2>3, DoneIsSame DEF Editing, ProfileQueries, ChangedField
<1>13. ASSUME NEW w \in pWrites, ProfileWritten(w)
       PROVE  Editing'
  <2>1. /\ UNCHANGED <<pRole, pStore, pLast, pOvertaken>>
        /\ pWrites' = pWrites \ {w} /\ pEditor' \in {pEditor, None}
        /\ DOMAIN pQuery' = ProfileQueries
        /\ \A n \in ProfileQueries : pQuery'[n] \in {pQuery[n], Invalidated(pQuery[n])}
    BY <1>13 DEF ProfileWritten, pHistory
  <2>2. \A n \in ProfileQueries : /\ DOMAIN pQuery'[n] = QueryField
                                  /\ pQuery'[n].data = pQuery[n].data
    <3>. SUFFICES ASSUME NEW n \in ProfileQueries
                  PROVE  DOMAIN pQuery'[n] = QueryField /\ pQuery'[n].data = pQuery[n].data
      OBVIOUS
    <3>1. DOMAIN pQuery[n] = QueryField
      BY DEF Editing
    <3>2. /\ DOMAIN Invalidated(pQuery[n]) = QueryField
          /\ Invalidated(pQuery[n]).data = pQuery[n].data
      BY <3>1, QueryShapes
    <3>. QED BY <2>1, <3>1, <3>2
  <2>3. pQuery'.me.data = pQuery.me.data
    BY <2>2 DEF ProfileQueries
  <2>. QED BY <2>1, <2>2, <2>3 DEF Editing, ProfileQueries, ChangedField
<1>14. ASSUME NEW w \in pWrites, ProfileWriteFails(w) \/ HalfSaved(w)
       PROVE  Editing'
  <2>1. /\ UNCHANGED <<pRole, pQuery, pOvertaken>>
        /\ pWrites' = pWrites \ {w} /\ ShowFailure(w)
    BY <1>14 DEF ProfileWriteFails, HalfSaved
  <2>2. /\ DOMAIN pStore' = DOMAIN pStore
        /\ ~pOvertaken => pStore'.fields = pLast'
    <3>1. CASE ProfileWriteFails(w)
      BY <3>1 DEF ProfileWriteFails, Editing
    <3>2. CASE HalfSaved(w)
      BY <3>2, PatchKeeps DEF HalfSaved
    <3>. QED BY <1>14, <3>1, <3>2
  <2>3. \/ pEditor' = pEditor
        \/ /\ pEditor # None /\ DOMAIN pEditor' = EditorFields
           /\ pEditor'.typed = pEditor.typed
           /\ \A f \in Edited : pEditor'[f] = pEditor[f]
    BY <2>1, FailureShown
  <2>. QED BY <2>1, <2>2, <2>3 DEF Editing, ProfileQueries, ChangedField
<1>15. ASSUME NEW w \in pWrites, ReportRefused(w)
       PROVE  Editing'
  BY <1>15, OtherWrites DEF ReportRefused, OtherChange, pHistory
<1>. QED
  BY <1>1, <1>2, <1>3, <1>4, <1>5, <1>6, <1>7, <1>8, <1>9, <1>10, <1>11, <1>12, <1>13, <1>14,
     <1>15
  DEF ProfileNext, Edited

(* A field that the player did not touch in the dialog is not written over a   *)
(* later edit from another tab (EditProfileModal.tsx), unless the player was   *)
(* fetched anew under the dialog; for any number of tabs, edits and failures. *)
THEOREM EditsStayApart == Spec => []EditsKeepOthers
<1>1. Init => Editing
  BY DEF Init, ProfileInit, Editing, ProfileQueries, NewQuery, QueryField
<1>2. Editing /\ [Next]_vars => Editing'
  <2>. SUFFICES ASSUME Editing, [Next]_vars PROVE Editing'
    OBVIOUS
  <2>1. CASE ProfileNext
    BY <2>1, EditingKeeps
  <2>2. CASE UNCHANGED pVars
    BY <2>2 DEF pVars, pUi, pHistory, Editing, ProfileQueries, ChangedField
  <2>. QED BY <2>1, <2>2 DEF Next, vars
<1>3. Editing => EditsKeepOthers
  BY DEF Editing, EditsKeepOthers
<1>. QED BY <1>1, <1>2, <1>3, PTL DEF Spec

--------------------------------------------------------------------------------
(* The form to add a journey (InboxPage).                                    *)

Adds == {w \in iWrites : w.op = "add"}

SentAdds == {w \in Adds : w.at = "sent"}

(* The form that is open may still be sent. *)
Sendable == iForm # None /\ \A w \in Adds : w.arg # iForms

Due == IF Sendable THEN 1 ELSE 0

InboxShape ==
    /\ DOMAIN iStore = {"pending", "seen", "confirmed", "added"}
    /\ iStore.added \in Nat /\ iForms \in Nat /\ faults \in Nat
    /\ IsFiniteSet(iWrites)
    /\ \A w \in iWrites : DOMAIN w = WriteField

(* What was added, what is on its way and what can still be sent come from     *)
(* different forms.                                                          *)
OneEach == faults = 0 => iStore.added + Cardinality(SentAdds) + Due <= iForms

Adding == IF page = "inbox" THEN InboxShape /\ OneEach
          ELSE iStore.added = 0 /\ iForms = 0

LEMMA FewAdds ==
    ASSUME InboxShape
    PROVE  IsFiniteSet(SentAdds) /\ Cardinality(SentAdds) \in Nat
<1>1. SentAdds \subseteq iWrites
  BY DEF SentAdds, Adds
<1>. QED BY <1>1, FS_Subset, FS_CardinalityType DEF InboxShape

(* A step that sends, ends or changes no add, and makes no form sendable. *)
LEMMA SameAdds ==
    ASSUME InboxShape, OneEach, faults' \in {faults, faults + 1},
           UNCHANGED <<iStore, iForms>>,
           iWrites' = iWrites, iForm' \in {iForm, None} \/ iForm # None
    PROVE  (InboxShape /\ OneEach)'
<1>1. InboxShape' /\ SentAdds' = SentAdds
  BY DEF InboxShape, SentAdds, Adds
<1>2. Sendable' => Sendable
  BY DEF Sendable, Adds
<1>3. Due' <= Due /\ Due \in Nat /\ Due' \in Nat
  BY <1>2 DEF Due
<1>. QED BY <1>1, <1>3, FewAdds DEF OneEach, InboxShape

(* Another request than an add begins. *)
LEMMA OtherBegins ==
    ASSUME InboxShape, OneEach, NEW op, op # "add", NEW arg, SendInbox(op, arg)
    PROVE  (InboxShape /\ OneEach)'
<1>1. DOMAIN Sent(op, arg) = WriteField /\ Sent(op, arg).op = op
  BY DEF Sent, WriteField
<1>2. /\ UNCHANGED <<iStore, iForm, iForms, faults>>
      /\ iWrites' = iWrites \cup {Sent(op, arg)}
  BY DEF SendInbox, Click, iUi
<1>3. Adds' = Adds
  BY <1>1, <1>2 DEF Adds
<1>4. InboxShape'
  BY <1>1, <1>2, FS_AddElement DEF InboxShape
<1>. QED BY <1>2, <1>3, <1>4 DEF OneEach, SentAdds, Due, Sendable

(* A request ends: an add that was sent only by a failure, and one that was    *)
(* done is answered, which closes the form, or fails.                        *)
LEMMA RequestEnds ==
    ASSUME InboxShape, OneEach, NEW w \in iWrites, iWrites' = iWrites \ {w},
           UNCHANGED <<iStore, iForms>>,
           \/ faults' = faults + 1
           \/ w.op # "add" /\ faults' = faults /\ iForm' = iForm
           \/ w.at = "done" /\ faults' = faults /\ iForm' = None
    PROVE  (InboxShape /\ OneEach)'
<1>1. InboxShape'
  BY FS_RemoveElement DEF InboxShape
<1>2. ASSUME faults' = 0
      PROVE  SentAdds' = SentAdds /\ (Sendable' => Sendable)
  BY <1>2 DEF InboxShape, SentAdds, Adds, Sendable
<1>3. ASSUME faults' = 0
      PROVE  faults = 0 /\ Due' <= Due /\ Due \in Nat /\ Due' \in Nat
  BY <1>2, <1>3 DEF Due, InboxShape
<1>. QED BY <1>1, <1>2, <1>3, FewAdds DEF OneEach, InboxShape

--------------------------------------------------------------------------------
(* Each step of the page keeps the count. *)
LEMMA AddingKeeps ==
    ASSUME InboxShape, OneEach, InboxNext
    PROVE  (InboxShape /\ OneEach)'
<1>1. ASSUME NEW name \in InboxQueries,
             \/ InboxRefetch(name) \/ InboxServe(name)
             \/ InboxArrive(name) \/ InboxQueryFails(name)
      PROVE  (InboxShape /\ OneEach)'
  BY <1>1, SameAdds
  DEF InboxRefetch, InboxServe, InboxArrive, InboxQueryFails, budget, Fault, iUi
<1>2. ASSUME NEW c \in Card, AgentRecords(c)
      PROVE  (InboxShape /\ OneEach)'
  <2>1. /\ UNCHANGED <<iForm, iForms, iWrites, faults>>
        /\ DOMAIN iStore' = DOMAIN iStore /\ iStore'.added = iStore.added
    BY <1>2 DEF AgentRecords, Click, iUi, InboxShape
  <2>. QED BY <2>1 DEF InboxShape, OneEach, SentAdds, Adds, Due, Sendable
<1>3. ASSUME NEW c \in Card, NEW searchMode \in BOOLEAN,
             OpenConfirm(c, searchMode) \/ OpenExclude(c) \/ CollapseCard(c) \/ FillCard(c)
      PROVE  (InboxShape /\ OneEach)'
  BY <1>3, SameAdds
  DEF OpenConfirm, OpenExclude, CollapseCard, FillCard, SetCard, budget, Click
<1>4. ASSUME NEW c \in Card, SubmitConfirm(c) \/ Dismiss(c) \/ Exclude(c)
      PROVE  (InboxShape /\ OneEach)'
  BY <1>4, OtherBegins DEF SubmitConfirm, Dismiss, Exclude
<1>5. CASE AddButton
  <2>1. UNCHANGED <<iStore, iWrites, faults>> /\ iForm = None
    BY <1>5 DEF AddButton, budget
  <2>2. \/ UNCHANGED <<iForm, iForms>>
        \/ iForms' = iForms + 1
    BY <1>5 DEF AddButton
  <2>3. CASE UNCHANGED <<iForm, iForms>>
    BY <2>1, <2>3, SameAdds
  <2>4. CASE iForms' = iForms + 1
    <3>1. InboxShape' /\ SentAdds' = SentAdds
      BY <2>1, <2>4 DEF InboxShape, SentAdds, Adds
    <3>2. Due = 0 /\ Due' \in {0, 1}
      BY <2>1 DEF Due, Sendable
    <3>. QED BY <2>1, <2>4, <3>1, <3>2, FewAdds DEF OneEach, InboxShape
  <2>. QED BY <2>2, <2>3, <2>4
<1>6. CASE FillForm \/ CancelForm \/ DismissHint \/ ClosePrompt
  BY <1>6, SameAdds DEF FillForm, CancelForm, DismissHint, ClosePrompt, budget, Click
<1>7. CASE SubmitForm
  <2>. DEFINE w == Sent("add", iForms)
  <2>1. /\ UNCHANGED <<iStore, iForm, iForms, faults>>
        /\ iWrites' = iWrites \cup {w}
        /\ Sendable
    BY <1>7 DEF SubmitForm, SendInbox, Click, iUi, Sendable, Adds
  <2>2. DOMAIN w = WriteField /\ w.op = "add" /\ w.arg = iForms /\ w.at = "sent"
    BY DEF Sent, WriteField
  <2>. HIDE DEF w
  <2>3. InboxShape'
    BY <2>1, <2>2, FS_AddElement DEF InboxShape
  <2>4. w \notin SentAdds /\ SentAdds' = SentAdds \cup {w}
    BY <2>1, <2>2 DEF SentAdds, Adds, Sendable
  <2>5. Cardinality(SentAdds') = Cardinality(SentAdds) + 1
    BY <2>4, FewAdds, FS_AddElement
  <2>6. Due = 1 /\ Due' = 0
    BY <2>1, <2>2 DEF Due, Sendable, Adds
  <2>. QED BY <2>1, <2>3, <2>5, <2>6, FewAdds DEF OneEach, InboxShape
<1>8. ASSUME NEW w \in iWrites, InboxWrite(w)
      PROVE  (InboxShape /\ OneEach)'
  <2>1. /\ UNCHANGED <<iForm, iForms, faults>> /\ w.at = "sent"
        /\ iWrites' = (iWrites \ {w}) \cup {Done(w)}
    BY <1>8 DEF InboxWrite, Replace, budget, iUi
  <2>2. DOMAIN w = WriteField
    BY DEF InboxShape
  <2>3. DOMAIN iStore' = DOMAIN iStore
        /\ iStore'.added = IF w.op = "add" THEN iStore.added + 1 ELSE iStore.added
    BY <1>8 DEF InboxWrite, InboxShape
  <2>4. InboxShape'
    <3>1. IsFiniteSet(iWrites \ {w})
      BY FS_RemoveElement DEF InboxShape
    <3>2. IsFiniteSet(iWrites')
      BY <2>1, <3>1, FS_AddElement
    <3>3. iStore'.added \in Nat
      BY <2>3 DEF InboxShape
    <3>4. \A v \in iWrites' : DOMAIN v = WriteField
      BY <2>1, <2>2, DoneIsSame DEF InboxShape
    <3>. QED BY <2>1, <2>3, <3>2, <3>3, <3>4 DEF InboxShape
  <2>5. SentAdds' = SentAdds \ {w}
    BY <2>1, <2>2, DoneIsSame DEF SentAdds, Adds
  <2>6. Sendable' = Sendable
    BY <2>1, <2>2, DoneIsSame DEF Sendable, Adds
  <2>7. Due' = Due /\ Due \in Nat
    BY <2>6 DEF Due
  <2>8. CASE w.op = "add"
    <3>1. w \in SentAdds
      BY <2>1, <2>8 DEF SentAdds, Adds
    <3>2. Cardinality(SentAdds') = Cardinality(SentAdds) - 1
      BY <2>5, <3>1, FewAdds, FS_RemoveElement
    <3>. QED BY <2>1, <2>3, <2>4, <2>7, <2>8, <3>2, FewAdds DEF OneEach, InboxShape
  <2>9. CASE w.op # "add"
    <3>1. SentAdds' = SentAdds
      BY <2>5, <2>9 DEF SentAdds, Adds
    <3>. QED BY <2>1, <2>3, <2>4, <2>7, <2>9, <3>1 DEF OneEach
  <2>. QED BY <2>8, <2>9
<1>9. ASSUME NEW w \in iWrites, InboxWritten(w)
      PROVE  (InboxShape /\ OneEach)'
  BY <1>9, RequestEnds DEF InboxWritten, budget
<1>10. ASSUME NEW w \in iWrites, InboxWriteFails(w)
       PROVE  (InboxShape /\ OneEach)'
  BY <1>10, RequestEnds DEF InboxWriteFails, Refusable, Fault, budget, iUi
<1>11. ASSUME NEW w \in iWrites, InboxTooMany(w)
       PROVE  (InboxShape /\ OneEach)'
  BY <1>11, RequestEnds DEF InboxTooMany, Fault
<1>12. ASSUME NEW c \in Card \cup {0}, InboxCooled(c)
       PROVE  (InboxShape /\ OneEach)'
  BY <1>12, SameAdds DEF InboxCooled, budget
<1>. QED
  BY <1>1, <1>2, <1>3, <1>4, <1>5, <1>6, <1>7, <1>8, <1>9, <1>10, <1>11, <1>12 DEF InboxNext

(* A form that is filled in once adds one journey, however often its button is *)
(* clicked and whatever is cancelled meanwhile, unless a request fails        *)
(* (addMutation); for any number of forms and clicks.                        *)
THEOREM FormsAddNoMore == Spec => []FormsAddOnce
<1>1. Init => Adding
  <2>. SUFFICES ASSUME Init PROVE Adding
    OBVIOUS
  <2>1. iWrites = {} /\ iForm = None /\ iForms = 0 /\ faults = 0
        /\ iStore.added = 0 /\ DOMAIN iStore = {"pending", "seen", "confirmed", "added"}
    BY DEF Init, InboxInit
  <2>2. SentAdds = {} /\ Due = 0
    BY <2>1 DEF SentAdds, Adds, Due, Sendable
  <2>. QED BY <2>1, <2>2, FS_EmptySet DEF Adding, InboxShape, OneEach
<1>2. Adding /\ [Next]_vars => Adding'
  <2>. SUFFICES ASSUME Adding, [Next]_vars PROVE Adding'
    OBVIOUS
  <2>1. CASE page = "inbox" /\ page' = page /\ InboxNext
    BY <2>1, AddingKeeps DEF Adding
  <2>2. CASE page # "inbox" /\ page' = page /\ UNCHANGED iVars
    BY <2>2 DEF iVars, iUi, Adding
  <2>3. CASE UNCHANGED vars
    BY <2>3 DEF vars, iVars, iUi, budget, Adding, InboxShape, OneEach, SentAdds, Adds, Due,
                Sendable
  <2>. QED BY <2>1, <2>2, <2>3 DEF Next
<1>3. Adding => FormsAddOnce
  <2>. SUFFICES ASSUME Adding, faults = 0 PROVE iStore.added <= iForms
    BY DEF FormsAddOnce
  <2>1. CASE page = "inbox"
    <3>1. Due \in Nat
      BY DEF Due
    <3>. QED BY <2>1, <3>1, FewAdds DEF Adding, OneEach, InboxShape
  <2>2. CASE page # "inbox"
    BY <2>2 DEF Adding
  <2>. QED BY <2>1, <2>2
<1>. QED BY <1>1, <1>2, <1>3, PTL DEF Spec
================================================================================
