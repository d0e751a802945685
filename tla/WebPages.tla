------------------------------- MODULE WebPages -------------------------------
(****************************************************************************)
(* The pages of the web app, one mounted per behaviour (the routes of        *)
(* App.tsx).  Pages share nothing but the cache, which a page is opened with  *)
(* empty or, where that matters to it, filled.                              *)
(****************************************************************************)
EXTENDS JourneyPage, BacklogPage, SettingsPage, InboxPage, NotificationsPage, AdminPage,
        ProfilePage, SignInPage, WebLists

VARIABLE page

vars == <<page, budget, jVars, bVars, sVars, iVars, nVars, aVars, pVars, uVars, lVars>>

CONSTANTS
    Page,           \* the pages explored
    LargePage       \* those with one click less, to bound them

(* A choice the mounted page is made with, or any value for the others. *)
On(p, choices, any) == IF page = p THEN choices ELSE {any}

Init ==
    /\ page \in Page
    /\ clicks = IF page \in LargePage THEN 1 ELSE 0
    /\ faults = 0
    /\ role \in On("journey", {"guest", "visitor", "owner"}, "guest")
    /\ section \in On("settings", Lists \cup {"preferences", "account"}, "account")
    /\ signed \in On("inbox", BOOLEAN, TRUE)
    /\ watched \in On("inbox", {"count", "history"}, "count")
    /\ JourneyInit
    /\ BacklogInit
    /\ SettingsInit
    /\ InboxInit
    /\ direct \in On("notifications", BOOLEAN, TRUE)
    /\ NotificationsInit
    /\ admin \in On("admin", BOOLEAN, TRUE)
    /\ AdminInit
    /\ pRole \in On("profile", {"editor", "avatar", "visitor", "guest"}, "guest")
    /\ ProfileInit
    /\ SignInInit
    /\ screen \in On("lists", Screen, ReportsScreen)
    /\ ListsInit

Next ==
    /\ UNCHANGED page
    /\ \/ page = "journey" /\ JourneyNext /\ UNCHANGED <<bVars, sVars, iVars, nVars, aVars, pVars, uVars, lVars>>
       \/ page = "backlog" /\ BacklogNext /\ UNCHANGED <<jVars, sVars, iVars, nVars, aVars, pVars, uVars, lVars>>
       \/ page = "settings" /\ SettingsNext /\ UNCHANGED <<jVars, bVars, iVars, nVars, aVars, pVars, uVars, lVars>>
       \/ page = "inbox" /\ InboxNext /\ UNCHANGED <<jVars, bVars, sVars, nVars, aVars, pVars, uVars, lVars>>
       \/ page = "notifications" /\ NotificationsNext /\ UNCHANGED <<jVars, bVars, sVars, iVars, aVars, pVars, uVars, lVars>>
       \/ page = "admin" /\ AdminNext /\ UNCHANGED <<jVars, bVars, sVars, iVars, nVars, pVars, uVars, lVars>>
       \/ page = "profile" /\ ProfileNext /\ UNCHANGED <<jVars, bVars, sVars, iVars, nVars, aVars, uVars, lVars>>
       \/ page = "signin" /\ SignInNext /\ UNCHANGED <<jVars, bVars, sVars, iVars, nVars, aVars, pVars, lVars>>
       \/ page = "lists" /\ ListsNext /\ UNCHANGED <<jVars, bVars, sVars, iVars, nVars, aVars, pVars, uVars>>

(* The requests of the comments and of the lists are answered.               *)
FirstAnswered ==
    /\ \/ page = "journey" /\ ~jLeft /\ (JourneyServe("comments") \/ JourneyArrive("comments"))
       \/ page = "lists" /\ UNCHANGED clicks /\ \E k \in Subject : Serve(k) \/ Arrive(k)
    /\ UNCHANGED <<page, bVars, sVars, iVars, nVars, aVars, pVars, uVars>>
    /\ IF page = "lists" THEN UNCHANGED jVars ELSE UNCHANGED lVars

(* The comments, and the feed, are fetched again by a timer. *)
Polled ==
    /\ \/ page = "journey" /\ ~jLeft /\ JourneyRefetch("comments")
       \/ page = "lists" /\ screen.polls /\ UNCHANGED clicks /\ Ask
    /\ UNCHANGED <<page, bVars, sVars, iVars, nVars, aVars, pVars, uVars>>
    /\ IF page = "lists" THEN UNCHANGED jVars ELSE UNCHANGED lVars

Spec == Init /\ [][Next]_vars /\ WF_vars(FirstAnswered) /\ WF_vars(Polled)

--------------------------------------------------------------------------------
(* What a page waits for is on its way: a button, a switch or a dialog that   *)
(* is disabled until its request is answered has that request in flight, on   *)
(* whatever path it failed, was overtaken or had its dialog closed; and what  *)
(* is open is open on something that is shown (the pages' own state).        *)
PagesTypeOK ==
    /\ page \in Page /\ clicks \in 0..MaxClicks /\ faults \in 0..MaxFaults
    /\ jMore # None => JourneyShown \/ jList.rows # <<>>
    /\ bRemoving # None => \E w \in bWrites : w.op = "remove" /\ w.arg = bRemoving
    /\ sForm.sure => sForm.deleting
    /\ \A c \in Card : iCards[c].at # "collapsed" => CardShown(c)
    /\ nMarks.sent \in Nat /\ nMarks.done \in Nat
    /\ aDialog # None => admin /\ ~aAway
    /\ pAvatar.busy = Pending(pWrites, "avatar")
    /\ (pEditor # None /\ pEditor.saving) =>
         \E w \in pWrites : w.op = "update" /\ w.arg.id = pEditor.id
    /\ \A t \in Tab : uTabs[t].at = "provider" => uTabs[t].state # None
    /\ loading = (more # None)

(* Once its requests are answered a page shows what the server keeps, whatever  *)
(* refetches, invalidations, failures and clicks have overlapped: the journey,  *)
(* the backlog's order, the settings, the inbox, what was read, what moderators *)
(* did, the profile.  Each part states the races its page excludes.            *)
PagesShowSaved ==
    /\ JourneyShowsSaved
    /\ BacklogShowsOrder
    /\ SettingsShowSaved
    /\ InboxShowsSaved
    /\ NotificationsShowRead
    /\ AdminSeesItsActs
    /\ ProfileShowsSaved
================================================================================
