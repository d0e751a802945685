--------------------------- MODULE NotificationsPage ---------------------------
(****************************************************************************)
(* The notifications page (Notifications.tsx) and the dot of the side bar     *)
(* (Sidebar.tsx, useNotifications.ts): opening the page marks everything read *)
(* on the server, while the list it shows and the list behind the dot are     *)
(* being fetched.  Further pages of the list are the business of WebLists.    *)
(****************************************************************************)
EXTENDS WebClient

CONSTANT Note       \* notifications, numbers; the first is there from the start

ASSUME NoteAssumption == Note \subseteq Nat \ {0}

VARIABLES
    direct,         \* the browser was opened on this page, with nothing cached
    nStore,         \* the server: the notifications, the unread ones, the version
                    \* of the player's profile
    nQuery,         \* the queries: me, page, and dot
    nList,          \* the list shown: its rows, and those shown as unread
    nMarks,         \* marks in flight: how many, by where they are
    nView,          \* the filter, and the row whose followers are shown
    nMissed         \* history: queries the server has not worked on since a change
                    \* that was not followed by their invalidation

nVars == <<direct, nStore, nQuery, nList, nMarks, nView, nMissed>>

Kinds == {"all", "comments", "followers"}

(* Odd notifications are about comments, even ones about new followers. *)
Visible(n, filter) ==
    filter = "all" \/ (filter = "comments") = (n % 2 = 1)

NotificationsInit ==
    /\ nStore = [all |-> {1}, unread |-> {1}, profile |-> 1]
    /\ nQuery = IF direct
                THEN [me |-> NewQuery, page |-> NotAsked, dot |-> NotAsked]
                ELSE [me   |-> Cached(1),
                      page |-> NewQuery,
                      dot  |-> Cached({1})]
    /\ nList = [rows |-> {}, unread |-> {}]
    /\ nMarks = [sent |-> IF direct THEN 0 ELSE 1, done |-> 0]
    /\ nView = [filter |-> "all", followers |-> None]
    /\ nMissed = {}

--------------------------------------------------------------------------------
(* The queries: getCurrentPlayer, getNotifications and fetchNotifications, the *)
(* last two for a player only.                                               *)

NotificationQueries == {"me", "page", "dot"}

Player == nQuery.me.data # None

NotificationAnswer(name) ==
    CASE name = "page" -> [rows |-> nStore.all, unread |-> nStore.unread]
      [] name = "dot"  -> nStore.unread

SetNotifications(name, q) == nQuery' = [nQuery EXCEPT ![name] = q]

NotificationsRefetch(name) ==
    /\ name = "me" \/ Player
    /\ SetNotifications(name, Refetched(nQuery[name]))
    /\ UNCHANGED <<direct, nStore, nList, nMarks, nView, nMissed, budget>>

NotificationsServe(name) ==
    /\ name # "me" /\ IsAsked(nQuery[name])
    /\ SetNotifications(name, Served(nQuery[name], NotificationAnswer(name)))
    /\ nMissed' = nMissed \ {name}
    /\ UNCHANGED <<direct, nStore, nList, nMarks, nView, budget>>

(* A player that is new, or not the one shown before: the effect marks all    *)
(* read, and the queries waiting for a player start.  The server's work and   *)
(* the answer are one step.                                                  *)
PlayerArrives ==
    /\ IsAsked(nQuery.me)
    /\ nQuery' = [me   |-> Cached(nStore.profile),
                  page |-> IF Player THEN nQuery.page ELSE NewQuery,
                  dot  |-> IF Player THEN nQuery.dot ELSE NewQuery]
    /\ nMarks' = IF nStore.profile = nQuery.me.data THEN nMarks
                 ELSE [nMarks EXCEPT !.sent = @ + 1]
    /\ UNCHANGED <<direct, nStore, nList, nView, nMissed, budget>>

(* The effect on notificationsPage copies it over the list. *)
NotificationsArrive(name) ==
    /\ IsServed(nQuery[name])
    /\ SetNotifications(name, Arrived(nQuery[name]))
    /\ nList' = IF name = "page" THEN nQuery.page.answer ELSE nList
    /\ UNCHANGED <<direct, nStore, nMarks, nView, nMissed, budget>>

NotificationsFail(name) ==
    /\ InFlight(nQuery[name]) /\ Fault
    /\ SetNotifications(name, Lost(nQuery[name]))
    /\ nMissed' = nMissed \cup {name}
    /\ UNCHANGED <<direct, nStore, nList, nMarks, nView>>

--------------------------------------------------------------------------------
(* markAllRead.                                                              *)

MarkServed ==
    /\ nMarks.sent > 0
    /\ nMarks' = [sent |-> nMarks.sent - 1, done |-> nMarks.done + 1]
    /\ nStore' = [nStore EXCEPT !.unread = {}]
    /\ UNCHANGED <<direct, nQuery, nList, nView, nMissed, budget>>

(* Mutant: only the list is fetched again, not the dot. *)
PageInvalidated == {"page"}

(* "notifications" is a prefix of both keys. *)
MarkInvalidates == {"page", "dot"}

(* onSuccess: both are fetched again, and the rows shown become read.         *)
MarkWritten ==
    /\ nMarks.done > 0
    /\ nMarks' = [nMarks EXCEPT !.done = @ - 1]
    /\ nQuery' = [n \in NotificationQueries |->
                    IF n \in MarkInvalidates THEN Invalidated(nQuery[n]) ELSE nQuery[n]]
    /\ nMissed' = nMissed \cup
                    {n \in MarkInvalidates : nQuery[n].data = None /\ InFlight(nQuery[n])}
    /\ nList' = [nList EXCEPT !.unread = {}]
    /\ UNCHANGED <<direct, nStore, nView, budget>>

MarkFails ==
    /\ Fault
    /\ \/ /\ nMarks.sent > 0
          /\ nMarks' = [nMarks EXCEPT !.sent = @ - 1]
          /\ UNCHANGED nMissed
       \/ /\ nMarks.done > 0
          /\ nMarks' = [nMarks EXCEPT !.done = @ - 1]
          /\ nMissed' = {"page", "dot"}
    /\ UNCHANGED <<direct, nStore, nQuery, nList, nView>>

--------------------------------------------------------------------------------
(* Others, another tab, and the user.                                        *)

Notify(n) ==
    /\ n \notin nStore.all /\ Click
    /\ nStore' = [nStore EXCEPT !.all = @ \cup {n}, !.unread = @ \cup {n}]
    /\ UNCHANGED <<direct, nQuery, nList, nMarks, nView, nMissed>>

(* The profile is edited in another tab, once. *)
ProfileEdited ==
    /\ nStore.profile = 1 /\ Click
    /\ nStore' = [nStore EXCEPT !.profile = 2]
    /\ UNCHANGED <<direct, nQuery, nList, nMarks, nView, nMissed>>

NotificationsQuiet ==
    /\ nMarks.sent + nMarks.done = 0
    /\ \A n \in NotificationQueries : ~InFlight(nQuery[n])

(* The tabs and the rows only look at the list: they are used at rest. *)
ChooseTab(filter) ==
    /\ filter # nView.filter /\ nView.followers = None
    /\ NotificationsQuiet /\ Click
    /\ nView' = [nView EXCEPT !.filter = filter]
    /\ UNCHANGED <<direct, nStore, nQuery, nList, nMarks, nMissed>>

(* A row of several new followers opens their list. *)
ShowFollowers(n) ==
    /\ n \in nList.rows /\ n % 2 = 0 /\ Visible(n, nView.filter)
    /\ nView.followers = None
    /\ NotificationsQuiet /\ Click
    /\ nView' = [nView EXCEPT !.followers = n]
    /\ UNCHANGED <<direct, nStore, nQuery, nList, nMarks, nMissed>>

HideFollowers ==
    /\ nView.followers # None
    /\ nView' = [nView EXCEPT !.followers = None]
    /\ UNCHANGED <<direct, nStore, nQuery, nList, nMarks, nMissed, budget>>

NotificationsNext ==
    \/ \E name \in NotificationQueries :
         \/ NotificationsRefetch(name) \/ NotificationsServe(name)
         \/ NotificationsArrive(name) \/ NotificationsFail(name)
    \/ PlayerArrives
    \/ MarkServed \/ MarkWritten \/ MarkFails
    \/ \E n \in Note : Notify(n) \/ ShowFollowers(n)
    \/ ProfileEdited
    \/ \E filter \in Kinds : ChooseTab(filter)
    \/ HideFollowers

--------------------------------------------------------------------------------
(* When every request is answered, the dot is not lit for what has been read,  *)
(* and the list shows as unread what the server has as unread, although new    *)
(* notifications come while the marking and the fetches overlap.  Only a       *)
(* query whose first answer was under way when the marking succeeded, which    *)
(* no invalidation restarts, that failed, or that a lost answer to the         *)
(* marking should have invalidated may be behind (markReadMutation).          *)
NotificationsShowRead ==
    NotificationsQuiet =>
        /\ (nQuery.dot.data # None /\ "dot" \notin nMissed) =>
             nQuery.dot.data \subseteq nStore.unread
        /\ "page" \notin nMissed => nList.unread = nStore.unread \cap nList.rows
================================================================================
