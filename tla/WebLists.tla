------------------------------- MODULE WebLists -------------------------------
(****************************************************************************)
(* The paged lists of the web app.  Every screen that lists rows fetches the *)
(* first page with react-query, copies it into state of its own and appends  *)
(* later pages to that copy with a Load more button.  The first page is     *)
(* fetched again by a timer, on focus or when it is invalidated; the rows   *)
(* change on the server meanwhile; and a profile or a filter may change     *)
(* under a mounted list.  The screens differ in a few points, which their    *)
(* records below name; one screen is mounted per behaviour.                 *)
(*                                                                          *)
(* A row is its position in the server's order, newest (or first by name)   *)
(* first.  react-query is modelled from its use: one request per key, the    *)
(* last good page kept when a refetch fails, retry off (main.tsx).           *)
(****************************************************************************)
EXTENDS WebClient

CONSTANTS
    First, Other,   \* the profile or filter a screen opens on, and another one
    MaxRow,         \* bound on the server's positions
    MaxShown,       \* bound on the rows shown when Load more is clicked
    MaxChanges      \* bound on the changes made to the server's rows

ASSUME ListsAssumption ==
    /\ MaxRow \in Nat /\ None \notin 1 .. MaxRow
    /\ First # Other
    /\ LET Rows    == Seq({First, Other} \X (1 .. MaxRow))
           Cursors == {None} \cup 1 .. MaxRow
       IN  None \notin [of : {First, Other}, after : 1 .. MaxRow,
                        reply : {None} \cup [rows : Rows, cursor : Cursors]]

Subject == {First, Other}

--------------------------------------------------------------------------------
(* The services.  swallows: a response that is not ok becomes an empty page   *)
(* without a cursor instead of an exception.  cursor: what the endpoint puts *)
(* in next_cursor, the last row of the page ("last"), the first row that did *)
(* not fit ("next"), or the last row whenever the page is full ("full").     *)
(* dated: each row it maps has a Date.                                       *)

GetFeedItems      == [swallows |-> TRUE, cursor |-> "last", dated |-> TRUE]
GetPlayerActivity == [swallows |-> TRUE, cursor |-> "last", dated |-> TRUE]
GetUserJourneys   == [swallows |-> FALSE, cursor |-> "next", dated |-> TRUE]
GetPlayerGames    == [swallows |-> FALSE, cursor |-> "next", dated |-> TRUE]
GetGameJourneys   == [swallows |-> FALSE, cursor |-> "full", dated |-> TRUE]
GetNotifications  == [swallows |-> FALSE, cursor |-> "last", dated |-> TRUE]
GetFollowers      == [swallows |-> FALSE, cursor |-> "last", dated |-> FALSE]
GetFollowing      == [swallows |-> FALSE, cursor |-> "last", dated |-> FALSE]
ListReports       == [swallows |-> FALSE, cursor |-> "last", dated |-> TRUE]
ListRecentUsers   == [swallows |-> FALSE, cursor |-> "last", dated |-> TRUE]

(* The screens.  keeps: later pages stay in a list of their own when the      *)
(* first page is fetched again, and the first page's cursor is used when     *)
(* there is none.  polls: refetched by a timer.  moves: the subject may      *)
(* change while the list is mounted.  inserts: where new rows appear.        *)

FeedScreen ==
    [service |-> GetFeedItems, keeps |-> TRUE, polls |-> TRUE, moves |-> FALSE,
     inserts |-> "front"]

ActivityScreen ==
    [service |-> GetPlayerActivity, keeps |-> FALSE, polls |-> FALSE, moves |-> TRUE,
     inserts |-> "front"]

FollowersScreen ==
    [service |-> GetFollowers, keeps |-> FALSE, polls |-> FALSE, moves |-> TRUE,
     inserts |-> "anywhere"]

FollowingScreen ==
    [service |-> GetFollowing, keeps |-> FALSE, polls |-> FALSE, moves |-> TRUE,
     inserts |-> "anywhere"]

GamesScreen ==
    [service |-> GetPlayerGames, keeps |-> FALSE, polls |-> FALSE, moves |-> TRUE,
     inserts |-> "anywhere"]

HistoryScreen ==
    [service |-> GetUserJourneys, keeps |-> FALSE, polls |-> FALSE, moves |-> FALSE,
     inserts |-> "anywhere"]

GameJourneysScreen ==
    [service |-> GetGameJourneys, keeps |-> FALSE, polls |-> FALSE, moves |-> FALSE,
     inserts |-> "anywhere"]

NotificationsScreen ==
    [service |-> GetNotifications, keeps |-> FALSE, polls |-> FALSE, moves |-> FALSE,
     inserts |-> "front"]

ReportsScreen ==
    [service |-> ListReports, keeps |-> FALSE, polls |-> FALSE, moves |-> FALSE,
     inserts |-> "front"]

UsersScreen ==
    [service |-> ListRecentUsers, keeps |-> FALSE, polls |-> FALSE, moves |-> FALSE,
     inserts |-> "front"]

Screen == {FeedScreen, ActivityScreen, FollowersScreen, FollowingScreen, GamesScreen,
           HistoryScreen, GameJourneysScreen, NotificationsScreen, ReportsScreen,
           UsersScreen}

--------------------------------------------------------------------------------
VARIABLES
    screen,         \* the mounted screen
    subject,        \* the profile or filter it shows
    server,         \* the server's rows, per subject
    cache,          \* react-query: the last good first page, per subject
    query,          \* the request for it: None, Asked or the page served
    list,           \* the screen's own rows and cursor
    loading,        \* its loadingMore flag
    more,           \* the request for a later page: None or a record
    torn,           \* history: a page was applied to another list than the one
                    \* it continues, or is about to be
    gone,           \* history: rows ever deleted or inserted, per subject
    changes         \* the changes so far

lVars == <<screen, subject, server, cache, query, list, loading, more, torn, gone, changes>>

(* WebPages chooses the screen. *)
ListsInit ==
    /\ subject = First
    /\ server = [k \in Subject |-> 1 .. MaxRow - 1]
    /\ cache = [k \in Subject |-> None]
    /\ query = [k \in Subject |-> IF k = First THEN Asked ELSE None]
    /\ list = [rows |-> <<>>, cursor |-> None]
    /\ loading = FALSE
    /\ more = None
    /\ torn = FALSE
    /\ gone = [k \in Subject |-> {}]
    /\ changes = 0

(* Mutant: the request is sent without its cursor. *)
BelowNothing(k, cursor) == server[k]

(* The rows after the cursor, as the endpoints' queries select them. *)
Below(k, cursor) == {r \in server[k] : cursor = None \/ r < cursor}

Descending(S) ==
    [i \in 1 .. Cardinality(S) |-> CHOOSE r \in S : Cardinality({q \in S : q[2] >= r[2]}) = i]

(* The rows of S with fewer than n others before them. *)
Newest(S, n) == {r \in S : Cardinality({q \in S : q > r}) < n}

(* A page of the endpoint: rows after the cursor, and the cursor of the next. *)
PageOf(k, cursor) ==
    LET all  == Below(k, cursor)
        page == Newest(all, PageSize)
        rest == all \ page
        last == CHOOSE r \in page : \A q \in page : r <= q
        sent == rest # {} \/ (screen.service.cursor = "full" /\ Cardinality(page) = PageSize)
    IN  [rows   |-> Descending({<<k, r>> : r \in page}),
         cursor |-> IF ~sent THEN None
                    ELSE IF screen.service.cursor = "next"
                         THEN CHOOSE r \in Newest(rest, 1) : TRUE
                         ELSE last]

EmptyPage == [rows |-> <<>>, cursor |-> None]

FirstRows   == IF cache[subject] = None THEN <<>> ELSE cache[subject].rows
FirstCursor == IF cache[subject] = None THEN None ELSE cache[subject].cursor

Shown  == IF screen.keeps THEN FirstRows \o list.rows ELSE list.rows
Cursor == IF screen.keeps /\ list.cursor = None THEN FirstCursor ELSE list.cursor

--------------------------------------------------------------------------------
(* The first page. *)

(* Mutant: fetched once only. *)
AskOnce ==
    /\ query[subject] = None /\ cache[subject] = None
    /\ query' = [query EXCEPT ![subject] = Asked]
    /\ UNCHANGED <<screen, subject, server, cache, list, loading, more, torn, gone,
                   changes, faults>>

(* By the timer, on focus, when invalidated. *)
Ask ==
    /\ query[subject] = None
    /\ query' = [query EXCEPT ![subject] = Asked]
    /\ UNCHANGED <<screen, subject, server, cache, list, loading, more, torn, gone,
                   changes, faults>>

Serve(k) ==
    /\ query[k] = Asked
    /\ query' = [query EXCEPT ![k] = PageOf(k, None)]
    /\ UNCHANGED <<screen, subject, server, cache, list, loading, more, torn, gone,
                   changes, faults>>

(* The effect on the fetched page copies it into the list, dropping the later *)
(* pages; a screen that keeps them shows the new first page above them.      *)
CopyFirst(page) ==
    IF screen.keeps
    THEN /\ list' = list
         /\ torn' = (torn \/ loading \/ list.rows # <<>>)
    ELSE /\ list' = page
         /\ torn' = loading

(* react-query keeps the old page when the new one is deeply equal to it,      *)
(* which no page with a Date in it is.                                       *)
IsOld(k, page) == page = cache[k] /\ (page.rows = <<>> \/ ~screen.service.dated)

(* The effect runs only on another page.  An empty page made of a swallowed    *)
(* error lacks the key nextCursor, so it may or may not be equal to another.  *)
Copied(k, page) ==
    \/ /\ k = subject
       /\ ~IsOld(k, page) \/ screen.service.swallows
       /\ CopyFirst(page)
    \/ /\ k # subject \/ IsOld(k, page)
       /\ UNCHANGED <<list, torn>>

Got(k, page) ==
    /\ cache' = [cache EXCEPT ![k] = page]
    /\ query' = [query EXCEPT ![k] = None]
    /\ Copied(k, page)
    /\ UNCHANGED <<screen, subject, server, loading, more, gone, changes>>

Arrive(k) ==
    /\ query[k] \notin {None, Asked}
    /\ Got(k, query[k])
    /\ UNCHANGED faults

(* Not ok: an empty page for the services that swallow it. *)
Refused(k) ==
    /\ query[k] # None /\ Fault
    /\ screen.service.swallows
    /\ Got(k, EmptyPage)

(* An exception: react-query keeps the last good page. *)
Fails(k) ==
    /\ query[k] # None /\ Fault
    /\ query' = [query EXCEPT ![k] = None]
    /\ UNCHANGED <<screen, subject, server, cache, list, loading, more, torn, gone,
                   changes>>

--------------------------------------------------------------------------------
(* Load more. *)

(* A screen that keeps its later pages starts again from the first page's     *)
(* cursor once it has none left.                                             *)
ClickMore ==
    /\ Cursor # None /\ ~loading
    /\ Len(Shown) < MaxShown
    /\ loading' = TRUE
    /\ more' = [of |-> subject, after |-> Cursor, reply |-> None]
    /\ torn' = (torn \/ (screen.keeps /\ list.rows # <<>> /\ list.cursor = None))
    /\ UNCHANGED <<screen, subject, server, cache, query, list, gone, changes, faults>>

ServeMore ==
    /\ more # None /\ more.reply = None
    /\ more' = [more EXCEPT !.reply = PageOf(more.of, more.after)]
    /\ UNCHANGED <<screen, subject, server, cache, query, list, loading, torn, gone,
                   changes, faults>>

(* Appended to whatever the list is by then, and the cursor taken. *)
Appended(page) == [rows |-> list.rows \o page.rows, cursor |-> page.cursor]

ArriveMore ==
    /\ more # None /\ more.reply # None
    /\ list' = Appended(more.reply)
    /\ more' = None
    /\ loading' = FALSE
    /\ UNCHANGED <<screen, subject, server, cache, query, torn, gone, changes, faults>>

(* Not ok, with a service that swallows it: the list has come to its end. *)
MoreRefused ==
    /\ more # None /\ Fault
    /\ screen.service.swallows
    /\ list' = Appended(EmptyPage)
    /\ more' = None
    /\ loading' = FALSE
    /\ UNCHANGED <<screen, subject, server, cache, query, torn, gone, changes>>

(* Mutant: a failure is taken for an empty page. *)
MoreFailsAsEnd ==
    /\ more # None /\ Fault
    /\ list' = Appended(EmptyPage)
    /\ more' = None /\ loading' = FALSE
    /\ UNCHANGED <<screen, subject, server, cache, query, torn, gone, changes>>

(* The exception is not caught; finally resets the flag. *)
MoreFails ==
    /\ more # None /\ Fault
    /\ more' = None
    /\ loading' = FALSE
    /\ UNCHANGED <<screen, subject, server, cache, query, list, torn, gone, changes>>

--------------------------------------------------------------------------------
(* The user follows a link from one profile to another, or changes a filter.  *)
(* The component stays mounted with its list; a page of the new subject that *)
(* is cached replaces it at once, else its first fetch does.                 *)
Move(k) ==
    /\ screen.moves /\ k # subject
    /\ subject' = k
    /\ IF cache[k] # None
       THEN CopyFirst(cache[k]) /\ UNCHANGED query
       ELSE /\ torn' = TRUE
            /\ query' = IF query[k] = None THEN [query EXCEPT ![k] = Asked] ELSE query
            /\ UNCHANGED list
    /\ UNCHANGED <<screen, server, cache, loading, more, gone, changes, faults>>

(* Somebody adds or removes a row. *)
Change(k, r) ==
    /\ k = First \/ screen.moves
    /\ changes < MaxChanges /\ changes' = changes + 1
    /\ \/ r \in server[k] /\ server' = [server EXCEPT ![k] = @ \ {r}]
       \/ /\ r \notin server[k]
          /\ screen.inserts = "front" => \A q \in server[k] : q < r
          /\ server' = [server EXCEPT ![k] = @ \cup {r}]
    /\ gone' = [gone EXCEPT ![k] = @ \cup {r}]
    /\ UNCHANGED <<screen, subject, cache, query, list, loading, more, torn, faults>>

ListsNext ==
    /\ UNCHANGED clicks
    /\ \/ Ask
       \/ \E k \in Subject : Serve(k) \/ Arrive(k) \/ Refused(k) \/ Fails(k) \/ Move(k)
       \/ ClickMore \/ ServeMore \/ ArriveMore \/ MoreRefused \/ MoreFails
       \/ \E k \in Subject, r \in 1 .. MaxRow : Change(k, r)

--------------------------------------------------------------------------------
(* A list is in order, without a row twice or a row of another profile, unless *)
(* its first page was replaced, or its subject changed, while a later page   *)
(* was in flight or kept (the loadMore functions of the screens, whose       *)
(* replies are appended to whatever list is there when they arrive), and no   *)
(* other first page was copied since; on the tabs of followers and followed   *)
(* a refetch copies it only when something in it is new (PlayerProfile.tsx).  *)
ListsDescend ==
    ~torn => \A i, j \in DOMAIN Shown :
                /\ Shown[i][1] = subject
                /\ i < j => Shown[i][2] > Shown[j][2]

AtEnd == cache[subject] # None /\ Cursor = None /\ ~loading

Everything(k) == {<<k, r>> : r \in (1 .. MaxRow - 1) \ gone[k]}

(* A list without a Load more button shows every row that was on the server   *)
(* all along, whatever failed on the way, where the endpoint's cursor is the *)
(* last row it sent and its service does not swallow errors.                 *)
CompleteAtEnd ==
    (AtEnd /\ ~torn /\ screen.service.cursor # "next" /\ ~screen.service.swallows)
        => \A row \in Everything(subject) : \E i \in DOMAIN Shown : Shown[i] = row

(* However its requests fail, the feed ends up showing the server's newest    *)
(* rows (refetchInterval in Feed.tsx).                                       *)
FeedCatchesUp ==
    <>[](screen = FeedScreen => cache[subject] = PageOf(subject, None))

--------------------------------------------------------------------------------
(* What a document says and the code does not do *)

(* docs/API.md:13: "Responses include `"next_cursor"` when a further page     *)
(* exists. Pass `cursor=<value>` to advance."  So a list followed to its end *)
(* has shown every row.                                                      *)
CursorAdvances ==
    (AtEnd /\ ~torn /\ faults = 0)
        => \A row \in Everything(subject) : \E i \in DOMAIN Shown : Shown[i] = row
================================================================================
