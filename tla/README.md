# A verification project for Yurnik

Yurnik records play sessions. A Windows agent (`agent/`, C#) notices running
games and reports each finished session to an API (`api/`, Go over Postgres),
where it becomes a pending journey; the user confirms it in a web app (`web/`,
React), and it appears in the feeds of followers. These modules model the parts
of that system where order, failure and repetition matter, check them with TLC,
and prove the most important results with TLAPS.

Paths below are relative to the repository; `Agent/` is
`agent/Yurnik.Agent/src/` and `API/` is `api/internal/`.

## 1. Inventory

| Component | State it keeps | Operations | What is hard | What makes it correct |
|---|---|---|---|---|
| Process watcher (`Agent/Detection/ProcessWatcher.cs`) | `_seen` and caches in memory; table `sessions` | poll every 5 s: insert a row per new game, prune `_seen` | runs beside the monitor; pids are reused | a running game has a row |
| Session monitor (`Agent/Detection/SessionMonitor.cs`) | table `sessions` | every 5 min: heartbeat live rows, move dead ones to the outbox or discard short ones, delete the row | two statements per row, the agent may die between them, the game between its test and its stamp; a process that cannot be queried counts as dead; rows change under its snapshot | no session is lost; the recorded end is time played; dead rows leave |
| Outbox and queue processor (`Agent/Queue/`) | table `queue`; rate-limit pause | every 15 min: peek 20, skip those in backoff, POST, delete or count the attempt | lost answers, late requests, 401 and 429 | delivered at last; a second time only after a failure |
| Agent authentication and workers (`Agent/Auth/AuthManager.cs`, `Agent/TrayApp.cs`) | token in the credential store, in the HTTP client; `IsAuthenticated`; three worker loops and a timer | start-up check, sign-in by `yurnik://` callback, refresh loop, 401, sign-out; start and stop of the workers | callbacks from several threads; awaits between reading and writing the token | the token is renewed in time; stored and sent token agree; no worker loop runs for nobody |
| Agent notification monitor (`Agent/Notifications/`) | table `notified_notifications` | every hour, and at its start: ask for preferences and the first page, show what is new, note it | checks overlap; the process may end between a toast and its note | a notification is shown, and again only when a check was cut off or overlapped |
| Game detection, updates, registration | caches, registry | classification of executables | none across polls | - |
| Pending journeys (`API/agent/handler.go`, `API/db/journeys.go`, `API/journeys/handler.go`) | tables `pending_journeys`, `journeys`, `exe_exclusions`, `exe_game_hints` | post (check exclusion, look up hint, upsert or merge, auto-confirm), confirm, discard, exclude, evict | each handler is several statements; posts repeat, overlap and come out of order | play time is neither lost nor counted twice |
| Velocity limiter (`API/middleware/velocity.go`) | per user: last request, cooldown, violations | `Allow`, hourly eviction | boundaries, eviction during a cooldown | spacing and announced waits are kept; patience is served |
| API authentication (`API/auth/`) | OAuth state, one-time codes, JWT (no session table) | init, callback, session, heartbeat renewal, suspension | single use, expiry, renewal of a suspended user | a code is used once; who is suspended is out |
| Notifications (`API/db/notifications.go`) | rows per recipient, type and subject that gather actors for a day | upsert, mark read, list, evict | three statements per upsert, no transaction; requests race each other, the panel and the job | news shows as unread and is kept; rows close; second rows come from races only |
| Profile, follows, users (`API/profile/`, `API/db/users.go`) | follows, handles, accounts | follow and notify, change handle, delete account | handle exchange in several statements | a handle names one user |
| Feed (`API/db/activity.go`, `API/journeys/handler.go`, `web/src/pages/Feed.tsx`) | none; cursors at the client | merge of sources by time, paging | equal times at a page boundary; inserts while paging | every item once |
| Backlog (`API/db/backlog.go`) | position per game | add, remove, reorder | concurrent adds | positions stay a permutation |
| Reports and moderation (`API/reports/`) | reports, suspensions | report, resolve | escalation by the limiter | - |
| Games and IGDB (`API/games/`) | caches, IGDB token | proxy | token refresh under concurrency | - |
| Maintenance (`api/cmd/maintenance`) | - | evict old rows, refresh releases | runs beside the API | - |
| Export, sitemap, avatars, migrations | external storage | listings, uploads | an upload and its row | - |
| Web: query cache (react-query as `web/src/main.tsx` sets it up) | per key: data, request in flight | fetch, refetch, invalidate, write | an invalidation and a fetch overtake each other | a page at rest shows what the server keeps |
| Web: paged lists (feed, activity, followers, following, games, history, a game's journeys, notifications, the moderators' reports and users) | rows shown, cursor, later page in flight | first page, Load more, refetch, change of profile or filter | rows change between two pages; a late page is appended to another list; an equal first page is not copied again | in order, complete at the end, caught up |
| Web: journey page (`pages/JourneyDetail.tsx`) | journey, comments, follow buttons, comment typed, editor | post and delete comments, follow, edit, delete | a refetch overtakes an answer; limits of the API | nothing typed is lost; a comment shown twice goes away |
| Web: backlog page (`pages/Backlog.tsx`, `components/RollModal.tsx`) | list, drag, filter, roll | add, remove, reorder, roll | the order is shown before the server has it | shows the server's order again |
| Web: settings (`pages/Settings.tsx`) | preferences, exclusions, inclusions, hints, account | switch, add, edit, remove, sign out, delete account | one switch sends both preferences | shows what was saved |
| Web: journeys page (`pages/Journeys.tsx`, `components/JourneyForm.tsx`) | cards, add form, hint, count | confirm, discard, exclude, add | lost answers, forms closed and opened again | no card for a journey that is gone; one form adds once |
| Web: notifications (`pages/Notifications.tsx`, `components/layout/Sidebar.tsx`) | list, dot, unread marks | open, mark read, filter | marking races the fetches | what was read shows as read |
| Web: moderators (`pages/Admin.tsx`) | tabs, dialog in the address | suspend, reset, delete | an answer after the dialog or page is gone | the moderator sees what was done |
| Web: profile (`pages/PlayerProfile.tsx`, `components/EditProfileModal.tsx`, `AvatarEditor.tsx`, `ReportModal.tsx`) | profile, dialogs | edit, avatar, follow, report | two tabs edit; an update is saved by halves | an edit keeps the fields it did not touch |
| Web: sign-in (`pages/AgentAuth.tsx`, `AuthComplete.tsx`, `Home.tsx`) | cookies, `auth_next` per tab | sign in from the web or for the agent | tabs share a cookie | lands where it was asked for |
| Web: exploring, texts, theme, language | local | display | - | - |

The agent and the web app are both clients of the API and never of each other.
Inside the agent three loops share two SQLite tables, every statement its own
transaction. Inside the API every request is a goroutine; only
`UpsertPendingJourney` and a few others open a transaction.

The full list of hazards, each with its line and the properties that cover it,
is in `PROJECT.json`.

## 2. Modules

### SessionDelivery: what the agent promises

A session is `none`, `open` (noticed), `waiting` (in the outbox), `delivered`
or `dropped` (too short). It moves only forward, and what waits is delivered.

### AgentOutbox: the agent's recording pipeline

| Model | Code |
|---|---|
| `sessions`, `queue` | the SQLite tables, with their keys: `pid`, and `(exe_name, started_at)` |
| `seen` | `ProcessWatcher._seen` |
| `toCheck`, `alive`, `moving` | what `SessionMonitor.Check` has still to visit, the row between `IsProcessAlive` and `UpdateHeartbeat`, the row between `Enqueue` and `Delete` |
| `batch`, `call`, `limited` | what `DrainAsync` has still to visit, its POST in flight, `_rateLimitedUntil` |
| `late` | requests the client gave up on and the API may still run |
| `processed`, `begun`, `dropped` | history, read by properties only (`processed` counts the API's handling of each session) |
| `misreads`, `misread`, `overshot` | history: how often a running process was taken for dead, whose row that cost until it is polled anew, and the sessions stamped after their process exited |
| `Poll` | `ProcessWatcher.Poll` |
| `StartCheck`, `FoundAlive`, `Heartbeat`, `Enqueue`, `Discard`, `DeleteSession` | `SessionMonitor.Check`; `TakenForDead` is `IsProcessAlive` answering false |
| `StartDrain`, `Skip`, `Post`, `Reply...` | `QueueProcessor.DrainAsync` |
| `SignOut`, `Crash`, `Quit`, `Restart` | the life of the process; a sign-out or 401 ends the three loops of this module for good (their token sources are cancelled and never replaced), until the program is started again |
| `Spawn`, `Exit`, `Tick`, `Handle`, `HandleLate` | the computer and the API around it |

Abstractions. A poll is one action, though it inserts one row at a time: it
may see any subset of the live processes, so a poll interleaved with the
monitor is two polls here. It also takes the list of processes and writes the
rows at once: a process that exits in between leaves a row of no length, which
the monitor discards. The clock only moves forward.

The monitor's test and its stamp are two steps, as in the code
(`SessionMonitor.cs:64` and `:66`), and the process may exit between them: its
session then is recorded as longer than it was. The test may also fail for a
process that runs (`catch { return false; }`, line 93), `MaxMisreads` times: its
row is moved or discarded while its pid stays in `_seen`, so that the game has no
row until a poll misses it and a later one finds it. Both are in every run but
`outbox_pidreuse`, whose trace is to need neither. `RecordedTimeWasPlayed`,
`RepeatsNeedAFailure` and `SeenIsRecorded` except exactly the sessions and
processes they befall (`overshot`, `misread`). `RepeatsNeedAFailure` has to,
because a game that exits and comes back within its first second, stamped for the
first process only when `MinSession` has passed, gives two rows of one key that are
both worth sending.

Every 4xx and 5xx answer and every broken connection is `TransientFailure` in the
code and `ReplyTransient` here. Attempts stop at the length of `Backoff`, beyond
which the code's `Math.Min` makes no difference. Two processes of one game recorded
in the same second share the outbox's key, and the time of the one found dead second
is ignored (`EventQueue.cs:33`, although `SessionMonitor.cs:12` says dead ones are
moved); the model does so when `SameExe` allows it, which `SessionsAreNotLost` and
the refinement are proved with and the runs leave out. The pauses between iterations
are left out: a loop may run again at once, or late. There is one set of loops:
`AgentAuth` has the cases in which there are two, or none any more.

### AgentAuth: signing in and staying signed in

| Model | Code |
|---|---|
| `store`, `client`, `isAuth` | the credential store, the HTTP client's header, `IsAuthenticated` |
| `startup`, `refresh`, `drain` | what `InitialiseAsync`, `RefreshLoopAsync` and `DrainAsync` await, with the token they sent |
| `changed[th]` | a thread in `SetAuthenticated`, waiting for the tray (`ContextMenuStrip.Invoke`) |
| `tray`, `loops`, `cancelled`, `timer` | `_authenticated`; the sets of worker loops that run; their token sources, which nothing replaces; whether the notification monitor's timer runs, which has no token source |
| `revoked` | tokens of deleted accounts |
| `lost`, `overtaken`, `crossed` | history: days of delay by failed checks; an answer was applied to other credentials than those it was asked for; `IsAuthenticated` changed last while the tray had yet to hear of another change |
| `NoToken`, `CheckToken`, `Startup...` | `InitialiseAsync`, split at its await |
| `RefreshSkipped`, `RefreshAsks`, `Refresh...` | `RefreshLoopAsync`, likewise |
| `OnYurnikUrl`, `Drain...`, `SignOut`, `Quit` | the listener's callback, the 401 of the queue processor, the menu |
| `OnAuthStateChanged` | the tray's handler, with `StartWorkers` and `StopWorkers` |
| `NextDay` | time, in days; every delay the model keeps is of days |

Abstractions. What a thread does between two awaits is one step, so two threads do
not interleave inside `SaveToken` and `SetToken`. The announcements reach the tray
in any order; the queue processor's first round runs on the tray's own thread, which
is one of those orders. The session monitor, the queue processor and the process
watcher start and stop together and count as one set of loops. The notification
monitor starts and stops with them as `timer`; what its checks do, the one that
`Start` runs at once included, is in `NotificationMonitor`, and they change no
credentials, not even on a 401. `SyncSettingsAsync` follows a good answer and
changes no credentials. A token is the sign-in it stems from and its age.

The model keeps what the code does where that may surprise: a check that fails at
start-up, or is rate limited, forgets the token like a rejection, although the
comment at `YurnikClient.cs:22` speaks of a retry without clearing; a database error
answers 401 to a good token (`API/auth/authenticate.go:40`) and signs the agent out;
a server error counts as a valid heartbeat, so that two of them let a token expire;
after the first sign-out or 401 the three loops never run again until the program is
restarted, because their token sources stay cancelled, while the notification timer
does run again after the next sign-in; when announcements of two threads reach the
tray in the wrong order, that timer goes on for nobody or stands still for who is
signed in (`crossed`, which `LoopsNeedSignIn` excludes for the timer and not for the
loops); a second callback, or one during the start-up check, starts a second set of
loops; an answer that comes after a sign-out stores a token again, and a 401 for an
old token deletes a new one. The last two are `overtaken`, which `CredentialsAgree`
excludes.

### VelocityLimiter

`entries` is the map; `Refuse` and `Grant` are the outcomes of `Allow` (the
mutex makes it one step) and `Cleanup` a sweep of the background loop.
`granted` and `told` are history: the last grant, and the end of the wait last
announced. `PowerOfTwo` is Go's shift for 0 to 16.

### PendingJourneys: the API's half, for one user

| Model | Code |
|---|---|
| `pending`, `journeys`, `excluded`, `hints` | the tables; `parts`, `row` are history: which sessions' time a row or journey holds |
| `create[c]` | a `createPending` request between two statements |
| `Receive`, `LookUpHint`, `Upsert`, `AutoInsert`, `AutoDuplicate`, `AutoDelete` | `createPending`, statement by statement; `...Fails` are its error paths |
| `UpsertPendingJourney` | the transaction of `API/db/journeys.go` |
| `Confirm...`, `Discard`, `Exclude...`, `DeleteJourney` | the user's requests |
| `Discard` | also `evictData` of the maintenance job |
| `Crash` | the server stops; requests in flight end |

Abstractions. Times are small numbers and the merge window is a constant. The
user's override of a confirmed duration, the log text and the game chosen do
not matter to the properties. A confirmed journey's `started_at` is the time of
confirmation less the duration, which no posted session shares (`Unknown`).
`UpsertPendingJourney` is one step: its two `SELECT ... FOR UPDATE` lock the row
it extends, a waiting transaction looks again at the row as it has become, and
two inserts of one start collide on the unique index (the loser fails, which is
`UpsertFails`). `VelocityAllows` takes from the velocity limiter that confirmations of one user
are 20 s apart, and assumes that one takes less than that: a slower one, which a
database under load could make, is outside `ConfirmedOnce`. One executable has
one path and one game. A session merged into an earlier row has no row of its own
start any more, so a repeated post of it may add a second row, whatever
`migrations/0001_init.up.sql:99` says of duplicates; the model keeps that, and no
property excludes it.

### Notifications: telling players what happened

| Model | Code |
|---|---|
| `posted`, `standing` | the comments on one journey: all ever made (history), those not deleted |
| `rows` | tables `notifications`, `notification_actors`; `until` is `batch_until`, `read` is `seen_at`, `looked` is history |
| `slots[s]` | a `postComment` or `followPlayer` request past its insertion: what it has to deliver (`todo`), what it works on (`cur`, `row`) |
| `Post`, `Meta`, `ListPrior` | `postComment`; `Follow` is `followPlayer` |
| `Look`, `Insert`, `Refresh`, `AddActor` | the statements of the four `Upsert...Notification`, which differ in the type only |
| `DeliveryFails`, `ListingFails`, `Abandon` | a failed statement (logged), a client that hangs up |
| `MarkRead`, `DeleteComment` | the other requests |
| `Evict`, `RefreshRelease`, `Announce`, `JobFails` | the maintenance job, for one game |
| `told`, `announced` | history: what was delivered, and whether the panel was opened since |

Abstractions. There is one journey and one game, so a type stands for its
subject. A request lives through one step of the clock at most, which is hours
against a request's seconds. A deleted journey or account, and the record of
activity for the feed, are left out. Which mentions of a comment could be
resolved and stored is left open (any subset).

The model keeps what the code does against its documents. Requests that race
leave two open rows for one player and subject (`DECISIONS.md:125` speaks of a
single row; migration 0027 dropped the unique indexes), which `SecondBatchesRaced` tells apart
from every other cause. The notifications of a comment are best effort after its
own statement, and `DESIGN.md:163` says they share a transaction: a failure or a
client that hangs up loses them. "Prior" commenters (`API/db/journeys.go:707`)
are those who have commented by the time the list is read, later ones included.

### NotificationMonitor: the agent's half

It extends `Notifications`, and its behaviours are those of both. `checks[c]` is
a `CheckForNotificationsAsync` between two of its awaits; `Begin` is its start,
by `MonitorStart` or by the timer (`Elapsed`), `Prefer` the player's switch in
the settings. `toasts`, `cut` and `crowd` are history: how often a row was
shown, how often a check ended between the two, how many ran at once.

Abstractions. The rows of a page are fetched and compared with
`notified_notifications` in one step, and shown in any order; the code compares
after the answer has come, which can only leave out more. Preferences are one
switch.

The model keeps that a row, once noted, is never shown again, though new
activity makes it unread; that `Stop` does not end a check; and that a check
looks at the first page only.

### The web app: WebClient, WebPages and a module per page

`WebClient` is what the pages share. A query is the data last fetched, where its
request is (`none`, `asked`, `served`) and the answer on its way; a mutation is a
record in a set, at `sent` until the server has worked on it and then at `done`.
Every request may fail before or after the server has acted. `Invalidated` is
react-query's `invalidateQueries`, which starts a request in flight again unless it
is the query's first; `Refetched` is a timer, a focus or a mount, which joins a
request in flight.

| Module | Page | State beyond its queries and mutations |
|---|---|---|
| `WebLists` | the ten lists that keep a first page and a Load more button of their own (the comments are in `JourneyPage`, the follower lists of a notification in `NotificationsPage`), as records that say where they differ: what the service does with a refusal, what the cursor is, whether its rows have a Date, whether later pages are kept on a refetch, whether it polls, whether the profile or filter may change under it, where rows are inserted | rows shown, cursor, `more` |
| `JourneyPage` | `JourneyDetail.tsx` | comment list and its later pages, text typed, cooldown, the rows' Follow buttons |
| `BacklogPage` | `Backlog.tsx`, `RollModal.tsx` | disabled row, filter, roll dialog, the crash of rendering |
| `SettingsPage` | `Settings.tsx` | rows being confirmed or edited, the account's two confirmations |
| `InboxPage` | `Journeys.tsx`, the count of the side bar | each card's form, the add form, waits, hint, prompt |
| `NotificationsPage` | `Notifications.tsx`, the dot of the side bar | unread marks shown, filter, marks in flight |
| `AdminPage` | `Admin.tsx` | tab, dialog (opened through the address), whether another page is shown |
| `ProfilePage` | `PlayerProfile.tsx` and its dialogs | the dialogs; the fields of the profile on the server |
| `SignInPage` | `AgentAuth.tsx`, `AuthComplete.tsx`, `Home.tsx`, and the API's handler and state store | tabs, the shared cookie, each tab's `auth_next` |

`WebPages` mounts one of them per behaviour (`page`), with the choice of who is
looking (`role`, `signed`, `admin`, `pRole`), of the section of the settings, of
the screen with a list, and of what is cached. Pages share nothing but the
cache, so several at once add nothing but where a page writes what another has
cached; that is in `AdminPage` and `NotificationsPage`, whose queries may be
filled or fresh when the page is opened.

Abstractions. The rows' texts are numbers; a journey or a profile is a version
or a record of versions. Statements between two awaits are one step. Of the
settings one section is used per behaviour, of the journeys page either the
count or the history is followed, and of a player's page one of its dialogs,
because they share nothing else. A 404 for a deleted journey is not told apart.
The query behind a Follow button starts with its page. An update refused by the
limiter is a failed one. The dialog to report is on the profile page only; in
`AdminPage` the users' tab has no content, its list is `UsersScreen` of `WebLists`.

A screen copies its first page in an effect on the query's data, and react-query
keeps the old data when the new is deeply equal to it. Rows that carry a `Date`
never are; those of the tabs of followers and followed are plain, so that there a
refetch that brings nothing new leaves the shown list, and what is wrong with
it, as it is (`IsOld`, `Copied`).

Some races of the pages are real, are kept in the model and are excluded by
name (a history variable) in the property they break:

- An invalidation that meets a query's first fetch does not start it again: the
  page keeps the older answer until the next fetch (`...Missed`, `jOverlap`,
  `sOverlap`, `bRaced`, `aExcused`).
- A row's Follow button clicked again while its request waits (`jOverlap`).
- What is typed while a comment is posted is erased on success
  (`JourneyDetail.tsx:272`); `CommentsAreKept` is about what was typed before.
- A reorder that overlaps another request, or another tab, may be undone on
  screen (`bRaced`); a list that shrinks under the roll dialog makes
  `RollModal.tsx:40` read past its end and rendering fails (`bCrashed`).
- Each switch of the settings sends both preferences as cached
  (`Settings.tsx:238`): the second of two quick clicks takes the first back
  (`sOverlap`).
- A late success closes whatever add form is open, and a form kept after a lost
  answer adds a second time when sent again (`Journeys.tsx:64`); `FormsAddOnce`
  is about behaviours without a failed request.
- The address tells the moderators' page what to invalidate: after a cancelled
  dialog it is the wrong list (`aExcused`).
- The profile dialog compares with the player as known when saving
  (`EditProfileModal.tsx:25`), not as it was opened (`pOvertaken`); the server
  saves the bio before the name.
- A later page is appended to whatever list is there when it arrives, and the
  feed keeps its later pages when the first is fetched again, so rows can be
  shown twice or out of order (`torn`). It lasts until a first page is copied
  that is not the old one.
- A tab's `auth_next` outlives a sign-in for the agent that was denied or left,
  and sends the tab's next sign-in there (`left`).

Names starting with `MC` instantiate a module for TLC. Operators marked
*Mutant* are variants of the definition that follows them with a plausible
mistake; nothing uses them but the test that each property can fail.

## 3. Runs

| Run | Bounds | Shows |
|---|---|---|
| `outbox_safety` | two processes, two games, two failed requests, one stop, one failed query, time 2 | `NoSessionLost`, `RepeatsNeedAFailure`, `RecordedTimeWasPlayed`, `SeenIsRecorded` |
| `outbox_delivery` | one process of one game, taken for dead once and then recorded again; one failure, one stop, time 3 | `DeadSessionsLeave`, and that the pipeline implements `SessionDelivery!Spec` |
| `outbox_pidreuse` | one pid, two processes | fails: `_seen` hides the second |
| `agent_auth` | tokens good for 7 days, renewed after 1, checked every 3; two sign-ins, two faults, two stops | `TokenIsFresh`, `CredentialsAgree`, `LoopsNeedSignIn`, `RejectionIsNoticed` |
| `web_pages` | all pages: two or three of everything, three clicks, one fault; lists of five positions in pages of two, one change | the properties of the pages, below |
| `web_skips` | the lists alone | fails: a cursor skips a row |
| `velocity` | two users, intervals 2, cap 6, eviction after 3, time 12 | all five properties |
| `pending` | three sessions, two posts at once, three posts, three clicks, two journeys, one fault | `RowsAreOneSitting`, `ConfirmedOnce`, `LoneSessionsStay` |
| `pending_repeat` | two sessions of one sitting | fails: a repeated post cuts merged time off |
| `pending_held` | the same, one hint | fails: auto-confirm deletes an earlier session |
| `notifications` | two requests at once, a window of 1 and two steps of the clock; or one request beside three jobs, two release dates, a retention of 3 against 1 day around a release, time 6; one failure | `SecondBatchesRaced`, `BatchesSeal`, `ToldIsKept`, `NewsIsUnread`, `ReleaseToldOnce` |
| `notif_monitor` | two checks at once, pages of two; two requests one after the other, or one and a failure | `ToastsAreExcused`, `UnreadIsShown` |

`web_pages` checks `PagesTypeOK` (a disabled button has its request in flight;
what is open is open on something shown) and

- lists: `ListsDescend`, `CompleteAtEnd`, `FeedCatchesUp`;
- `PagesShowSaved`: at rest a page shows what the server keeps, in a part per
  page (`JourneyShowsSaved`, `BacklogShowsOrder`, `SettingsShowSaved`,
  `InboxShowsSaved`, `NotificationsShowRead`, `AdminSeesItsActs`,
  `ProfileShowsSaved`), each with a mutant of its own;
- journey page: `CommentsAreKept`, `CommentsHeal`;
- `FormsAddOnce`, `EditsKeepOthers`: what a form sends is saved once and over
  nothing else;
- `SignInReturns`: a sign-in lands where it was asked for.

Why the bounds are enough. In the outbox, two processes make every pair of rows
in the monitor, the outbox and the batch; `PeekLimit` 1 makes an entry stand
behind another; a session may be long or short (`MinSession` 1), entries back off
(`Backoff` 1) and time goes on past it. The run for safety has two processes and
games, of which no step tells one from another (`SYMMETRY`), and games run until 1;
the run for progress has one of each and no symmetry, and games run until 2, so that
one process has two sessions, the second of which waits behind the first. One
failed query falls on any test of any row. Two failures and a
crash make the longest chain of repetitions the bound in `RepeatsNeedAFailure`
allows for. In the limiter, penalties take the values 2, 4 and the cap 6, and
the idle time is between the interval and the cap, so that the cleanup meets
both running and expired cooldowns. In `AgentAuth` the durations are the code's
own, in days; two sign-ins and two stops are enough for every thread to be
overtaken by every other, before and after a restart, and two faults are the
number that lets a token expire. On a page, two requests that overlap and one
fault make every order of sending, serving, answering and losing them; three
clicks leave one for the user to do something else meanwhile. A list of four
rows in pages of two has a first, a later and a last page, and one insertion or
deletion may fall anywhere between them. Pages whose state is large start with
one click used (`LargePage`). The pages come to rest when the clicks are used
up, and are left, so their run does not check for deadlock. In the API, one fault falls on any
statement, and two of the three sessions can be merged.

A run of the notifications spends its bounds in one of two ways (`Starts`): two requests that
tell the same player of the same thing make every order of their statements, and
two steps with a window of 1 let a row be found open, refreshed after it has
closed and followed by another; or one request meets the job, whose retention of
3 is just over twice the days around a release, which is what `ReleaseToldOnce`
needs, and two dates let the release move away and back. In the monitor the clock
stands still, for it reads no times but to order the page; two checks make an
overlap, a failure cuts one off, an exit all of them, and a second request is new activity on
a row already shown.

The failing runs are disagreements between a comment or document and the
code; `PROJECT.json` quotes the lines. Their configurations differ from the
passing ones in one constant (`ReusePids`), or check the stronger
property whose weaker form passes (`LoneSessionsStay` is `PendingIsHeld` for
the sessions no other can be merged with; `CompleteAtEnd` is `CursorAdvances`
for the endpoints whose cursor is the last row they sent).

### Fairness

`AgentOutbox!Fairness` asks for weak fairness of the monitor's steps, the drain
loop's steps and the API's answers (loops in the code that never end while the
agent works, and a server that runs; the loops catch nothing around an iteration, so an
exception of SQLite would end one until the agent is started again: that it does
not is an assumption), of `Quit \/ Restart` (the user starts a
stopped agent again: an assumption about people, without which nothing is
delivered), and of the clock, with games that end by `PlayUntil`. Polls owe
nothing, failures and crashes neither, and they are bounded; without a bound a
network that always fails delivers nothing.

`AgentAuth!Fairness`: weak fairness of the start-up check, the refresh loop, the
answers to the queue processor and the tray's handler (code that runs and
requests that end, with an answer or the client's timeout), and strong fairness
of `NextDay`, which a request may postpone again and again but not for ever:
days pass. Sign-ins, sign-outs, faults, the player's restarts and the queue
processor's own requests owe nothing.

`WebPages!Spec`: weak fairness of `FirstAnswered` (requests for comments and
for lists are answered, with a page or a failure) and of `Polled` (the timers of
the comments and of the feed, which react-query runs while the tab is shown).
`CommentsHeal` and `FeedCatchesUp` rest on these alone; users owe nothing.

`NotificationMonitor!MonitorFairness`: weak fairness of `Elapsed` (the timer fires
every hour as long as it runs) and of a check's steps (the thread pool runs it,
and the HTTP client's calls end). `Start`, failures, exits and the server's
requests owe nothing; failures are bounded, since a server that always fails
shows nothing.

`VelocityLimiter`, `PendingJourneys` and `Notifications` state safety only.

## 4. Proofs

`AgentOutboxProofs`: `TypeCorrect` and `SessionsAreNotLost`, for any finite or
infinite sets of processes and games, any waits and bounds, with or without pid
reuse and several processes per game. `NoSessionLost` is not inductive: the
monitor acts on a snapshot, the drain loop on a batch, and a request on a copy
of an entry. `IndInv` adds what ties those to the tables. `PidIsKey` and
`SnapshotHeld`: the rows the monitor holds are, but for the heartbeat, still
the rows of their pids, so that deleting by pid deletes what was found dead, and it
never holds a row to stamp beside one to delete.
`MovingSettled`: by then the row is enqueued, handled or dropped. `IdIsKey`: an
outbox id names one session for ever, so that deleting by id deletes what was
sent. `CallDone`: an answered request was handled. `IndInvInit` and
`IndInvStep` prove it, one step per action. It was also checked by TLC with
both kinds of reuse allowed. The only assumption is `ConstantsAssumption`, the
types of the constants.

The refinement builds on `IndInv`. `PipelineImplementsDelivery` is the
safety half of the refinement, under the same assumption: with `SentIsKnown`
(what the queue processor holds, or gave up on, waits in the outbox or was acted
on) every step of the pipeline is a `Begin`, `Close`, `Drop` or `Deliver`, or leaves
every status as it is. `WaitingTimeWasPlayed` and `SeenGamesAreRecorded` assume that
pids are not reused, without which they fail (`outbox_pidreuse`); `Played` ties
each row, also a copy in the monitor's snapshot, to the process it was written
for: one that started no later and, if it has exited, not before the last stamp. Of a
row found alive and not yet stamped it says more (`RowsWerePlayed`): its process still
runs, or its key is `overshot` already, so that the stamp to come is either true or
excepted. `TimesArePast` adds that no recorded time is ahead of the clock. `SeenHaveRows`
leaves out the processes in `misread`, and those only.

`RepeatsArePaidFor` holds when besides a game runs once at a time, for the sessions
that are not `overshot`.
`RepeatsNeedAFailure` bounds what has happened; its invariant `Paid` bounds that
together with all that may still happen. A row not yet moved (`RowToSend`), an
entry that has no answer (`EntryToSend`) and a request given up on are each one
more time the API may act; a step turns one into another, a failed request makes
one and a stop at most two (the answer in flight and the row half moved), which a
sign-out keeps in `Reserve` until its process ends. It needs that one key has no
second row worth sending (`OneLongRow`: a process that exited in the second it was
first seen is too short), that a new row's key is new (`KnownAreOld`), and one entry
per key (`OneEntry`). TLC had checked the parts as invariants.

`VelocityLimiterProofs`: the code decides from what the map holds, the
properties speak of what was granted and announced. `LimiterInvariant` says
that an entry is exactly as strict as that history (its cooldown is the
announced one, unless that is over, and either its last request was granted or
the cooldown covers the interval), and that a user without an entry has waited
out both the interval and the cooldown. The last part needs the idle time to be
at least the interval (`LimiterAssumption`); in the code it is one hour against
20 s and 20 min. `LimiterTypes`, `SpacingHolds`, `CooldownHolds` and
`PatienceIsServed` follow. `EscalationHolds` needs `Escalated` besides, a running
cooldown is the penalty of the violations counted, and that doublings stop at
the cap and not before (`PenaltyDoubles`: sixteen of them reach it).

`AgentAuthProofs`: `AuthTypes`, `TokenStaysFresh`, `CredentialsStayTogether` and
`WorkersNeedSignIn`, for all durations, waits and bounds with
`AuthAssumption` (no wait after a failed check is longer than the interval).
None of the three properties is inductive. `Turns` says which of the start-up
check and the refresh loop is at work: the check is over before the loop first
wakes. `Fresh` adds the request in flight to `TokenIsFresh`: the client's token
is the one that was sent, or was issued today; and the token's age and the days
until the loop wakes are bounded together. `Agree` is `CredentialsAgree` between
any two steps: at the start the client has no token yet, and while the stored
one is checked nobody is signed in. `Loops` says that when nobody is signed in
and no stop has come yet, a stop is announced or no loop was ever started; the
two announcements may be told in either order because a cancelled token source
is never replaced. `Told` is for the timer: unless announcements crossed, at most one
thread has something to tell, it is what `IsAuthenticated` is, and if none has, the
timer runs for who is signed in. `TypesKept`, `ToldKept`, `TurnsKept`, `FreshKept`, `AgreeKept` and
`LoopsKept` prove the steps, one action at a time, and TLC had checked the last four
as invariants.

`PendingJourneysProofs`: all four properties of the passing run, for any
sessions, requests and bounds with `PendingAssumption` (sessions of one game do
not overlap). `Types` is `TypeOK` with what journeys and requests in flight are:
`PendingTypes`. With `RowShape` (an id names one row, and a row holds sessions of
one executable) `RowsAreOneSitting` is inductive: the transaction either extends
the row that starts with the session, whose only session of that start is this
one, or one that ends within the window, or adds a row (`UpsertDoes`,
`RowsStayOneSitting`). `LoneSessionsStay` needs what requests carry between two
statements, because a row is deleted by an id read earlier. `LoneRows`: a session
with no neighbour has its row to itself. `Flying`: a request about to delete a row
has placed each lone session of it (`Spare`), and one about to insert a journey
has a copy with them, whatever was merged, discarded or deleted since.
`LoneKept` then is the property (`LoneSessionsAreKept`). `ConfirmedOnce` counts: as
long as a row may yet be confirmed (`Confirmable`: it is there, or its journey is
about to be inserted) it has at most as many journeys as there were faults, and
one more for ever after (`Counted`, `Once`). It rests on `VelocityAllows`: with two
confirmations at once the count is wrong (`ConfirmedAtMostOnce`).

`NotificationsProofs`: all six properties of the run, for any players, requests,
windows, dates and bounds with `NotificationsAssumption` (the window is shorter than
the retention, which is more than twice the days around a release; in the code 24
hours, 60 days and 7 days) and `NoneAssumption`. `KnowsRow`: what a request holds is
an id that was given out. `OverlapsAreRaces` needs `Apart`: while a request that
found no open row is about to insert one, every row of its key that is still open
came after it looked. `Young`: a request was born within one step of the clock, so
that a row found open is refreshed before it is aged, and the eviction never takes a
row from under a request; `RowsCloseAfterADay` and `NewsIsKept` rest on it.
`UnseenIsUnread` needs that a request about to add an actor to a row has made it
unread, unless the panel was opened since. `ReleasesAreToldOnce` needs that an
announcement whose row is gone is more than the retention old.

Of the agent's monitor, on `MonitorSpec` and with `MonitorAssumption` (finitely many
checks at once), `MonitorTypes` and `ToastsRepeatOnlyExcused`. `ToastsAreExcused` is
not inductive: a check that has an id on its list will show it, whatever others note
meanwhile. `HeldExcused` counts these toasts to come with those made. `UnnotedExcused`:
as long as an id is not noted, each of its toasts was cut off or is about to be noted
by a check that runs (`Marking`); so a check that fetches it may put it on its list.
`Crowded` bounds the checks that run, and with them both counts, by the most that ever
overlapped.

`WebPagesProofs`: four properties of pages, on `WebPages!Spec`, each with an
invariant that only speaks of its page, so that the steps of the others are
stutters of it. `TabsRemember`: while a tab is signing in, its `auth_next` says
who asked; elsewhere it does not send it to the agent (`SignInsReturn`).
`Posting`: the comments sent are stored, in the box, or the text of the one post
in flight (`CommentsStay`). `Editing`: the fields not typed in the dialog are the
player's as it was fetched, and a request's patch holds typed fields only
(`EditsStayApart`). `Adding`: journeys added, adds in flight and the form that can
still be sent are together no more than the forms filled in
(`FormsAddNoMore`). The only assumption is `SignInAssumption`, that no asker is
called `None`.

`WebListsProofs`: `ListsFall` and `ListsAreComplete`, for every screen and for lists,
pages, changes and failures without a bound, from `ListsAssumption`. Neither is
inductive: a page is served for the rows of one moment and shown beside those of
another. A `Sheet` is a page whose rows fall and whose cursor is not above them;
`PagesAreSheets` says that cached and served pages are, `ShownFalls` that what is
shown is, and `MoreContinues` that a later page starts below the list it was asked
for, unless that list was replaced (`torn`). Whether an arriving page is copied
or equal to the old one (`Copied`), the list shown before stays in order or is replaced
by a sheet. `Covers` is for the end of the list:
what a sheet does not show of the rows that were there all along (`Lasting`) lies
below its cursor. `PageIs` derives
both from `PageOf`, by way of the ranks in `Descending` (`Ranks`, `DescendingIs`).

`WebSavedProofs`: `PagesWait` (`PagesTypeOK`) and `PagesSettle` (`PagesShowSaved`), with
the assumptions of the pages: that `None` is none of the data. The
invariant, `PagesInv`, is a part per page, which a step of another page leaves alone
(`OthersRest`), and `ListsInv`. `PagesShowSaved` is about pages at rest and each part
says what holds on the way there. A query is `Current` if at rest it has the
server's value and the answer under way is the server's value; the notifications,
the inbox and the profile, where less is promised, say `Fits`, with the set of
answers that would do. A
change may break it only on the server, and then its mutation is `done` and has its
invalidation still ahead (`Settling`): as long as none is, the query is current. The
invalidation makes it current again, because it restarts the request in flight, and
it does so because whoever sent the mutation was shown the data (`... # None`). What
a page excludes is the case in which this last step fails: an invalidation that
meets the first fetch. Beside this `JourneyFetched` follows the Follow button of a row,
`SwitchesWanted` the switches of the settings, `Reordering` the order shown before it is
stored, and `ActsExplained` what the moderators' page has still to invalidate.
`JourneyKeeps`, `BacklogKeeps`, `SettingsKeep`, `InboxKeeps`, `NotesKeep`, `AdminKeeps`,
`ProfileKeeps`, `SignInStates` and `ListsKeepWaiting` prove the steps, one action or kind
of action at a time, from lemmas about queries (`FetchingKeeps`, `InvalidatingAsks`)
and mutations (`WriteBegins`, `WriteIsServed`, `WriteIsOver`) that every page shares.
TLC agrees: `PagesInv` holds in every state of `web_pages`.

Every invariant and action property that a passing run checks is so stated by a
theorem. Only model-checked is liveness (`DeadSessionsLeave`, `RejectionIsNoticed`,
`CommentsHeal`, `FeedCatchesUp`, `UnreadIsShown`, and that of the refinement,
`Delivers`), which is out of the prover's reach.

## 5. Not modelled

- How executables are classified (`PeScanner`, the caches): pure functions of
  files and lists. The model lets a poll see any game.
- `AgentConfig.EventTtl`: no code reads it. The backoff of an outbox entry is
  measured from the end of its session, which makes it void for old sessions;
  the model keeps that rule.
- `API/middleware/ratelimit.go`: the token buckets are a library; the agent
  sees a 429 at any time.
- Export, sitemap, avatars, migrations, IGDB: listings, tools, external
  services.
- The agent's updates, dialogs and the texts of its toasts; the exclusion lists
  it synchronises.
- `RecordActivity`, and what deleting a journey or an account does to
  notifications (foreign keys of the schema).
- The DPoP keys and the signing of tokens; the web session's renewal by cookie.
- Of the web app: the statistics and tabs of a profile, the game page but its
  list, exploring and its search, `GameSelector`, `LimitedTextarea`, language,
  theme, legal pages: what they show is what was fetched, or state of one widget.

## 6. Plan

In this order:

1. The merge of the feed's sources as an operator, checked against a reference
   order, with `RecordActivity`.
2. The OAuth state and one-time codes beyond the browser's view; the backlog and
   handles under concurrent requests.
3. The pipeline composed: `AgentOutbox` posting to `PendingJourneys`.
