------------------------------ MODULE AgentAuth ------------------------------
(****************************************************************************)
(* How the agent signs in, stays signed in and starts and stops its workers  *)
(* (AuthManager.cs, TrayApp.cs).  Four threads change the credentials: the    *)
(* start-up check, the refresh loop, the listener for yurnik:// addresses     *)
(* and the queue processor; and the tray's menu does.  What a thread does     *)
(* between two awaits is one step.  A change of IsAuthenticated is announced  *)
(* to the tray by the thread that made it, which waits for the tray.         *)
(*                                                                          *)
(* Time is in days.  A request takes less than one (the client gives up after *)
(* 100 s), and a delay that is over ends before the day does.                *)
(****************************************************************************)
EXTENDS Integers, Sequences

CONSTANTS
    None,           \* no token, no request, no event
    Session,        \* how long a token is good for: 7 days
    RenewAge,       \* the age above which the API renews a token: 1 day
    Interval,       \* AuthRefreshInterval: 3 days
    RefreshBackoff, \* waits after failed checks: 2 hours at most
    MaxLogins, MaxFaults, MaxStops      \* bounds

(* A token, by the sign-in it stems from and the days since it was issued. *)
Token == [login : Nat, age : Nat]

ASSUME AuthAssumption ==
    /\ None \notin Token /\ None \notin BOOLEAN
    /\ Session \in Nat /\ RenewAge \in Nat /\ Interval \in Nat \ {0}
    /\ RefreshBackoff \in Seq(0..Interval) /\ Len(RefreshBackoff) > 0
    /\ MaxLogins \in Nat /\ MaxFaults \in Nat /\ MaxStops \in Nat

VARIABLES
    running,        \* the program runs
    store,          \* the token in the credential store, or None
    client,         \* the token the HTTP client sends, or None
    isAuth,         \* IsAuthenticated
    startup,        \* InitialiseAsync: "begin", "asked" or "ended", and the token it sent
    refresh,        \* the refresh loop: days until it wakes, failed checks, request
    drain,          \* the request a queue processor awaits, or None
    changed,        \* for each thread, the value it announces to the tray, or None
    tray,           \* TrayApp's _authenticated, and its menu
    loops,          \* sets of the three worker loops that run
    cancelled,      \* their token sources are cancelled
    timer,          \* NotificationMonitor's timer runs
    revoked,        \* tokens of this and earlier sign-ins are refused
    logins, faults, stops,              \* bounded counters
    crossed,        \* history: isAuth was set last while the tray had yet to hear
                    \* of another change
    lost,           \* history: days of delay by failed checks since the last good one
    overtaken       \* history: an answer was applied to other credentials than those
                    \* it was asked for, or the start-up check's to a sign-in
                    \* made meanwhile, and nobody signed in or out since

session  == <<store, client, isAuth>>
announced == <<changed, crossed>>
workers  == <<tray, loops, cancelled, timer>>
counters == <<revoked, logins, faults, stops>>
history  == <<lost, overtaken>>
vars == <<running, session, startup, refresh, drain, announced, workers, counters, history>>

StartupEnded == [at |-> "ended", token |-> None]

Thread == {"startup", "refresh", "pipe", "drain"}

Init ==
    /\ running = FALSE
    /\ store = None /\ client = None /\ isAuth = FALSE
    /\ startup = StartupEnded
    /\ refresh = [due |-> Interval, failures |-> 0, request |-> None]
    /\ drain = None
    /\ changed = [th \in Thread |-> None] /\ crossed = FALSE
    /\ tray = FALSE /\ loops = 0 /\ cancelled = FALSE /\ timer = FALSE
    /\ revoked = 0 /\ logins = 0 /\ faults = 0 /\ stops = 0
    /\ lost = 0 /\ overtaken = FALSE

(* A request with the token of the moment, and what the API says of it. *)
Request == [token |-> client]

Requests == [token : Token \cup {None}]

Accepts(token) == token # None /\ token.age <= Session /\ token.login > revoked

Renews(token) == Accepts(token) /\ token.age > RenewAge

Renewed(token) == [token EXCEPT !.age = 0]

Fault == faults < MaxFaults /\ faults' = faults + 1 /\ UNCHANGED <<revoked, logins, stops>>

(* Authenticate answers 401 to a token it does not accept, and to any token    *)
(* when it cannot read the user from the database.                           *)
Rejects(token) == (~Accepts(token) /\ UNCHANGED counters) \/ Fault

(* Mutant: the stored token is left for the next start. *)
ForgetClient == store' = store /\ client' = None

(* DeleteToken and ClearToken. *)
Forget == store' = None /\ client' = None

(* Mutant: the client goes on with the old token. *)
SaveOnly(token) == store' = token /\ client' = client

(* SaveToken and SetToken. *)
Save(token) == store' = token /\ client' = token

(* IsAuthenticated changes, maybe before the tray has heard of another change. *)
Cross == crossed' = (\E th \in Thread : changed[th] # None)

SetAuthenticated(th, value) ==
    /\ isAuth' = value
    /\ changed' = [changed EXCEPT ![th] = value]
    /\ Cross

(* An answer changes the credentials that are there by now. *)
Applied(request) == overtaken' = (overtaken \/ request.token # client)

(* That of the start-up check, also when it finds somebody signed in. *)
AppliedAtStart == overtaken' = (overtaken \/ isAuth \/ startup.token # client)

--------------------------------------------------------------------------------
(* Program.Main, and InitialiseAsync.                                        *)

Start ==
    /\ ~running
    /\ running' = TRUE
    /\ startup' = [at |-> "begin", token |-> None]
    /\ UNCHANGED <<session, refresh, drain, announced, workers, counters, history>>

NoToken ==
    /\ startup.at = "begin" /\ store = None
    /\ startup' = StartupEnded
    /\ UNCHANGED <<running, session, refresh, drain, announced, workers, counters, history>>

CheckToken ==
    /\ startup.at = "begin" /\ store # None
    /\ client' = store
    /\ startup' = [at |-> "asked", token |-> store]
    /\ UNCHANGED <<running, store, isAuth, refresh, drain, announced, workers, counters, history>>

Checking == startup.at = "asked"

StartupRenewed ==
    /\ Checking /\ Renews(startup.token)
    /\ Save(Renewed(startup.token))
    /\ SetAuthenticated("startup", TRUE)
    /\ startup' = StartupEnded
    /\ lost' = 0 /\ AppliedAtStart
    /\ UNCHANGED <<running, refresh, drain, workers, counters>>

StartupValid ==
    /\ Checking /\ Accepts(startup.token) /\ ~Renews(startup.token)
    /\ SetAuthenticated("startup", TRUE)
    /\ startup' = StartupEnded
    /\ lost' = 0 /\ AppliedAtStart
    /\ UNCHANGED <<running, store, client, refresh, drain, workers, counters>>

(* HeartbeatAsync takes any answer but 200, 401 and 429 for a 204. *)
StartupServerError ==
    /\ Checking /\ Fault
    /\ SetAuthenticated("startup", TRUE)
    /\ startup' = StartupEnded
    /\ lost' = Session + 1 /\ AppliedAtStart
    /\ UNCHANGED <<running, store, client, refresh, drain, workers>>

(* Refused; or not answered, or rate limited, which is taken for the same. *)
StartupRejected ==
    /\ Checking
    /\ Rejects(startup.token)
    /\ Forget
    /\ startup' = StartupEnded
    /\ AppliedAtStart
    /\ UNCHANGED <<running, isAuth, refresh, drain, announced, workers, lost>>

--------------------------------------------------------------------------------
(* RefreshLoopAsync.                                                         *)

Awake == running /\ refresh.due = 0 /\ refresh.request = None /\ changed["refresh"] = None

RefreshSkipped ==
    /\ Awake /\ ~isAuth
    /\ refresh' = [refresh EXCEPT !.due = Interval]
    /\ UNCHANGED <<running, session, startup, drain, announced, workers, counters, history>>

RefreshAsks ==
    /\ Awake /\ isAuth
    /\ refresh' = [refresh EXCEPT !.request = Request]
    /\ UNCHANGED <<running, session, startup, drain, announced, workers, counters, history>>

(* The loop's delay after a check, and the failures counted. *)
WakesIn(days, failures) ==
    refresh' = [due |-> days, failures |-> failures, request |-> None]

RefreshRenewed ==
    /\ refresh.request # None /\ Renews(refresh.request.token)
    /\ Save(Renewed(refresh.request.token))
    /\ WakesIn(Interval, 0)
    /\ lost' = 0 /\ Applied(refresh.request)
    /\ UNCHANGED <<running, isAuth, startup, drain, announced, workers, counters>>

RefreshValid ==
    /\ refresh.request # None
    /\ Accepts(refresh.request.token) /\ ~Renews(refresh.request.token)
    /\ WakesIn(Interval, 0)
    /\ lost' = 0
    /\ UNCHANGED <<running, session, startup, drain, announced, workers, counters, overtaken>>

(* As at start-up, no failure for HeartbeatAsync. *)
RefreshServerError ==
    /\ refresh.request # None /\ Fault
    /\ WakesIn(Interval, 0)
    /\ lost' = lost + Interval
    /\ UNCHANGED <<running, session, startup, drain, announced, workers, overtaken>>

(* Mutant: the tray is not told. *)
RefreshRejectedSilently ==
    /\ refresh.request # None /\ Rejects(refresh.request.token)
    /\ Forget
    /\ WakesIn(Interval, 0)
    /\ Applied(refresh.request)
    /\ UNCHANGED <<running, isAuth, startup, drain, announced, workers, lost>>

RefreshRejected ==
    /\ refresh.request # None /\ Rejects(refresh.request.token)
    /\ Forget
    /\ SetAuthenticated("refresh", FALSE)
    /\ WakesIn(Interval, 0)
    /\ Applied(refresh.request)
    /\ UNCHANGED <<running, startup, drain, workers, lost>>

Wait(failures) ==
    RefreshBackoff[IF failures < Len(RefreshBackoff) THEN failures + 1 ELSE Len(RefreshBackoff)]

RefreshFails ==
    /\ refresh.request # None /\ Fault
    /\ WakesIn(Wait(refresh.failures), refresh.failures + 1)
    /\ lost' = lost + Wait(refresh.failures)
    /\ UNCHANGED <<running, session, startup, drain, announced, workers, overtaken>>

--------------------------------------------------------------------------------
(* The listener, the queue processor, the menu.                              *)

(* OnYurnikUrl: the address arrives whenever the browser's page opens it, also *)
(* while the agent is signed in or starting.                                 *)
OnYurnikUrl ==
    /\ running /\ changed["pipe"] = None /\ logins < MaxLogins
    /\ logins' = logins + 1
    /\ Save([login |-> logins + 1, age |-> 0])
    /\ SetAuthenticated("pipe", TRUE)
    /\ lost' = 0 /\ overtaken' = FALSE
    /\ UNCHANGED <<running, startup, refresh, drain, workers, revoked, faults, stops>>

DrainPosts ==
    /\ running /\ loops > 0 /\ isAuth /\ drain = None /\ changed["drain"] = None
    /\ drain' = Request
    /\ UNCHANGED <<running, session, startup, refresh, announced, workers, counters, history>>

DrainAnswered ==
    /\ drain # None
    /\ drain' = None
    /\ UNCHANGED <<running, session, startup, refresh, announced, workers, counters, history>>

(* OnUnauthorized, whichever token was refused. *)
DrainRejected ==
    /\ drain # None /\ Rejects(drain.token)
    /\ drain' = None
    /\ Forget
    /\ SetAuthenticated("drain", FALSE)
    /\ Applied(drain)
    /\ UNCHANGED <<running, startup, refresh, workers, lost>>

(* Mutant: new token sources for each start. *)
StartWorkersAgain ==
    /\ loops' = loops + 1
    /\ cancelled' = FALSE
    /\ timer' = TRUE

(* A loop started with a cancelled token ends at once.  The timer has no token *)
(* and runs again (what its checks do is in NotificationMonitor; they leave    *)
(* the credentials alone, also when they are refused).                        *)
StartWorkers ==
    /\ loops' = IF cancelled THEN loops ELSE loops + 1
    /\ timer' = TRUE
    /\ UNCHANGED cancelled

(* Mutant: only the set of loops started last is stopped. *)
StopLast ==
    /\ loops' = IF loops = 0 THEN 0 ELSE loops - 1
    /\ cancelled' = TRUE
    /\ timer' = FALSE

StopWorkers == loops' = 0 /\ cancelled' = TRUE /\ timer' = FALSE

(* The tray is told, in whatever order the threads reach its own. *)
OnAuthStateChanged(th) ==
    /\ changed[th] # None
    /\ tray' = changed[th]
    /\ IF changed[th] THEN StartWorkers ELSE StopWorkers
    /\ changed' = [changed EXCEPT ![th] = None]
    /\ UNCHANGED <<running, session, startup, refresh, drain, crossed, counters, history>>

(* The menu runs on the tray's own thread, which tells itself. *)
SignOut ==
    /\ running /\ tray /\ stops < MaxStops
    /\ stops' = stops + 1
    /\ Forget
    /\ isAuth' = FALSE
    /\ tray' = FALSE /\ StopWorkers
    /\ Cross
    /\ overtaken' = FALSE
    /\ UNCHANGED <<running, startup, refresh, drain, changed, revoked, logins, faults, lost>>

--------------------------------------------------------------------------------
(* The world around.                                                         *)

(* The program ends or is ended; what is in memory is gone. *)
Quit ==
    /\ running /\ stops < MaxStops
    /\ stops' = stops + 1
    /\ running' = FALSE
    /\ client' = None /\ isAuth' = FALSE
    /\ startup' = StartupEnded
    /\ refresh' = [due |-> Interval, failures |-> 0, request |-> None]
    /\ drain' = None
    /\ changed' = [th \in Thread |-> None] /\ crossed' = FALSE
    /\ tray' = FALSE /\ loops' = 0 /\ cancelled' = FALSE /\ timer' = FALSE
    /\ UNCHANGED <<store, revoked, logins, faults, history>>

(* The player deletes the account on the web. *)
AccountDeleted ==
    /\ revoked < logins
    /\ revoked' = logins
    /\ UNCHANGED <<running, session, startup, refresh, drain, announced, workers, logins,
                   faults, stops, history>>

Older(token) == [token EXCEPT !.age = IF token.age > Session THEN token.age ELSE token.age + 1]

Aged(token) == IF token = None THEN None ELSE Older(token)

(* No request lasts, and no thread waits for the tray, until the next day. *)
Quiet ==
    /\ startup.at = "ended" /\ refresh.request = None /\ drain = None
    /\ \A th \in Thread : changed[th] = None

NextDay ==
    /\ Quiet
    /\ running => refresh.due > 0
    /\ store' = Aged(store) /\ client' = Aged(client)
    /\ refresh' = IF running THEN [refresh EXCEPT !.due = @ - 1] ELSE refresh
    /\ UNCHANGED <<running, isAuth, startup, drain, announced, workers, counters, history>>

--------------------------------------------------------------------------------
InitialiseAsync ==
    NoToken \/ CheckToken \/ StartupRenewed \/ StartupValid \/ StartupServerError
    \/ StartupRejected

RefreshLoopAsync ==
    RefreshSkipped \/ RefreshAsks \/ RefreshRenewed \/ RefreshValid \/ RefreshServerError
    \/ RefreshRejected \/ RefreshFails

DrainAsync == DrainPosts \/ DrainAnswered \/ DrainRejected

Next ==
    \/ Start \/ InitialiseAsync \/ RefreshLoopAsync \/ OnYurnikUrl \/ DrainAsync
    \/ \E th \in Thread : OnAuthStateChanged(th)
    \/ SignOut \/ Quit \/ AccountDeleted \/ NextDay

(* Threads go on, requests are answered, days pass however many are sent. *)
Fairness ==
    /\ WF_vars(InitialiseAsync)
    /\ WF_vars(RefreshLoopAsync)
    /\ WF_vars(DrainAnswered \/ DrainRejected)
    /\ \A th \in Thread : WF_vars(OnAuthStateChanged(th))
    /\ SF_vars(NextDay)

Spec == Init /\ [][Next]_vars /\ Fairness

--------------------------------------------------------------------------------
(* Types; no loop of the monitor, the processor or the watcher, whichever     *)
(* start it is of, outlives the stop; and the timer does as the tray was told. *)
TypeOK ==
    /\ cancelled => loops = 0
    /\ timer = tray
    /\ running \in BOOLEAN /\ isAuth \in BOOLEAN /\ tray \in BOOLEAN
    /\ cancelled \in BOOLEAN /\ timer \in BOOLEAN
    /\ crossed \in BOOLEAN /\ overtaken \in BOOLEAN
    /\ store \in Token \cup {None} /\ client \in Token \cup {None}
    /\ startup \in [at : {"begin", "asked", "ended"}, token : Token \cup {None}]
    /\ refresh \in [due : 0..Interval, failures : Nat, request : Requests \cup {None}]
    /\ drain \in Requests \cup {None}
    /\ changed \in [Thread -> BOOLEAN \cup {None}]
    /\ loops \in Nat /\ lost \in Nat
    /\ revoked \in Nat /\ logins \in Nat /\ faults \in Nat /\ stops \in Nat

(* A running agent renews its token in time (docs/DESIGN.md:75, "so a          *)
(* long-running agent stays authenticated"): with no failed check the token   *)
(* it sends is at most four of its seven days old, however sign-ins, checks   *)
(* and restarts fall; with failed ones, older by their delays, among which a  *)
(* server error costs a whole interval (RefreshLoopAsync).                    *)
TokenIsFresh ==
    (running /\ isAuth /\ client # None) => client.age <= RenewAge + Interval + lost

(* When nothing is under way, the token kept for the next start is the one    *)
(* that is sent, both are there exactly while the agent is signed in, and it  *)
(* is that of the last sign-in; unless an answer to an older request was      *)
(* applied after a sign-in or a sign-out (the awaits of AuthManager.cs).       *)
CredentialsAgree ==
    (running /\ Quiet /\ ~overtaken) =>
        /\ store = client
        /\ isAuth = (client # None)
        /\ client # None => client.login = logins

(* When nothing is under way no worker loop runs that nobody is signed in for,  *)
(* although the announcements of a sign-in and of a rejection may reach the    *)
(* tray in the wrong order: a token source once cancelled is never replaced    *)
(* (StartWorkers in TrayApp.cs).  The notification timer has none: it runs      *)
(* exactly while somebody is signed in, unless two announcements crossed, and  *)
(* then it may go on for nobody, or stand still for who is signed in.          *)
LoopsNeedSignIn ==
    Quiet => /\ loops > 0 => isAuth
             /\ crossed \/ timer = isAuth

(* A rejected token is noticed: the agent stops sending it, by signing out or  *)
(* because of a new sign-in, also when checks fail (RefreshLoopAsync).         *)
RejectionIsNoticed ==
    (isAuth /\ ~Accepts(client)) ~> (~isAuth \/ Accepts(client))
================================================================================
