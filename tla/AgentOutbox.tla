------------------------------ MODULE AgentOutbox ------------------------------
(****************************************************************************)
(* The agent's recording pipeline: the process watcher inserts a row per    *)
(* running game, the session monitor heartbeats live rows and moves dead    *)
(* ones to the outbox, the queue processor drains the outbox to the API.    *)
(* Three loops run concurrently over two SQLite tables, each statement its  *)
(* own transaction; the agent may die between any two of them, and a POST   *)
(* may fail before or after the API has acted on it.                        *)
(*                                                                          *)
(* SQL tables are sets of rows.  A statement is one action; what a loop     *)
(* holds in memory between two statements is a variable of its own, lost    *)
(* with the process.  Which processes count as games (exclusion list, game  *)
(* detection, window title) is left open: a poll sees any of the live ones. *)
(****************************************************************************)
EXTENDS Naturals, FiniteSets, Sequences

CONSTANTS
    Pid,            \* operating system process ids
    Exe,            \* game executables
    MinSession,     \* AgentConfig.MinSessionDuration, in clock units
    PeekLimit,      \* entries EventQueue.Peek returns at most
    Backoff,        \* QueueProcessor.Backoff
    Cooldown,       \* QueueProcessor.RateLimitCooldown
    ReusePids,      \* may the system give a dead process's pid to a new one?
    SameExe,        \* may a game run as several processes at once?
    PlayUntil,      \* bound: games run, and are stamped, until this time only
    MaxTime,        \* bound: the clock stops here
    MaxFaults,      \* bound on failed, lost and rate limited requests
    MaxStops,       \* bound on crashes, sign-outs and 401 answers
    MaxMisreads     \* bound on failed queries of running processes

ASSUME ConstantsAssumption ==
    /\ MinSession \in Nat \ {0}
    /\ PeekLimit \in Nat \ {0}
    /\ Backoff \in Seq(Nat) \ {<<>>}
    /\ Cooldown \in Nat
    /\ ReusePids \in BOOLEAN /\ SameExe \in BOOLEAN
    /\ PlayUntil \in Nat /\ MaxTime \in Nat
    /\ MaxFaults \in Nat /\ MaxStops \in Nat /\ MaxMisreads \in Nat

VARIABLES
    now,            \* the clock
    proc,           \* per pid, the process that has or had it
    mode,           \* "working", "stopped" (signed out) or "down"
    seen,           \* ProcessWatcher._seen
    sessions,       \* table sessions, keyed by pid
    toCheck,        \* rows of SessionMonitor.Check's snapshot still to visit
    alive,          \* at most one row found alive and not yet stamped
    moving,         \* at most one row found dead and not yet deleted
    queue,          \* table queue, the outbox
    nextId,         \* AUTOINCREMENT of the outbox
    batch,          \* rows of QueueProcessor's Peek still to visit
    call,           \* at most one POST in flight: its row, and has the API acted
    late,           \* requests the client gave up on that the API may still run
    limited,        \* _rateLimitedUntil
    processed,      \* how often the API has acted on each key
    begun,          \* history: keys the watcher has ever inserted
    dropped,        \* history: keys found too short
    misreads,       \* processes taken for dead while they ran so far
    misread,        \* history: their pids, until they are polled anew
    overshot,       \* history: keys whose process exited between test and stamp
    faults,         \* failed, lost and rate limited requests so far
    stops           \* crashes, sign-outs and 401 answers so far

clockVars   == <<now, proc>>
watcherVars == <<seen, begun>>
monitorVars == <<toCheck, alive, moving, dropped>>
excuseVars  == <<misreads, misread, overshot>>
outboxVars  == <<queue, nextId>>
drainVars   == <<batch, call, limited>>
serverVars  == <<late, processed>>
budgetVars  == <<faults, stops>>
vars == <<clockVars, mode, watcherVars, sessions, monitorVars, excuseVars,
          outboxVars, drainVars, serverVars, budgetVars>>

Time == 0 .. MaxTime
Key == [exe : Exe, started : Time]
Session == [pid : Pid, exe : Exe, started : Time, last : Time]
Entry == [id : Nat, exe : Exe, started : Time, ended : Time,
          attempts : 0 .. Len(Backoff)]

NoProcess == [state |-> "none"]
Process == {NoProcess} \cup [state : {"running"}, exe : Exe, since : Time]
                       \cup [state : {"exited"}, exe : Exe, since : Time, at : Time]

KeyOf(row) == [exe |-> row.exe, started |-> row.started]
Running(p) == proc[p].state = "running"

Init ==
    /\ now = 0
    /\ proc = [p \in Pid |-> NoProcess]
    /\ mode = "working"
    /\ seen = {} /\ begun = {}
    /\ sessions = {}
    /\ toCheck = {} /\ alive = {} /\ moving = {} /\ dropped = {}
    /\ misreads = 0 /\ misread = {} /\ overshot = {}
    /\ queue = {} /\ nextId = 1
    /\ batch = {} /\ call = {} /\ limited = 0
    /\ late = {} /\ processed = [k \in Key |-> 0]
    /\ faults = 0 /\ stops = 0

--------------------------------------------------------------------------------
(* The computer: games start and exit, time passes. *)

Spawn(p, x) ==
    /\ now < PlayUntil
    /\ proc[p].state = "none" \/ (ReusePids /\ proc[p].state = "exited")
    /\ SameExe \/ \A q \in Pid : Running(q) => proc[q].exe # x
    /\ proc' = [proc EXCEPT ![p] =
                    [state |-> "running", exe |-> x, since |-> now]]
    /\ UNCHANGED <<now, mode, watcherVars, sessions, monitorVars, excuseVars,
                   outboxVars, drainVars, serverVars, budgetVars>>

Exit(p) ==
    /\ Running(p)
    /\ proc' = [proc EXCEPT ![p] =
                    [state |-> "exited", exe |-> proc[p].exe,
                     since |-> proc[p].since, at |-> now]]
    /\ overshot' = overshot \cup {KeyOf(s) : s \in {r \in alive : r.pid = p}}
    /\ UNCHANGED <<now, mode, watcherVars, sessions, monitorVars, misreads,
                   misread, outboxVars, drainVars, serverVars, budgetVars>>

Tick ==
    /\ now < MaxTime
    /\ now >= PlayUntil => alive = {} /\ \A p \in Pid : ~Running(p)
    /\ now' = now + 1
    /\ UNCHANGED <<proc, mode, watcherVars, sessions, monitorVars, excuseVars,
                   outboxVars, drainVars, serverVars, budgetVars>>

--------------------------------------------------------------------------------
(* ProcessWatcher. *)

(* INSERT OR IGNORE INTO sessions: a row of the same pid stays as it is. *)
NewRows(pids) ==
    {[pid |-> p, exe |-> proc[p].exe, started |-> now, last |-> now] :
        p \in {q \in pids : \A s \in sessions : s.pid # q}}

(* Poll: of the live processes it sees some, inserts those not yet in _seen  *)
(* and forgets the pids it did not see this time.  A pid taken for dead gets  *)
(* a row again once it was forgotten, if its old row is gone by then.        *)
Poll(visible) ==
    /\ mode = "working"
    /\ \A p \in visible : Running(p)
    /\ LET new == NewRows(visible \ seen)
       IN  /\ sessions' = sessions \cup new
           /\ begun' = begun \cup {KeyOf(s) : s \in new}
    /\ seen' = visible
    /\ misread' = {p \in misread : \/ p \in seen \cap visible
                                  \/ \E m \in moving : m.pid = p}
    /\ UNCHANGED <<clockVars, mode, monitorVars, misreads, overshot, outboxVars,
                   drainVars, serverVars, budgetVars>>

--------------------------------------------------------------------------------
(* SessionMonitor.Check: a snapshot of the table, then each row in turn. *)

StartCheck ==
    /\ mode = "working"
    /\ toCheck = {} /\ alive = {} /\ moving = {}
    /\ sessions # {}
    /\ toCheck' = sessions
    /\ UNCHANGED <<clockVars, mode, watcherVars, sessions, alive, moving, dropped,
                   excuseVars, outboxVars, drainVars, serverVars, budgetVars>>

(* The next row is looked at when the one before is stamped or deleted. *)
Visits(s) == s \in toCheck /\ alive = {} /\ moving = {} /\ toCheck' = toCheck \ {s}

(* Mutant: the liveness test of the process is dropped. *)
EveryRowIsAlive(s) ==
    /\ Visits(s)
    /\ alive' = {s}
    /\ UNCHANGED <<clockVars, mode, watcherVars, sessions, moving, dropped,
                   excuseVars, outboxVars, drainVars, serverVars, budgetVars>>

FoundAlive(s) ==
    /\ Visits(s)
    /\ Running(s.pid)
    /\ alive' = {s}
    /\ UNCHANGED <<clockVars, mode, watcherVars, sessions, moving, dropped,
                   excuseVars, outboxVars, drainVars, serverVars, budgetVars>>

(* The stamp is a statement of its own, with the time of then; the process   *)
(* may have exited since the test.                                           *)
Heartbeat(s) ==
    /\ s \in alive
    /\ sessions' = {IF r.pid = s.pid THEN [r EXCEPT !.last = now] ELSE r :
                       r \in sessions}
    /\ alive' = {}
    /\ UNCHANGED <<clockVars, mode, watcherVars, toCheck, moving, dropped,
                   excuseVars, outboxVars, drainVars, serverVars, budgetVars>>

(* IsRunning answers false for a process that is gone, and for one that the   *)
(* system does not let it open or query: any process may be taken for dead.  *)
TakenForDead(s) ==
    \/ ~Running(s.pid) /\ UNCHANGED <<misreads, misread>>
    \/ /\ Running(s.pid)
       /\ misreads < MaxMisreads /\ misreads' = misreads + 1
       /\ misread' = misread \cup {s.pid}

LongEnough(s) == s.last - s.started >= MinSession

(* Mutant: the session ends when it is found dead, not when last seen. *)
EndOfSessionNow(s) == now

EndOfSession(s) == s.last

(* INSERT OR IGNORE INTO queue, UNIQUE (exe_name, started_at). *)
InsertEntry(s) ==
    IF \E q \in queue : KeyOf(q) = KeyOf(s)
    THEN UNCHANGED outboxVars
    ELSE /\ queue' = queue \cup
                {[id |-> nextId, exe |-> s.exe, started |-> s.started,
                  ended |-> EndOfSession(s), attempts |-> 0]}
         /\ nextId' = nextId + 1

Enqueue(s) ==
    /\ Visits(s)
    /\ TakenForDead(s)
    /\ LongEnough(s)
    /\ InsertEntry(s)
    /\ moving' = {s}
    /\ UNCHANGED <<clockVars, mode, watcherVars, sessions, alive, dropped,
                   overshot, drainVars, serverVars, budgetVars>>

(* Mutant: a short session is discarded before its process is looked at. *)
DiscardAnyShort(s) ==
    /\ Visits(s)
    /\ ~LongEnough(s)
    /\ dropped' = dropped \cup {KeyOf(s)}
    /\ moving' = {s}
    /\ UNCHANGED <<clockVars, mode, watcherVars, sessions, alive, excuseVars,
                   outboxVars, drainVars, serverVars, budgetVars>>

Discard(s) ==
    /\ Visits(s)
    /\ TakenForDead(s)
    /\ ~LongEnough(s)
    /\ dropped' = dropped \cup {KeyOf(s)}
    /\ moving' = {s}
    /\ UNCHANGED <<clockVars, mode, watcherVars, sessions, alive, overshot,
                   outboxVars, drainVars, serverVars, budgetVars>>

DeleteSession(s) ==
    /\ s \in moving
    /\ sessions' = {r \in sessions : r.pid # s.pid}
    /\ moving' = {}
    /\ UNCHANGED <<clockVars, mode, watcherVars, toCheck, alive, dropped,
                   excuseVars, outboxVars, drainVars, serverVars, budgetVars>>

--------------------------------------------------------------------------------
(* QueueProcessor.DrainAsync. *)

(* The oldest entries, as many as Peek returns. *)
Peek == {q \in queue : Cardinality({r \in queue : r.id < q.id}) < PeekLimit}

StartDrain ==
    /\ mode = "working"
    /\ batch = {} /\ call = {}
    /\ limited <= now
    /\ queue # {}
    /\ batch' = Peek
    /\ limited' = 0
    /\ UNCHANGED <<clockVars, mode, watcherVars, sessions, monitorVars, excuseVars,
                   outboxVars, call, serverVars, budgetVars>>

IsNext(b) == b \in batch /\ \A c \in batch : b.id <= c.id

(* Mutant: an entry that failed once is never tried again. *)
BackedOffForGood(b) == b.attempts > 0

BackedOff(b) == b.attempts > 0 /\ now - b.ended < Backoff[b.attempts]

Skip(b) ==
    /\ mode = "working"
    /\ call = {} /\ IsNext(b)
    /\ BackedOff(b)
    /\ batch' = batch \ {b}
    /\ UNCHANGED <<clockVars, mode, watcherVars, sessions, monitorVars, excuseVars,
                   outboxVars, call, limited, serverVars, budgetVars>>

Post(b) ==
    /\ mode = "working"
    /\ call = {} /\ IsNext(b)
    /\ ~BackedOff(b)
    /\ batch' = batch \ {b}
    /\ call' = {[row |-> b, done |-> FALSE]}
    /\ UNCHANGED <<clockVars, mode, watcherVars, sessions, monitorVars, excuseVars,
                   outboxVars, limited, serverVars, budgetVars>>

(* Mutant: the entry is not deleted on success. *)
ReplyOkKeepsEntry(c) ==
    /\ c \in call /\ c.done
    /\ call' = {}
    /\ UNCHANGED <<clockVars, mode, watcherVars, sessions, monitorVars, excuseVars,
                   outboxVars, batch, limited, serverVars, budgetVars>>

(* A 2xx answer: the entry has been handled, whatever became of it there. *)
ReplyOk(c) ==
    /\ c \in call /\ c.done
    /\ queue' = {q \in queue : q.id # c.row.id}
    /\ call' = {}
    /\ UNCHANGED <<clockVars, mode, watcherVars, sessions, monitorVars, excuseVars, nextId,
                   batch, limited, serverVars, budgetVars>>

(* A request the client stops waiting for may still reach the API later. *)
Abandoned == {KeyOf(c.row) : c \in {d \in call : ~d.done}}
Abandon == \E lost \in SUBSET Abandoned : late' = late \cup lost

(* Mutant: attempts keep growing, beyond the last wait of Backoff. *)
NextAttemptUncapped(n) == n + 1

(* Attempts count up to Len(Backoff); Math.Min makes the rest the same. *)
NextAttempt(n) == IF n < Len(Backoff) THEN n + 1 ELSE n

(* Mutant: the failed entry leaves the outbox, as after a success. *)
AfterFailureDropped(id) == {q \in queue : q.id # id}

AfterFailure(id) == {IF q.id = id
                     THEN [q EXCEPT !.attempts = NextAttempt(q.attempts)]
                     ELSE q : q \in queue}

(* A 4xx or 5xx answer, a broken connection, a lost answer: all transient. *)
ReplyTransient(c) ==
    /\ c \in call
    /\ faults < MaxFaults /\ faults' = faults + 1
    /\ queue' = AfterFailure(c.row.id)
    /\ call' = {}
    /\ Abandon
    /\ UNCHANGED <<clockVars, mode, watcherVars, sessions, monitorVars, excuseVars, nextId,
                   batch, limited, processed, stops>>

(* 429, from a middleware in front of every handler. *)
ReplyRateLimited(c) ==
    /\ c \in call /\ ~c.done
    /\ faults < MaxFaults /\ faults' = faults + 1
    /\ now + Cooldown <= MaxTime
    /\ limited' = now + Cooldown
    /\ call' = {} /\ batch' = {}
    /\ UNCHANGED <<clockVars, mode, watcherVars, sessions, monitorVars, excuseVars,
                   outboxVars, serverVars, stops>>

(* 401: OnUnauthorized ends up in StopWorkers, which cancels the three loops. *)
(* A later StartWorkers does not bring them back (AgentAuth).                *)
ReplyUnauthorized(c) ==
    /\ c \in call /\ ~c.done
    /\ stops < MaxStops /\ stops' = stops + 1
    /\ mode' = "stopped"
    /\ call' = {} /\ batch' = {}
    /\ UNCHANGED <<clockVars, watcherVars, sessions, monitorVars, excuseVars, outboxVars,
                   limited, serverVars, faults>>

--------------------------------------------------------------------------------
(* The API, seen from the agent: it acts once on each request it receives. *)

Handle(c) ==
    /\ c \in call /\ ~c.done
    /\ processed' = [processed EXCEPT ![KeyOf(c.row)] = @ + 1]
    /\ call' = {[c EXCEPT !.done = TRUE]}
    /\ UNCHANGED <<clockVars, mode, watcherVars, sessions, monitorVars, excuseVars,
                   outboxVars, batch, limited, late, budgetVars>>

HandleLate(k) ==
    /\ k \in late
    /\ processed' = [processed EXCEPT ![k] = @ + 1]
    /\ late' = late \ {k}
    /\ UNCHANGED <<clockVars, mode, watcherVars, sessions, monitorVars, excuseVars,
                   outboxVars, drainVars, budgetVars>>

--------------------------------------------------------------------------------
(* The life of the agent process. *)

(* StopWorkers on sign-out: the rest of the batch is dropped at the loop's   *)
(* cancellation check; a check of the monitor and a POST in flight finish.  *)
SignOut ==
    /\ mode = "working"
    /\ stops < MaxStops /\ stops' = stops + 1
    /\ mode' = "stopped"
    /\ batch' = {}
    /\ UNCHANGED <<clockVars, watcherVars, sessions, monitorVars, excuseVars, outboxVars,
                   call, limited, serverVars, faults>>

LoseMemory ==
    /\ mode' = "down"
    /\ seen' = {}
    /\ toCheck' = {} /\ alive' = {} /\ moving' = {}
    /\ batch' = {} /\ call' = {} /\ limited' = 0
    /\ Abandon
    /\ misread' = {}
    /\ UNCHANGED <<clockVars, begun, sessions, dropped, misreads, overshot,
                   outboxVars, processed, faults>>

Crash == /\ mode = "working"
         /\ stops < MaxStops /\ stops' = stops + 1
         /\ LoseMemory

Quit == /\ mode = "stopped"
        /\ LoseMemory
        /\ UNCHANGED stops

(* The agent is started again and finds its session token still valid. *)
Restart ==
    /\ mode = "down"
    /\ mode' = "working"
    /\ UNCHANGED <<clockVars, watcherVars, sessions, monitorVars, excuseVars, outboxVars,
                   drainVars, serverVars, budgetVars>>

--------------------------------------------------------------------------------

Monitor == \/ StartCheck
           \/ \E s \in toCheck : FoundAlive(s) \/ Enqueue(s) \/ Discard(s)
           \/ \E s \in alive : Heartbeat(s)
           \/ \E s \in moving : DeleteSession(s)

Drain == \/ StartDrain
         \/ \E b \in batch : Skip(b) \/ Post(b)

Reply == \E c \in call : \/ ReplyOk(c) \/ ReplyTransient(c)
                         \/ ReplyRateLimited(c) \/ ReplyUnauthorized(c)

Server == \/ \E c \in call : Handle(c)
          \/ \E k \in late : HandleLate(k)

Machine == \/ \E p \in Pid : (\E x \in Exe : Spawn(p, x)) \/ Exit(p)
           \/ Tick

Life == SignOut \/ Crash \/ Quit \/ Restart

Next == \/ Machine
        \/ \E visible \in SUBSET Pid : Poll(visible)
        \/ Monitor \/ Drain \/ Server \/ Reply \/ Life

Safety == Init /\ [][Next]_vars

(* The loops and the API keep running; a stopped agent is quit and started    *)
(* again some day, with a valid token; games end by PlayUntil, after which    *)
(* the clock is not held back.  Polls, crashes, failures owe nothing.         *)
Fairness ==
    /\ WF_vars(Monitor)
    /\ WF_vars(Drain)
    /\ WF_vars(\E c \in call : Handle(c) \/ ReplyOk(c))
    /\ WF_vars(Quit \/ Restart)
    /\ WF_vars(Tick \/ (now >= PlayUntil /\ \E p \in Pid : Exit(p)))

Spec == Safety /\ Fairness

--------------------------------------------------------------------------------
(* Properties. *)

TypeOK ==
    /\ now \in Time
    /\ proc \in [Pid -> Process]
    /\ mode \in {"working", "stopped", "down"}
    /\ seen \subseteq Pid
    /\ sessions \subseteq Session
    /\ toCheck \subseteq Session /\ alive \subseteq Session /\ moving \subseteq Session
    /\ queue \subseteq Entry /\ nextId \in Nat
    /\ batch \subseteq Entry
    /\ call \subseteq [row : Entry, done : BOOLEAN]
    /\ late \subseteq Key
    /\ limited \in Time
    /\ processed \in [Key -> Nat]
    /\ begun \subseteq Key /\ dropped \subseteq Key
    /\ misread \subseteq Pid /\ overshot \subseteq Key
    /\ faults \in 0 .. MaxFaults /\ stops \in 0 .. MaxStops
    /\ misreads \in 0 .. MaxMisreads

Open(k)    == \E s \in sessions : KeyOf(s) = k
Waiting(k) == \E q \in queue : KeyOf(q) = k

(* Every session the watcher ever recorded is still in a table, or the API   *)
(* has acted on it, or it was too short: no interleaving of the loops, crash *)
(* or failed request makes one disappear (SessionMonitor.cs:11-13).          *)
NoSessionLost ==
    \A k \in begun : Open(k) \/ Waiting(k) \/ processed[k] > 0 \/ k \in dropped

(* The API sees a session again only for a reason: once per failed request,  *)
(* and at most twice per crash, which can lose the answer of a POST and at   *)
(* the same time leave the row half moved, so that it is enqueued anew.  The *)
(* loops alone never send again what was answered (UNIQUE index of the       *)
(* outbox, Delete on success), if no two long sessions share exe and second: *)
(* one game runs at a time, and none is stamped after its process exited.    *)
RepeatsNeedAFailure ==
    \A k \in Key \ overshot : processed[k] <= 1 + faults + 2 * stops

(* What waits to be sent was really played: one process of the game ran from  *)
(* the recorded start to the recorded end.  A session found dead after a     *)
(* restart ends when it was last seen, not when it was found                 *)
(* (RestartRecoveryTests).  Only a process that exits between the monitor's   *)
(* test and its stamp (SessionMonitor.cs:64-66) is recorded for longer.      *)
RecordedTimeWasPlayed ==
    \A q \in queue :
        \/ KeyOf(q) \in overshot
        \/ \E p \in Pid : /\ proc[p].state # "none"
                          /\ proc[p].exe = q.exe
                          /\ proc[p].since <= q.started
                          /\ proc[p].state = "exited" => proc[p].at >= q.ended

(* A game the watcher believes recorded is recorded, once the monitor is     *)
(* between two rows: _seen only saves writes, it never hides a game          *)
(* (ProcessWatcher.cs:40-41).  Needs pids that are not reused; and a running  *)
(* process taken for dead (SessionMonitor.cs:93) has no row until a poll     *)
(* misses it and a later one finds it.                                       *)
SeenIsRecorded ==
    moving = {} => \A p \in seen \ misread :
                       Running(p) => \E s \in sessions : s.pid = p

(* Rows of dead processes do not pile up: again and again every row in the   *)
(* table of running sessions has a live process, also when the agent stops   *)
(* or crashes in the middle of a check.                                      *)
DeadSessionsLeave == []<>(\A s \in sessions : Running(s.pid))

(* The pipeline implements what SessionDelivery promises, progress included. *)
StatusOf(k) == IF processed[k] > 0 THEN "delivered"
               ELSE IF Waiting(k) THEN "waiting"
               ELSE IF Open(k) THEN "open"
               ELSE IF k \in dropped THEN "dropped" ELSE "none"

Delivery == INSTANCE SessionDelivery WITH status <- [k \in Key |-> StatusOf(k)]

Delivers == Delivery!Spec

================================================================================
