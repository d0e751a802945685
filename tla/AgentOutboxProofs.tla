--------------------------- MODULE AgentOutboxProofs ---------------------------
(****************************************************************************)
(* Proofs about AgentOutbox, for any number of pids, games, crashes, faults *)
(* and any clock: its type invariant, that no recorded session is ever      *)
(* lost, that it implements SessionDelivery, and that the API sees a session *)
(* again only after a failure.                                              *)
(*                                                                          *)
(* NoSessionLost is not inductive.  Deleting a row by pid is safe because   *)
(* the row found dead is still the one that has the pid (PidIsKey,          *)
(* SnapshotHeld) and its key has been settled before (MovingSettled);       *)
(* deleting an outbox entry by id is safe because the id still names the    *)
(* entry that was sent (IdIsKey) and the API has acted on it (CallDone).    *)
(****************************************************************************)
EXTENDS AgentOutbox, TLAPS

Settled(k) == Waiting(k) \/ processed[k] > 0 \/ k \in dropped

(* The pid is the primary key of table sessions. *)
PidIsKey == \A r, t \in sessions : r.pid = t.pid => r = t

(* The rows the monitor still holds are rows of the table, but for their     *)
(* last heartbeat, and no pid is held twice.                                 *)
SnapshotHeld ==
    /\ \A s \in toCheck \cup alive \cup moving :
          \E r \in sessions : r.pid = s.pid /\ KeyOf(r) = KeyOf(s)
    /\ \A s, t \in toCheck : s.pid = t.pid => s = t
    /\ \A s \in toCheck, t \in alive \cup moving : s.pid # t.pid
    /\ \A s, t \in alive \cup moving : s = t
    /\ alive = {} \/ moving = {}

MovingSettled == \A s \in moving : Settled(KeyOf(s))

(* An outbox id names one key for ever; ids in memory are old ids. *)
Held == queue \cup batch \cup {c.row : c \in call}

IdIsKey ==
    /\ \A b \in Held : b.id < nextId
    /\ \A b \in Held, q \in queue : b.id = q.id => KeyOf(b) = KeyOf(q)

CallDone == \A c \in call : c.done => processed[KeyOf(c.row)] > 0

IndInv == /\ TypeOK /\ NoSessionLost
          /\ PidIsKey /\ SnapshotHeld /\ MovingSettled
          /\ IdIsKey /\ CallDone

--------------------------------------------------------------------------------
(* Type correctness. *)

LEMMA InitType == Init => TypeOK
  BY ConstantsAssumption
     DEF Init, TypeOK, Process, Time, Key

(* Each action keeps every variable in its type. *)
LEMMA NextType == TypeOK /\ [Next]_vars => TypeOK'
<1> SUFFICES ASSUME TypeOK, [Next]_vars PROVE TypeOK'
  OBVIOUS
<1> USE ConstantsAssumption
<1> USE DEF TypeOK, Time, clockVars, watcherVars, monitorVars, excuseVars,
            outboxVars, drainVars, serverVars, budgetVars
<1>1. ASSUME NEW p \in Pid, NEW x \in Exe, Spawn(p, x) PROVE TypeOK'
  BY <1>1 DEF Spawn, Process
<1>2. ASSUME NEW p \in Pid, Exit(p) PROVE TypeOK'
  <2>1. proc[p].exe \in Exe /\ proc[p].since \in Time
    BY <1>2 DEF Exit, Running, Process, NoProcess
  <2>2. proc' \in [Pid -> Process]
    BY <1>2, <2>1 DEF Exit, Process
  <2>3. overshot' \subseteq Key
    BY <1>2 DEF Exit, KeyOf, Session, Key
  <2> QED
    BY <1>2, <2>2, <2>3 DEF Exit
<1>3. CASE Tick
  BY <1>3 DEF Tick
<1>4. ASSUME NEW visible \in SUBSET Pid, Poll(visible) PROVE TypeOK'
  <2>1. NewRows(visible \ seen) \subseteq Session
    BY <1>4 DEF Poll, NewRows, Session, Running, Process, NoProcess
  <2>2. {KeyOf(s) : s \in NewRows(visible \ seen)} \subseteq Key
    BY <2>1 DEF KeyOf, Session, Key
  <2> QED
    BY <1>4, <2>1, <2>2 DEF Poll
<1>5. CASE StartCheck
  BY <1>5 DEF StartCheck
<1>24. ASSUME NEW s \in toCheck, FoundAlive(s) PROVE TypeOK'
  BY <1>24 DEF FoundAlive, Visits
<1>6. ASSUME NEW s \in alive, Heartbeat(s) PROVE TypeOK'
  <2>1. sessions' \subseteq Session
    <3>1. \A r \in sessions :
            (IF r.pid = s.pid THEN [r EXCEPT !.last = now] ELSE r) \in Session
      BY DEF Session
    <3>2. sessions' = {IF r.pid = s.pid THEN [r EXCEPT !.last = now] ELSE r : r \in sessions}
      BY <1>6 DEF Heartbeat
    <3>. QED BY <3>1, <3>2
  <2>2. alive' \subseteq Session
    BY <1>6 DEF Heartbeat
  <2>3. UNCHANGED <<clockVars, mode, watcherVars, toCheck, moving, dropped,
                    excuseVars, outboxVars, drainVars, serverVars, budgetVars>>
    BY <1>6 DEF Heartbeat
  <2> QED
    BY <2>1, <2>2, <2>3
<1>7. ASSUME NEW s \in toCheck, Enqueue(s) PROVE TypeOK'
  <2>1. [id |-> nextId, exe |-> s.exe, started |-> s.started,
         ended |-> EndOfSession(s), attempts |-> 0] \in Entry
    BY DEF EndOfSession, Entry, Session
  <2>2. queue' \subseteq Entry /\ nextId' \in Nat
    <3>1. InsertEntry(s)
      BY <1>7 DEF Enqueue
    <3>2. CASE UNCHANGED outboxVars
      BY <3>2
    <3>3. CASE ~UNCHANGED outboxVars
      BY <3>1, <3>3, <2>1 DEF InsertEntry
    <3> QED
      BY <3>2, <3>3
  <2>3. toCheck' \subseteq Session /\ moving' \subseteq Session
    BY <1>7 DEF Enqueue, Visits
  <2>4. UNCHANGED <<clockVars, mode, watcherVars, sessions, alive, dropped,
                    overshot, drainVars, serverVars, budgetVars>>
    BY <1>7 DEF Enqueue
  <2>5. misread' \subseteq Pid /\ misreads' \in 0 .. MaxMisreads
    BY <1>7 DEF Enqueue, TakenForDead, Session
  <2> QED
    BY <2>2, <2>3, <2>4, <2>5
<1>8. ASSUME NEW s \in toCheck, Discard(s) PROVE TypeOK'
  <2>1. misread' \subseteq Pid /\ misreads' \in 0 .. MaxMisreads
    BY <1>8 DEF Discard, TakenForDead, Session
  <2> QED
    BY <1>8, <2>1 DEF Discard, Visits, KeyOf, Session, Key
<1>9. ASSUME NEW s \in moving, DeleteSession(s) PROVE TypeOK'
  BY <1>9 DEF DeleteSession
<1>10. CASE StartDrain
  BY <1>10 DEF StartDrain, Peek
<1>11. ASSUME NEW b \in batch, Skip(b) PROVE TypeOK'
  BY <1>11 DEF Skip
<1>12. ASSUME NEW b \in batch, Post(b) PROVE TypeOK'
  BY <1>12 DEF Post
<1>13. ASSUME NEW c \in call, ReplyOk(c) PROVE TypeOK'
  BY <1>13 DEF ReplyOk
<1>14. Abandoned \subseteq Key
  BY DEF Abandoned, KeyOf, Entry, Key
<1>15. ASSUME NEW c \in call, ReplyTransient(c) PROVE TypeOK'
  <2>1. queue' \subseteq Entry
    <3>1. ASSUME NEW q \in queue
          PROVE  [q EXCEPT !.attempts = NextAttempt(q.attempts)] \in Entry
      <4>1. Len(Backoff) \in Nat /\ q.attempts \in 0 .. Len(Backoff)
        BY DEF Entry
      <4>2. NextAttempt(q.attempts) \in 0 .. Len(Backoff)
        BY <4>1 DEF NextAttempt
      <4> QED
        BY <4>2 DEF Entry
    <3> QED
      BY <1>15, <3>1 DEF ReplyTransient, AfterFailure
  <2>2. late' \subseteq Key
    BY <1>14, <1>15 DEF ReplyTransient, Abandon
  <2> QED
    BY <1>15, <2>1, <2>2 DEF ReplyTransient
<1>16. ASSUME NEW c \in call, ReplyRateLimited(c) PROVE TypeOK'
  BY <1>16 DEF ReplyRateLimited
<1>17. ASSUME NEW c \in call, ReplyUnauthorized(c) PROVE TypeOK'
  BY <1>17 DEF ReplyUnauthorized
<1>18. ASSUME NEW c \in call, Handle(c) PROVE TypeOK'
  <2>1. KeyOf(c.row) \in Key
    BY DEF KeyOf, Entry, Key
  <2>2. processed' \in [Key -> Nat]
    <3>1. processed' = [processed EXCEPT ![KeyOf(c.row)] = processed[KeyOf(c.row)] + 1]
      BY <1>18 DEF Handle
    <3>2. processed[KeyOf(c.row)] + 1 \in Nat
      BY <2>1
    <3>. QED BY <3>1, <3>2
  <2>3. call' \subseteq [row : Entry, done : BOOLEAN]
    BY <1>18 DEF Handle
  <2> QED
    BY <1>18, <2>2, <2>3 DEF Handle
<1>19. ASSUME NEW k \in late, HandleLate(k) PROVE TypeOK'
  BY <1>19 DEF HandleLate
<1>20. CASE SignOut
  BY <1>20 DEF SignOut
<1>21. ASSUME Crash \/ Quit PROVE TypeOK'
  <2>1. late' \subseteq Key
    BY <1>14, <1>21 DEF Crash, Quit, LoseMemory, Abandon
  <2> QED
    BY <1>21, <2>1 DEF Crash, Quit, LoseMemory
<1>22. CASE Restart
  BY <1>22 DEF Restart
<1>23. CASE UNCHANGED vars
  BY <1>23 DEF vars
<1> QED
  BY <1>1, <1>2, <1>3, <1>4, <1>5, <1>6, <1>7, <1>8, <1>9, <1>10, <1>11, <1>12,
     <1>13, <1>15, <1>16, <1>17, <1>18, <1>19, <1>20, <1>21, <1>22, <1>23,
     <1>24 DEF Next, Machine, Monitor, Drain, Server, Reply, Life

(* Every variable of the agent keeps its type, whatever the constants. *)
THEOREM TypeCorrect == Safety => []TypeOK
<1>1. Init => TypeOK
  BY InitType
<1>2. TypeOK /\ [Next]_vars => TypeOK'
  BY NextType
<1> QED
  BY <1>1, <1>2, PTL DEF Safety

--------------------------------------------------------------------------------
(* The monitor's snapshot against the table of running sessions. *)

RowsInv == PidIsKey /\ SnapshotHeld

(* A heartbeat changes the last sighting of a row, never its pid or key. *)
LEMMA HeartbeatRows ==
  ASSUME TypeOK, NEW s \in alive, Heartbeat(s)
  PROVE  /\ \A r \in sessions : \E t \in sessions' : t.pid = r.pid /\ KeyOf(t) = KeyOf(r)
         /\ \A t \in sessions' : \E r \in sessions :
               /\ t.pid = r.pid /\ KeyOf(t) = KeyOf(r)
               /\ t = IF r.pid = s.pid THEN [r EXCEPT !.last = now] ELSE r
<1> DEFINE Beat(r) == IF r.pid = s.pid THEN [r EXCEPT !.last = now] ELSE r
<1>1. sessions' = {Beat(r) : r \in sessions}
  BY DEF Heartbeat
<1>2. ASSUME NEW r \in sessions
      PROVE  Beat(r).pid = r.pid /\ KeyOf(Beat(r)) = KeyOf(r)
  BY DEF TypeOK, Session, KeyOf
<1> QED
  BY <1>1, <1>2

LEMMA RowsStep == TypeOK /\ RowsInv /\ [Next]_vars => RowsInv'
<1> SUFFICES ASSUME TypeOK, RowsInv, [Next]_vars PROVE RowsInv'
  OBVIOUS
<1> USE DEF RowsInv
<1>1. ASSUME NEW visible \in SUBSET Pid, Poll(visible) PROVE RowsInv'
  <2>1. sessions' = sessions \cup NewRows(visible \ seen)
    BY <1>1 DEF Poll
  <2>2. \A r \in NewRows(visible \ seen), t \in sessions : r.pid # t.pid
    BY DEF NewRows
  <2>3. \A r, t \in NewRows(visible \ seen) : r.pid = t.pid => r = t
    BY DEF NewRows
  <2>4. PidIsKey'
    BY <2>1, <2>2, <2>3 DEF PidIsKey
  <2>5. SnapshotHeld'
    BY <1>1, <2>1 DEF Poll, SnapshotHeld, monitorVars
  <2> QED
    BY <2>4, <2>5
<1>2. CASE StartCheck
  BY <1>2 DEF StartCheck, PidIsKey, SnapshotHeld
<1>3. ASSUME NEW s \in alive, Heartbeat(s) PROVE RowsInv'
  <2>1. PidIsKey'
    BY <1>3, HeartbeatRows DEF PidIsKey
  <2>2. alive' = {} /\ toCheck' = toCheck /\ moving' = moving
    BY <1>3 DEF Heartbeat
  <2>3. \A t \in toCheck' \cup alive' \cup moving' :
          \E r \in sessions' : r.pid = t.pid /\ KeyOf(r) = KeyOf(t)
    <3>1. ASSUME NEW t \in toCheck \cup moving
          PROVE  \E r \in sessions' : r.pid = t.pid /\ KeyOf(r) = KeyOf(t)
      <4>1. PICK o \in sessions : o.pid = t.pid /\ KeyOf(o) = KeyOf(t)
        BY DEF SnapshotHeld
      <4>. QED BY <1>3, <4>1, HeartbeatRows
    <3>. QED BY <2>2, <3>1
  <2>4. SnapshotHeld'
    BY <2>2, <2>3 DEF SnapshotHeld
  <2> QED
    BY <2>1, <2>4
<1>4. ASSUME NEW s \in toCheck, FoundAlive(s) \/ Enqueue(s) \/ Discard(s) PROVE RowsInv'
  <2>1. /\ sessions' = sessions /\ toCheck' = toCheck \ {s} /\ alive = {} /\ moving = {}
        /\ alive' \cup moving' = {s} /\ (alive' = {} \/ moving' = {})
    BY <1>4 DEF FoundAlive, Enqueue, Discard, Visits
  <2>2. PidIsKey'
    BY <2>1 DEF PidIsKey
  <2>3. SnapshotHeld'
    BY <2>1 DEF SnapshotHeld
  <2> QED
    BY <2>2, <2>3
<1>5. ASSUME NEW s \in moving, DeleteSession(s) PROVE RowsInv'
  <2>1. /\ alive = {} /\ alive' = {} /\ moving' = {} /\ toCheck' = toCheck
        /\ sessions' = {r \in sessions : r.pid # s.pid}
    BY <1>5 DEF DeleteSession, SnapshotHeld
  <2>2. PidIsKey'
    BY <2>1 DEF PidIsKey
  <2>3. ASSUME NEW t \in toCheck
        PROVE  \E r \in sessions' : r.pid = t.pid /\ KeyOf(r) = KeyOf(t)
    <3>1. PICK r \in sessions : r.pid = t.pid /\ KeyOf(r) = KeyOf(t)
      BY DEF SnapshotHeld
    <3>2. r.pid # s.pid
      BY <1>5, <3>1 DEF SnapshotHeld
    <3>. QED BY <2>1, <3>1, <3>2
  <2>4. SnapshotHeld'
    BY <2>1, <2>3 DEF SnapshotHeld
  <2>. QED BY <2>2, <2>4
<1>6. ASSUME Crash \/ Quit PROVE RowsInv'
  BY <1>6 DEF Crash, Quit, LoseMemory, PidIsKey, SnapshotHeld
<1>7. ASSUME UNCHANGED <<sessions, toCheck, alive, moving>> PROVE RowsInv'
  BY <1>7 DEF PidIsKey, SnapshotHeld
<1>8. ASSUME \/ Machine \/ Drain \/ Server \/ Reply
             \/ SignOut \/ Restart \/ UNCHANGED vars
      PROVE  UNCHANGED <<sessions, toCheck, alive, moving>>
  BY <1>8 DEF Machine, Spawn, Exit, Tick, Drain, StartDrain, Skip, Post, Server,
              Handle, HandleLate, Reply, ReplyOk, ReplyTransient,
              ReplyRateLimited, ReplyUnauthorized, SignOut, Restart, vars,
              monitorVars
<1> QED
  BY <1>1, <1>2, <1>3, <1>4, <1>5, <1>6, <1>7, <1>8 DEF Next, Monitor, Life

--------------------------------------------------------------------------------
(* What the queue processor holds against the outbox. *)

OutboxInv == IdIsKey /\ CallDone

LEMMA OutboxStep == TypeOK /\ OutboxInv /\ [Next]_vars => OutboxInv'
<1> SUFFICES ASSUME TypeOK, OutboxInv, [Next]_vars PROVE OutboxInv'
  OBVIOUS
<1> USE DEF OutboxInv
<1>1. ASSUME NEW s \in toCheck, Enqueue(s) PROVE OutboxInv'
  <2>1. CASE UNCHANGED outboxVars
    BY <1>1, <2>1 DEF Enqueue, outboxVars, drainVars, serverVars, IdIsKey,
                      CallDone, Held
  <2>2. CASE /\ queue' = queue \cup
                   {[id |-> nextId, exe |-> s.exe, started |-> s.started,
                     ended |-> EndOfSession(s), attempts |-> 0]}
             /\ nextId' = nextId + 1
    <3>1. \A b \in Held : b.id \in Nat /\ b.id < nextId /\ b.id < nextId'
      BY <2>2 DEF TypeOK, Entry, Held, IdIsKey
    <3>2. IdIsKey'
      BY <1>1, <2>2, <3>1 DEF Enqueue, drainVars, IdIsKey, Held, TypeOK
    <3> QED
      BY <1>1, <3>2 DEF Enqueue, drainVars, serverVars, CallDone
  <2> QED
    BY <1>1, <2>1, <2>2 DEF Enqueue, InsertEntry
<1>2. CASE StartDrain
  BY <1>2 DEF StartDrain, Peek, outboxVars, serverVars, IdIsKey, CallDone, Held
<1>3. ASSUME NEW b \in batch, Skip(b) \/ Post(b) PROVE OutboxInv'
  <2>1. /\ queue' = queue /\ nextId' = nextId /\ processed' = processed
        /\ batch' \subseteq batch
        /\ \A c \in call' : c \in call \/ (c.row = b /\ ~c.done)
    BY <1>3 DEF Skip, Post, outboxVars, serverVars
  <2>2. Held' \subseteq Held
    BY <2>1 DEF Held
  <2> QED
    BY <2>1, <2>2 DEF IdIsKey, CallDone
<1>4. ASSUME NEW c \in call, ReplyOk(c) PROVE OutboxInv'
  BY <1>4 DEF ReplyOk, serverVars, IdIsKey, CallDone, Held
<1>5. ASSUME NEW c \in call, ReplyTransient(c) PROVE OutboxInv'
  <2>1. \A q \in queue' : \E r \in queue : q.id = r.id /\ KeyOf(q) = KeyOf(r)
    BY <1>5 DEF ReplyTransient, AfterFailure, KeyOf, TypeOK, Entry
  <2>2. Held' \subseteq queue' \cup batch /\ nextId' = nextId
    BY <1>5 DEF ReplyTransient, Held
  <2>3. IdIsKey'
    BY <2>1, <2>2 DEF IdIsKey, Held
  <2> QED
    BY <1>5, <2>3 DEF ReplyTransient, CallDone
<1>6. ASSUME NEW c \in call, ReplyRateLimited(c) \/ ReplyUnauthorized(c)
      PROVE  OutboxInv'
  BY <1>6 DEF ReplyRateLimited, ReplyUnauthorized, outboxVars, IdIsKey,
              CallDone, Held
<1>7. ASSUME NEW c \in call, Handle(c) PROVE OutboxInv'
  <2>1. KeyOf(c.row) \in Key /\ processed[KeyOf(c.row)] \in Nat
    BY DEF TypeOK, KeyOf, Entry, Key
  <2>2. call' = {[c EXCEPT !.done = TRUE]} /\ [c EXCEPT !.done = TRUE].row = c.row
    BY <1>7 DEF Handle, TypeOK
  <2>3. processed'[KeyOf(c.row)] > 0
    BY <1>7, <2>1 DEF Handle, TypeOK
  <2>4. Held' \subseteq Held
    BY <1>7, <2>2 DEF Handle, Held, outboxVars
  <2> QED
    BY <1>7, <2>2, <2>3, <2>4 DEF Handle, outboxVars, IdIsKey, CallDone
<1>8. ASSUME NEW k \in late, HandleLate(k) PROVE OutboxInv'
  <2>1. \A j \in Key : processed'[j] >= processed[j]
    BY <1>8 DEF HandleLate, TypeOK
  <2>2. \A c \in call : KeyOf(c.row) \in Key
    BY DEF TypeOK, KeyOf, Entry, Key
  <2>3. CallDone'
    BY <1>8, <2>1, <2>2 DEF HandleLate, drainVars, CallDone, TypeOK
  <2> QED
    BY <1>8, <2>3 DEF HandleLate, outboxVars, drainVars, IdIsKey, Held
<1>9. ASSUME SignOut \/ Crash \/ Quit PROVE OutboxInv'
  BY <1>9 DEF SignOut, Crash, Quit, LoseMemory, outboxVars, serverVars, IdIsKey,
              CallDone, Held
<1>10. ASSUME UNCHANGED <<outboxVars, drainVars, processed>> PROVE OutboxInv'
  BY <1>10 DEF outboxVars, drainVars, IdIsKey, CallDone, Held
<1>11. ASSUME NEW visible \in SUBSET Pid, Poll(visible)
       PROVE  UNCHANGED <<outboxVars, drainVars, processed>>
  BY <1>11 DEF Poll, serverVars
<1>12. ASSUME NEW s, FoundAlive(s) \/ Heartbeat(s) \/ Discard(s) \/ DeleteSession(s)
       PROVE  UNCHANGED <<outboxVars, drainVars, processed>>
  BY <1>12 DEF FoundAlive, Heartbeat, Discard, DeleteSession, serverVars
<1>13. ASSUME Machine \/ StartCheck \/ Restart \/ UNCHANGED vars
       PROVE  UNCHANGED <<outboxVars, drainVars, processed>>
  BY <1>13 DEF Machine, Spawn, Exit, Tick, StartCheck, Restart, vars, serverVars
<1> QED
  BY <1>1, <1>2, <1>3, <1>4, <1>5, <1>6, <1>7, <1>8, <1>9, <1>10, <1>11, <1>12,
     <1>13 DEF Next, Monitor, Drain, Server, Reply, Life

--------------------------------------------------------------------------------
(* No recorded session is lost. *)

(* A session is settled when nothing but the outbox, the API or the discard  *)
(* needs to remember it; only then may its row go.                           *)
Kept(k) == Open(k) \/ Settled(k)

LossInv == (\A k \in begun : Kept(k)) /\ MovingSettled

LEMMA LossInvSame == LossInv <=> NoSessionLost /\ MovingSettled
  BY DEF LossInv, Kept, Settled, NoSessionLost

(* If nothing settled becomes unsettled and no row disappears, all is kept. *)
LEMMA LossFrame ==
  ASSUME LossInv, begun' = begun, moving' \subseteq moving,
         \A k : Settled(k) => Settled(k)',
         \A k \in begun : Open(k) => Kept(k)'
  PROVE  LossInv'
  BY DEF LossInv, Kept, MovingSettled

(* An outbox row keeps its key when its attempts are counted. *)
LEMMA TransientSettled ==
  ASSUME TypeOK, NEW c \in call, ReplyTransient(c)
  PROVE  \A k : Settled(k) => Settled(k)'
<1> DEFINE Retried(q) == IF q.id = c.row.id
                         THEN [q EXCEPT !.attempts = NextAttempt(q.attempts)]
                         ELSE q
<1>1. \A q \in queue : \E r \in queue' : KeyOf(q) = KeyOf(r)
  <2>1. queue' = {Retried(q) : q \in queue}
    BY DEF ReplyTransient, AfterFailure
  <2>2. ASSUME NEW q \in queue PROVE KeyOf(q) = KeyOf(Retried(q))
    BY DEF KeyOf, TypeOK, Entry
  <2> QED
    BY <2>1, <2>2
<1> QED
  BY <1>1 DEF ReplyTransient, monitorVars, Settled, Waiting

(* The entry a 2xx answer deletes is one the API has acted on. *)
LEMMA OkSettled ==
  ASSUME TypeOK, OutboxInv, NEW c \in call, ReplyOk(c)
  PROVE  \A k : Settled(k) => Settled(k)'
<1>1. processed' = processed /\ dropped' = dropped
  BY DEF ReplyOk, serverVars, monitorVars
<1>2. \A q \in queue : q \in queue' \/ KeyOf(q) = KeyOf(c.row)
  BY DEF ReplyOk, OutboxInv, IdIsKey, Held
<1>3. processed[KeyOf(c.row)] > 0
  BY DEF ReplyOk, OutboxInv, CallDone
<1> QED
  BY <1>1, <1>2, <1>3 DEF Settled, Waiting

(* The API never forgets that it has acted on a key. *)
LEMMA ServerSettled ==
  ASSUME TypeOK, Server
  PROVE  \A k : Settled(k) => Settled(k)'
<1>1. ASSUME NEW j \in Key, processed' = [processed EXCEPT ![j] = @ + 1],
             queue' = queue, dropped' = dropped
      PROVE  \A k : Settled(k) => Settled(k)'
  <2> SUFFICES ASSUME NEW k, processed[k] > 0 PROVE processed'[k] > 0
    BY <1>1 DEF Settled, Waiting
  <2>1. CASE k = j
    BY <1>1, <2>1 DEF TypeOK
  <2>2. CASE k # j
    BY <1>1, <2>2 DEF TypeOK
  <2> QED
    BY <2>1, <2>2
<1>2. ASSUME NEW c \in call, Handle(c) PROVE \A k : Settled(k) => Settled(k)'
  <2>1. KeyOf(c.row) \in Key
    BY DEF TypeOK, KeyOf, Entry, Key
  <2> QED
    BY <1>1, <1>2, <2>1 DEF Handle, outboxVars, monitorVars
<1>3. ASSUME NEW k \in late, HandleLate(k) PROVE \A j : Settled(j) => Settled(j)'
  BY <1>1, <1>3 DEF HandleLate, TypeOK, outboxVars, monitorVars
<1> QED
  BY <1>2, <1>3 DEF Server

LEMMA LossStep ==
  TypeOK /\ RowsInv /\ OutboxInv /\ LossInv /\ [Next]_vars => LossInv'
<1> SUFFICES ASSUME TypeOK, RowsInv, OutboxInv, LossInv, [Next]_vars
             PROVE  LossInv'
  OBVIOUS
<1>1. ASSUME NEW visible \in SUBSET Pid, Poll(visible) PROVE LossInv'
  <2>1. PICK new : /\ sessions' = sessions \cup new
                   /\ begun' = begun \cup {KeyOf(s) : s \in new}
    BY <1>1 DEF Poll
  <2>2. \A k : Settled(k) <=> Settled(k)'
    BY <1>1 DEF Poll, Settled, Waiting, outboxVars, serverVars, monitorVars
  <2>3. \A k \in begun' : Kept(k)'
    BY <2>1, <2>2 DEF LossInv, Kept, Open
  <2>4. MovingSettled'
    BY <1>1, <2>2 DEF Poll, LossInv, MovingSettled, monitorVars
  <2> QED
    BY <2>3, <2>4 DEF LossInv
<1>2. ASSUME NEW s \in alive, Heartbeat(s) PROVE LossInv'
  <2>1. \A k : Settled(k) => Settled(k)'
    BY <1>2 DEF Heartbeat, Settled, Waiting, outboxVars, serverVars
  <2>2. \A k : Open(k) => Open(k)'
    BY <1>2, HeartbeatRows DEF Open
  <2> QED
    BY <1>2, <2>1, <2>2, LossFrame DEF Heartbeat, watcherVars, Kept
<1>3. ASSUME NEW s \in toCheck, Enqueue(s) PROVE LossInv'
  <2>1. queue \subseteq queue' /\ Waiting(KeyOf(s))'
    BY <1>3 DEF Enqueue, InsertEntry, Waiting, outboxVars, KeyOf
  <2>2. \A k : Settled(k) => Settled(k)'
    BY <1>3, <2>1 DEF Enqueue, Settled, Waiting, serverVars
  <2>3. MovingSettled'
    BY <1>3, <2>1 DEF Enqueue, MovingSettled, Settled
  <2> QED
    BY <1>3, <2>2, <2>3 DEF Enqueue, LossInv, Kept, Open, watcherVars
<1>4. ASSUME NEW s \in toCheck, Discard(s) PROVE LossInv'
  <2>1. \A k : Settled(k) => Settled(k)'
    BY <1>4 DEF Discard, Settled, Waiting, outboxVars, serverVars
  <2>2. MovingSettled'
    BY <1>4 DEF Discard, MovingSettled, Settled
  <2> QED
    BY <1>4, <2>1, <2>2 DEF Discard, LossInv, Kept, Open, watcherVars
<1>5. ASSUME NEW s \in moving, DeleteSession(s) PROVE LossInv'
  <2>1. \A k : Settled(k) <=> Settled(k)'
    BY <1>5 DEF DeleteSession, Settled, Waiting, outboxVars, serverVars
  <2>2. \A r \in sessions : r.pid = s.pid => KeyOf(r) = KeyOf(s)
    BY DEF RowsInv, PidIsKey, SnapshotHeld
  <2>3. Settled(KeyOf(s))
    BY DEF LossInv, MovingSettled
  <2>4. \A k : Open(k) => Open(k)' \/ Settled(k)
    BY <1>5, <2>2, <2>3 DEF DeleteSession, Open
  <2> QED
    BY <1>5, <2>1, <2>4, LossFrame DEF DeleteSession, watcherVars, Kept
<1>6. ASSUME \A k : Settled(k) => Settled(k)',
             begun' = begun, sessions' = sessions, moving' \subseteq moving
      PROVE  LossInv'
  BY <1>6, LossFrame DEF Open, Kept
<1>7. ASSUME Server PROVE LossInv'
  <2>1. begun' = begun /\ sessions' = sessions /\ moving' = moving
    BY <1>7 DEF Server, Handle, HandleLate, watcherVars, monitorVars
  <2> QED
    BY <1>6, <1>7, <2>1, ServerSettled
<1>8. ASSUME NEW c \in call, ReplyOk(c) \/ ReplyTransient(c) PROVE LossInv'
  <2>1. begun' = begun /\ sessions' = sessions /\ moving' = moving
    BY <1>8 DEF ReplyOk, ReplyTransient, watcherVars, monitorVars
  <2> QED
    BY <1>6, <1>8, <2>1, OkSettled, TransientSettled
<1>9. ASSUME UNCHANGED <<queue, processed, dropped, begun, sessions>>,
             moving' \subseteq moving
      PROVE  LossInv'
  BY <1>6, <1>9 DEF Settled, Waiting
<1>10. ASSUME \/ Machine \/ StartCheck \/ Drain \/ Life \/ UNCHANGED vars
              \/ \E s \in toCheck : FoundAlive(s)
              \/ \E c \in call : ReplyRateLimited(c) \/ ReplyUnauthorized(c)
       PROVE  /\ UNCHANGED <<queue, processed, dropped, begun, sessions>>
              /\ moving' \subseteq moving
  BY <1>10 DEF Machine, Spawn, Exit, Tick, StartCheck, FoundAlive, Drain, StartDrain, Skip,
               Post, Life, SignOut, Crash, Quit, LoseMemory, Restart, vars,
               ReplyRateLimited, ReplyUnauthorized, watcherVars, monitorVars,
               outboxVars, serverVars
<1> QED
  BY <1>1, <1>2, <1>3, <1>4, <1>5, <1>7, <1>8, <1>9, <1>10
     DEF Next, Monitor, Reply

THEOREM IndInvInit == Init => IndInv
<1> SUFFICES ASSUME Init PROVE IndInv
  OBVIOUS
<1>1. TypeOK
  BY InitType
<1> QED
  BY <1>1 DEF Init, IndInv, NoSessionLost, PidIsKey, SnapshotHeld,
              MovingSettled, IdIsKey, Held, CallDone

THEOREM IndInvStep == IndInv /\ [Next]_vars => IndInv'
<1>1. IndInv <=> TypeOK /\ RowsInv /\ OutboxInv /\ LossInv
  BY LossInvSame DEF IndInv, RowsInv, OutboxInv
<1>2. IndInv' <=> TypeOK' /\ RowsInv' /\ OutboxInv' /\ LossInv'
  <2>1. LossInv' <=> NoSessionLost' /\ MovingSettled'
    BY DEF LossInv, Kept, Settled, NoSessionLost
  <2> QED
    BY <2>1 DEF IndInv, RowsInv, OutboxInv
<1> QED
  BY <1>1, <1>2, NextType, RowsStep, OutboxStep, LossStep

(* A session the watcher recorded is never lost: whatever the loops, crashes *)
(* and failed requests do, it is in a table, sent, or was too short.  Holds  *)
(* even when pids are reused and one game runs as several processes.         *)
THEOREM SessionsAreNotLost == Safety => []NoSessionLost
<1>1. IndInv => NoSessionLost
  BY DEF IndInv
<1> QED
  BY IndInvInit, IndInvStep, <1>1, PTL DEF Safety

--------------------------------------------------------------------------------
(* The pipeline takes only the steps SessionDelivery allows, whatever the     *)
(* constants; and what holds besides when pids are not reused.               *)

(* What the queue processor holds, and a request it gave up on, waits in the   *)
(* outbox unless the API has acted on it.                                    *)
Known(k) == Waiting(k) \/ processed[k] > 0

SentIsKnown ==
    /\ \A b \in Held : Known(KeyOf(b))
    /\ \A k \in late : Known(k)

LEMMA HeldKeys ==
    ASSUME TypeOK
    PROVE  /\ \A b \in Held : KeyOf(b) \in Key
           /\ \A s \in sessions \cup toCheck \cup alive \cup moving : KeyOf(s) \in Key
BY DEF TypeOK, Held, KeyOf, Entry, Session, Key

(* A key that is known stays known: an entry leaves the outbox only after the   *)
(* API has acted on it.                                                      *)
LEMMA KnownStays ==
    ASSUME IndInv, [Next]_vars, NEW k \in Key, Known(k)
    PROVE  Known(k)'
<1>1. ASSUME NEW c \in call, ReplyOk(c)
      PROVE  Known(k)'
  <2>1. \A q \in queue : q \in queue' \/ KeyOf(q) = KeyOf(c.row)
    BY <1>1 DEF ReplyOk, IndInv, IdIsKey, Held
  <2>2. processed[KeyOf(c.row)] > 0 /\ processed' = processed
    BY <1>1 DEF ReplyOk, IndInv, CallDone, serverVars
  <2>. QED BY <2>1, <2>2 DEF Known, Waiting
<1>2. ASSUME NEW c \in call, ReplyTransient(c)
      PROVE  Known(k)'
  <2>1. ASSUME NEW q \in queue
        PROVE  \E r \in queue' : KeyOf(r) = KeyOf(q)
    <3>. DEFINE Retried(r) == IF r.id = c.row.id
                              THEN [r EXCEPT !.attempts = NextAttempt(r.attempts)] ELSE r
    <3>1. queue' = {Retried(r) : r \in queue}
      BY <1>2 DEF ReplyTransient, AfterFailure
    <3>2. KeyOf(Retried(q)) = KeyOf(q)
      BY DEF KeyOf, IndInv, TypeOK, Entry
    <3>. QED BY <3>1, <3>2
  <2>. QED BY <1>2, <2>1 DEF ReplyTransient, Known, Waiting
<1>3. ASSUME NEW j \in Key, processed' = [processed EXCEPT ![j] = @ + 1], queue' = queue
      PROVE  Known(k)'
  BY <1>3 DEF Known, Waiting, IndInv, TypeOK
<1>4. ASSUME Server
      PROVE  Known(k)'
  <2>1. \A c \in call : KeyOf(c.row) \in Key
    BY HeldKeys DEF IndInv, Held
  <2>2. \A j \in late : j \in Key
    BY DEF IndInv, TypeOK
  <2>. QED BY <1>3, <1>4, <2>1, <2>2 DEF Server, Handle, HandleLate, outboxVars
<1>5. ASSUME queue \subseteq queue', processed' = processed
      PROVE  Known(k)'
  BY <1>5 DEF Known, Waiting
<1>6. ASSUME \/ Machine \/ (\E visible \in SUBSET Pid : Poll(visible)) \/ Drain \/ Life
             \/ \E c \in call : ReplyRateLimited(c) \/ ReplyUnauthorized(c)
             \/ UNCHANGED vars
      PROVE  queue \subseteq queue' /\ processed' = processed
  BY <1>6 DEF Machine, Spawn, Exit, Tick, Poll, Drain, StartDrain, Skip, Post, Life, SignOut,
              Crash, Quit, LoseMemory, Restart, ReplyRateLimited, ReplyUnauthorized,
              outboxVars, serverVars, vars
<1>7. ASSUME Monitor
      PROVE  queue \subseteq queue' /\ processed' = processed
  BY <1>7 DEF Monitor, StartCheck, FoundAlive, Visits, Heartbeat, Enqueue, InsertEntry, Discard, DeleteSession,
              outboxVars, serverVars
<1>. QED BY <1>1, <1>2, <1>4, <1>5, <1>6, <1>7 DEF Next, Reply

LEMMA SentStaysKnown ==
    ASSUME IndInv, SentIsKnown, [Next]_vars
    PROVE  SentIsKnown'
<1>1. \A b \in Held : Known(KeyOf(b))'
  BY KnownStays, HeldKeys DEF SentIsKnown, IndInv
<1>2. \A k \in late : Known(k)'
  BY KnownStays DEF SentIsKnown, IndInv, TypeOK
<1>3. \A q \in queue' : Known(KeyOf(q))'
  BY DEF Known, Waiting
<1>4. ASSUME batch' \cup {c.row : c \in call'} \subseteq Held
      PROVE  \A b \in Held' : Known(KeyOf(b))'
  <2>1. \A b \in Held' : b \in queue' \/ b \in Held
    BY <1>4 DEF Held
  <2>. QED BY <1>1, <1>3, <2>1 DEF KeyOf
<1>5. ASSUME NEW c \in call, Handle(c)
      PROVE  batch' \cup {d.row : d \in call'} \subseteq Held
  BY <1>5 DEF Handle, Held, IndInv, TypeOK
<1>6. ASSUME ~\E c \in call : Handle(c)
      PROVE  batch' \cup {c.row : c \in call'} \subseteq Held
  <2>1. CASE Drain
    <3>1. ASSUME StartDrain PROVE batch' \subseteq queue /\ call' = call
      BY <3>1 DEF StartDrain, Peek
    <3>2. ASSUME NEW b \in batch, Skip(b) \/ Post(b)
          PROVE  batch' \subseteq batch /\ \A c \in call' : c \in call \/ c.row = b
      BY <3>2 DEF Skip, Post
    <3>. QED BY <2>1, <3>1, <3>2 DEF Drain, Held
  <2>2. CASE Reply \/ Life \/ \E k \in late : HandleLate(k)
    <3>1. batch' \subseteq batch /\ call' \subseteq call
      BY <2>2 DEF Reply, ReplyOk, ReplyTransient, ReplyRateLimited, ReplyUnauthorized, Life,
                  SignOut, Crash, Quit, LoseMemory, Restart, HandleLate, drainVars
    <3>. QED BY <3>1 DEF Held
  <2>3. CASE \/ Machine \/ Monitor \/ UNCHANGED vars
             \/ \E visible \in SUBSET Pid : Poll(visible)
    BY <2>3 DEF Machine, Spawn, Exit, Tick, Monitor, StartCheck, FoundAlive, Visits, Heartbeat, Enqueue, Discard,
                DeleteSession, Poll, drainVars, vars, Held
  <2>. QED BY <1>6, <2>1, <2>2, <2>3 DEF Next, Server
<1>7. ASSUME NEW k \in late'
      PROVE  Known(k)'
  <2>1. Abandoned \subseteq {KeyOf(b) : b \in Held}
    BY DEF Abandoned, Held
  <2>2. late' \subseteq late \cup Abandoned
    <3>1. ASSUME Abandon PROVE late' \subseteq late \cup Abandoned
      BY <3>1 DEF Abandon
    <3>2. ASSUME Reply \/ Life PROVE Abandon \/ late' = late
      BY <3>2 DEF Reply, ReplyOk, ReplyTransient, ReplyRateLimited, ReplyUnauthorized, Life,
                  SignOut, Crash, Quit, LoseMemory, Restart, serverVars
    <3>3. ASSUME \/ Machine \/ Monitor \/ Drain \/ Server \/ UNCHANGED vars
                 \/ \E visible \in SUBSET Pid : Poll(visible)
          PROVE  late' \subseteq late
      BY <3>3 DEF Machine, Spawn, Exit, Tick, Monitor, StartCheck, FoundAlive, Visits, Heartbeat, Enqueue, Discard,
                  DeleteSession, Drain, StartDrain, Skip, Post, Server, Handle, HandleLate,
                  Poll, serverVars, vars
    <3>. QED BY <3>1, <3>2, <3>3 DEF Next
  <2>3. \A j \in Abandoned : Known(j)'
    BY <1>1, <2>1 DEF KeyOf
  <2>. QED BY <1>2, <1>7, <2>2, <2>3
<1>. QED BY <1>4, <1>5, <1>6, <1>7 DEF SentIsKnown

--------------------------------------------------------------------------------
(* The refinement mapping.                                                   *)

Status == [k \in Key |-> StatusOf(k)]

LEMMA NothingMoves ==
    ASSUME \A k \in Key : StatusOf(k)' = StatusOf(k)
    PROVE  Status' = Status
BY DEF Status

LEMMA OneMoves ==
    ASSUME NEW k \in Key, NEW status, StatusOf(k)' = status,
           \A j \in Key \ {k} : StatusOf(j)' = StatusOf(j)
    PROVE  Status' = [Status EXCEPT ![k] = status]
BY DEF Status

(* A status is read off what is known, what is open and what was dropped. *)
LEMMA StatusReads ==
    ASSUME NEW k, Known(k) <=> Known(k)', processed[k] > 0 <=> processed'[k] > 0,
           Known(k) \/ (Open(k) <=> Open(k)'),
           Known(k) \/ Open(k) \/ (k \in dropped <=> k \in dropped')
    PROVE  StatusOf(k)' = StatusOf(k)
BY DEF StatusOf, Known

(* Polls begin the sessions that have no status, or were dropped. *)
LEMMA PollBegins ==
    ASSUME IndInv, NEW visible \in SUBSET Pid, Poll(visible)
    PROVE  Delivery!Begin \/ Status' = Status
<1>1. /\ queue' = queue /\ processed' = processed /\ dropped' = dropped
      /\ sessions \subseteq sessions'
  BY DEF Poll, outboxVars, serverVars, monitorVars
<1>2. \A k \in Key : \/ StatusOf(k)' = StatusOf(k)
                     \/ StatusOf(k) \in {"none", "dropped"} /\ StatusOf(k)' = "open"
  BY <1>1 DEF StatusOf, Waiting, Open
<1>. DEFINE ks == {k \in Key : StatusOf(k)' # StatusOf(k)}
<1>3. CASE ks = {}
  BY <1>3, NothingMoves
<1>4. CASE ks # {}
  <2>1. Status' = [k \in Key |-> IF k \in ks THEN "open" ELSE Status[k]]
    BY <1>2 DEF Status
  <2>2. \A k \in ks : Status[k] \in {"none", "dropped"}
    BY <1>2 DEF Status
  <2>3. ks \in (SUBSET Key) \ {{}}
    BY <1>4
  <2>. HIDE DEF ks
  <2>. QED BY <2>1, <2>2, <2>3 DEF Delivery!Begin, Status
<1>. QED BY <1>3, <1>4

(* The session found dead and long enough is closed, unless it is known. *)
LEMMA EnqueueCloses ==
    ASSUME IndInv, NEW s \in toCheck, Enqueue(s)
    PROVE  (\E k \in Key : Delivery!Close(k)) \/ Status' = Status
<1>. DEFINE k == KeyOf(s)
<1>1. k \in Key /\ Open(k)
  BY HeldKeys DEF IndInv, SnapshotHeld, Open
<1>2. /\ processed' = processed /\ dropped' = dropped /\ sessions' = sessions
      /\ queue \subseteq queue' /\ Waiting(k)'
      /\ \A q \in queue' : q \in queue \/ KeyOf(q) = k
  <2>. DEFINE new == [id |-> nextId, exe |-> s.exe, started |-> s.started,
                      ended |-> EndOfSession(s), attempts |-> 0]
  <2>1. processed' = processed /\ dropped' = dropped /\ sessions' = sessions
    BY DEF Enqueue, serverVars
  <2>2. KeyOf(new) = k
    BY DEF KeyOf
  <2>3. \/ (\E q \in queue : KeyOf(q) = k) /\ queue' = queue
        \/ queue' = queue \cup {new}
    BY DEF Enqueue, InsertEntry, outboxVars
  <2>. HIDE DEF new, k
  <2>. QED BY <2>1, <2>2, <2>3 DEF Waiting
<1>. HIDE DEF k
<1>3. \A j \in Key \ {k} : StatusOf(j)' = StatusOf(j)
  BY <1>2 DEF StatusOf, Waiting, Open
<1>4. CASE Known(k)
  BY <1>2, <1>3, <1>4, NothingMoves DEF StatusOf, Known, Waiting, Open
<1>5. CASE ~Known(k)
  <2>1. StatusOf(k) = "open" /\ StatusOf(k)' = "waiting"
    BY <1>1, <1>2, <1>5 DEF StatusOf, Known
  <2>2. Status' = [Status EXCEPT ![k] = "waiting"]
    BY <1>1, <1>3, <2>1, OneMoves
  <2>. QED BY <1>1, <2>1, <2>2 DEF Delivery!Close, Status
<1>. QED BY <1>4, <1>5

(* The row's session goes on to what it was settled as. *)
LEMMA DeleteDrops ==
    ASSUME IndInv, NEW s \in moving, DeleteSession(s)
    PROVE  (\E k \in Key : Delivery!Drop(k)) \/ Status' = Status
<1>. DEFINE k == KeyOf(s)
<1>1. k \in Key /\ Open(k) /\ Settled(k)
  BY HeldKeys DEF IndInv, SnapshotHeld, Open, MovingSettled
<1>2. /\ queue' = queue /\ processed' = processed /\ dropped' = dropped
      /\ sessions' \subseteq sessions
      /\ \A r \in sessions : r \in sessions' \/ KeyOf(r) = k
  BY DEF DeleteSession, outboxVars, serverVars, IndInv, PidIsKey, SnapshotHeld
<1>. HIDE DEF k
<1>3. \A j \in Key \ {k} : StatusOf(j)' = StatusOf(j)
  BY <1>2 DEF StatusOf, Waiting, Open
<1>4. CASE Known(k) \/ Open(k)'
  <2>1. StatusOf(k)' = StatusOf(k)
    BY <1>1, <1>2, <1>4 DEF StatusOf, Known, Waiting
  <2>. QED BY <1>3, <2>1, NothingMoves
<1>5. CASE ~Known(k) /\ ~Open(k)'
  <2>1. StatusOf(k) = "open" /\ StatusOf(k)' = "dropped"
    BY <1>1, <1>2, <1>5 DEF StatusOf, Known, Settled, Waiting
  <2>2. Status' = [Status EXCEPT ![k] = "dropped"]
    BY <1>1, <1>3, <2>1, OneMoves
  <2>. QED BY <1>1, <2>1, <2>2 DEF Delivery!Drop, Status
<1>. QED BY <1>4, <1>5

(* The API delivers what waits; again, and it changes nothing. *)
LEMMA ServerDelivers ==
    ASSUME IndInv, SentIsKnown, Server
    PROVE  (\E k \in Key : Delivery!Deliver(k)) \/ Status' = Status
<1>1. ASSUME NEW k \in Key, Known(k), processed' = [processed EXCEPT ![k] = @ + 1],
             queue' = queue, sessions' = sessions, dropped' = dropped
      PROVE  (\E j \in Key : Delivery!Deliver(j)) \/ Status' = Status
  <2>1. processed[k] \in Nat /\ processed'[k] > 0
        /\ \A j \in Key \ {k} : processed'[j] = processed[j]
    BY <1>1 DEF IndInv, TypeOK
  <2>2. \A j \in Key \ {k} : StatusOf(j)' = StatusOf(j)
    BY <1>1, <2>1 DEF StatusOf, Waiting, Open
  <2>3. StatusOf(k)' = "delivered"
    BY <2>1 DEF StatusOf
  <2>4. StatusOf(k) \in {"waiting", "delivered"}
    BY <1>1 DEF StatusOf, Known
  <2>5. CASE StatusOf(k) = "delivered"
    BY <2>2, <2>3, <2>5, NothingMoves
  <2>6. CASE StatusOf(k) = "waiting"
    <3>1. Status' = [Status EXCEPT ![k] = "delivered"]
      BY <2>2, <2>3, OneMoves
    <3>. QED BY <2>6, <3>1 DEF Delivery!Deliver, Status
  <2>. QED BY <2>4, <2>5, <2>6
<1>2. ASSUME NEW c \in call, Handle(c)
      PROVE  (\E k \in Key : Delivery!Deliver(k)) \/ Status' = Status
  <2>1. KeyOf(c.row) \in Key /\ Known(KeyOf(c.row))
    BY HeldKeys DEF IndInv, SentIsKnown, Held
  <2>. QED BY <1>1, <1>2, <2>1 DEF Handle, outboxVars, monitorVars
<1>3. ASSUME NEW k \in late, HandleLate(k)
      PROVE  (\E j \in Key : Delivery!Deliver(j)) \/ Status' = Status
  BY <1>1, <1>3 DEF HandleLate, IndInv, TypeOK, SentIsKnown, outboxVars, monitorVars
<1>. QED BY <1>2, <1>3 DEF Server

(* Every other step leaves every status as it is. *)
LEMMA OthersKeepStatus ==
    ASSUME IndInv, [Next]_vars, ~Server, \A visible \in SUBSET Pid : ~Poll(visible),
           \A s \in toCheck : ~Enqueue(s), \A s \in moving : ~DeleteSession(s)
    PROVE  Status' = Status
<1>1. ASSUME NEW s \in alive, Heartbeat(s)
      PROVE  Status' = Status
  <2>1. \A k : Open(k) <=> Open(k)'
    BY <1>1, HeartbeatRows DEF Open, IndInv
  <2>2. queue' = queue /\ processed' = processed /\ dropped' = dropped
    BY <1>1 DEF Heartbeat, outboxVars, serverVars
  <2>. QED BY <2>1, <2>2, NothingMoves DEF StatusOf, Waiting
<1>2. ASSUME NEW s \in toCheck, Discard(s)
      PROVE  Status' = Status
  <2>1. Open(KeyOf(s))
    BY DEF IndInv, SnapshotHeld, Open
  <2>2. /\ queue' = queue /\ processed' = processed /\ sessions' = sessions
        /\ dropped' = dropped \cup {KeyOf(s)}
    BY <1>2 DEF Discard, outboxVars, serverVars
  <2>3. \A k \in Key : StatusOf(k)' = StatusOf(k)
    BY <2>1, <2>2 DEF StatusOf, Waiting, Open
  <2>. QED BY <2>3, NothingMoves
<1>3. ASSUME NEW c \in call, ReplyOk(c)
      PROVE  Status' = Status
  <2>1. /\ processed' = processed /\ sessions' = sessions /\ dropped' = dropped
        /\ queue' \subseteq queue
    BY <1>3 DEF ReplyOk, serverVars, monitorVars
  <2>2. \A q \in queue : q \in queue' \/ processed[KeyOf(q)] > 0
    BY <1>3 DEF ReplyOk, IndInv, IdIsKey, Held, CallDone
  <2>3. \A k \in Key : StatusOf(k)' = StatusOf(k)
    BY <2>1, <2>2 DEF StatusOf, Waiting, Open
  <2>. QED BY <2>3, NothingMoves
<1>4. ASSUME NEW c \in call, ReplyTransient(c)
      PROVE  Status' = Status
  <2>. DEFINE Retried(r) == IF r.id = c.row.id
                            THEN [r EXCEPT !.attempts = NextAttempt(r.attempts)] ELSE r
  <2>1. queue' = {Retried(r) : r \in queue}
    BY <1>4 DEF ReplyTransient, AfterFailure
  <2>2. \A r \in queue : KeyOf(Retried(r)) = KeyOf(r)
    BY DEF KeyOf, IndInv, TypeOK, Entry
  <2>. HIDE DEF Retried
  <2>3. \A k : Waiting(k) <=> Waiting(k)'
    BY <2>1, <2>2 DEF Waiting
  <2>. QED BY <1>4, <2>3, NothingMoves DEF ReplyTransient, monitorVars, StatusOf, Open
<1>5. ASSUME UNCHANGED <<queue, processed, sessions, dropped>>
      PROVE  Status' = Status
  BY <1>5, NothingMoves DEF StatusOf, Waiting, Open
<1>6. ASSUME \/ Machine \/ StartCheck \/ Drain \/ Life \/ UNCHANGED vars
             \/ \E s \in toCheck : FoundAlive(s)
             \/ \E c \in call : ReplyRateLimited(c) \/ ReplyUnauthorized(c)
      PROVE  UNCHANGED <<queue, processed, sessions, dropped>>
  BY <1>6 DEF Machine, Spawn, Exit, Tick, StartCheck, FoundAlive, Drain, StartDrain, Skip, Post,
              Life, SignOut, Crash, Quit, LoseMemory, Restart, ReplyRateLimited, ReplyUnauthorized,
              outboxVars, monitorVars, serverVars, vars
<1>. QED BY <1>1, <1>2, <1>3, <1>4, <1>5, <1>6 DEF Next, Monitor, Reply

(* The pipeline's state, read by the mapping of AgentOutbox, starts and moves   *)
(* as SessionDelivery allows: a session goes from its row to the outbox to    *)
(* the API, or is dropped, and never back; for any processes, games and       *)
(* failures, with pids reused and several processes of a game.               *)
THEOREM PipelineImplementsDelivery == Safety => Delivery!Safety
<1>. DEFINE IInv == IndInv /\ SentIsKnown
<1>1. Init => IInv /\ Delivery!Init
  <2>. SUFFICES ASSUME Init PROVE IInv /\ Delivery!Init
    OBVIOUS
  <2>1. SentIsKnown
    BY DEF Init, SentIsKnown, Held
  <2>2. \A k \in Key : StatusOf(k) = "none"
    BY DEF Init, StatusOf, Waiting, Open
  <2>. QED BY <2>1, <2>2, IndInvInit DEF Delivery!Init
<1>2. IInv /\ [Next]_vars => IInv'
  BY IndInvStep, SentStaysKnown
<1>3. IInv /\ [Next]_vars => Delivery!Next \/ Status' = Status
  <2>. SUFFICES ASSUME IInv, [Next]_vars PROVE Delivery!Next \/ Status' = Status
    OBVIOUS
  <2>. QED BY PollBegins, EnqueueCloses, DeleteDrops, ServerDelivers, OthersKeepStatus
           DEF Delivery!Next
<1>4. (Delivery!Next \/ Status' = Status) => [Delivery!Next]_([k \in Key |-> StatusOf(k)])
  BY DEF Status
<1>. QED BY <1>1, <1>2, <1>3, <1>4, PTL DEF Safety, Delivery!Safety

--------------------------------------------------------------------------------
(* What holds besides when a pid is never given to another process.          *)

(* A row tells when its process was running last: its game, at a time not     *)
(* after it exited.                                                          *)
PlayedBy(row, end) ==
    /\ proc[row.pid].state \in {"running", "exited"} /\ proc[row.pid].exe = row.exe
    /\ proc[row.pid].since <= row.started
    /\ end <= now
    /\ proc[row.pid].state = "exited" => end <= proc[row.pid].at \/ KeyOf(row) \in overshot

(* Whoever was found alive still runs, or exited before the stamp; whoever    *)
(* was taken for dead does not run, or was misread.                          *)
RowsWerePlayed ==
    /\ \A s \in sessions \cup toCheck \cup alive \cup moving : PlayedBy(s, s.last)
    /\ \A s \in alive : Running(s.pid) \/ KeyOf(s) \in overshot
    /\ \A s \in moving : Running(s.pid) => s.pid \in misread

(* Processes were started, and what waits ended, in the past. *)
TimesArePast ==
    /\ \A p \in Pid : proc[p].state # "none" => proc[p].since <= now
    /\ \A q \in queue : q.ended <= now

(* A process that the watcher believes recorded was started, and has its row  *)
(* unless it was misread.                                                    *)
SeenHaveRows ==
    \A p \in seen : /\ proc[p].state # "none"
                    /\ Running(p) => p \in misread \/ \E s \in sessions : s.pid = p

Played == RowsWerePlayed /\ TimesArePast /\ RecordedTimeWasPlayed /\ SeenHaveRows

LEMMA ClockSteps ==
    ASSUME [Next]_vars
    PROVE  now' \in {now, now + 1}
<1>1. CASE \/ Machine \/ (\E visible \in SUBSET Pid : Poll(visible)) \/ Monitor \/ Drain
           \/ Server \/ UNCHANGED vars
  BY <1>1 DEF Machine, Spawn, Exit, Tick, Poll, Monitor, StartCheck, FoundAlive, Heartbeat, Enqueue,
              Discard, DeleteSession, Drain, StartDrain, Skip, Post, Server, Handle,
              HandleLate, vars, clockVars
<1>2. CASE Reply \/ Life
  BY <1>2 DEF Reply, ReplyOk, ReplyTransient, ReplyRateLimited, ReplyUnauthorized, Life,
              SignOut, Crash, Quit, LoseMemory, Restart, clockVars
<1>. QED BY <1>1, <1>2 DEF Next

(* A process goes on as it is, or exits now. *)
LEMMA ProcessesEnd ==
    ASSUME TypeOK, ~ReusePids, [Next]_vars, NEW p \in Pid, proc[p].state # "none"
    PROVE  /\ now \in Nat /\ now' \in Nat /\ now <= now'
           /\ \/ proc'[p] = proc[p]
              \/ /\ proc[p].state = "running"
                 /\ proc'[p] = [state |-> "exited", exe |-> proc[p].exe,
                                since |-> proc[p].since, at |-> now]
<1>1. ASSUME NEW q \in Pid, NEW x \in Exe, Spawn(q, x)
      PROVE  proc'[p] = proc[p] /\ now' = now
  BY <1>1 DEF Spawn, TypeOK
<1>2. ASSUME NEW q \in Pid, Exit(q)
      PROVE  /\ now' = now
             /\ \/ proc'[p] = proc[p]
                \/ /\ proc[p].state = "running"
                   /\ proc'[p] = [state |-> "exited", exe |-> proc[p].exe,
                                  since |-> proc[p].since, at |-> now]
  BY <1>2 DEF Exit, Running, TypeOK
<1>3. ASSUME Tick
      PROVE  proc' = proc /\ now' = now + 1
  BY <1>3 DEF Tick
<1>4. ASSUME \/ (\E visible \in SUBSET Pid : Poll(visible)) \/ Monitor \/ Drain
             \/ Server \/ UNCHANGED vars
      PROVE  proc' = proc /\ now' = now
  BY <1>4 DEF Poll, Monitor, StartCheck, FoundAlive, Visits, Heartbeat, Enqueue, Discard, DeleteSession, Drain,
              StartDrain, Skip, Post, Server, Handle, HandleLate, vars, clockVars
<1>5. ASSUME Reply \/ Life
      PROVE  proc' = proc /\ now' = now
  BY <1>5 DEF Reply, ReplyOk, ReplyTransient, ReplyRateLimited, ReplyUnauthorized, Life, SignOut,
              Crash, Quit, LoseMemory, Restart, clockVars
<1>6. now \in Nat
  BY ConstantsAssumption DEF TypeOK, Time
<1>. QED BY <1>1, <1>2, <1>3, <1>4, <1>5, <1>6 DEF Next, Machine

(* An excuse once given stays. *)
LEMMA OvershotStays ==
    ASSUME [Next]_vars
    PROVE  overshot \subseteq overshot'
<1>1. CASE \/ Machine \/ Monitor \/ Drain \/ Server \/ UNCHANGED vars
           \/ \E visible \in SUBSET Pid : Poll(visible)
  BY <1>1 DEF Machine, Spawn, Exit, Tick, Poll, Monitor, StartCheck, FoundAlive, Heartbeat, Enqueue,
              Discard, DeleteSession, Drain, StartDrain, Skip, Post, Server, Handle, HandleLate,
              vars, excuseVars
<1>2. CASE Reply \/ Life
  BY <1>2 DEF Reply, ReplyOk, ReplyTransient, ReplyRateLimited, ReplyUnauthorized, Life, SignOut,
              Crash, Quit, LoseMemory, Restart, excuseVars
<1>. QED BY <1>1, <1>2 DEF Next

LEMMA PlayedStays ==
    ASSUME TypeOK, ~ReusePids, [Next]_vars, NEW row, row.pid \in Pid, NEW end \in Nat,
           PlayedBy(row, end)
    PROVE  PlayedBy(row, end)'
<1>. DEFINE p == row.pid
<1>1. /\ p \in Pid /\ proc[p].state \in {"running", "exited"} /\ proc[p].exe = row.exe
      /\ proc[p].since <= row.started /\ end <= now
  BY DEF PlayedBy
<1>2. now \in Nat /\ now' \in Nat /\ now <= now'
  BY <1>1, ProcessesEnd
<1>3. \/ proc'[p] = proc[p]
      \/ proc'[p] = [state |-> "exited", exe |-> proc[p].exe, since |-> proc[p].since, at |-> now]
  BY <1>1, ProcessesEnd
<1>4. KeyOf(row) \in overshot => KeyOf(row) \in overshot'
  BY OvershotStays
<1>. QED BY <1>1, <1>2, <1>3, <1>4 DEF PlayedBy, KeyOf

LEMMA RowTypes ==
    ASSUME TypeOK
    PROVE  \A s \in sessions \cup toCheck \cup alive \cup moving : s.pid \in Pid /\ s.last \in Nat
BY ConstantsAssumption DEF TypeOK, Session, Time

(* Rows are read again, or written of a process that is running, or was when   *)
(* it was looked at.                                                         *)
LEMMA RowsComeFrom ==
    ASSUME TypeOK, RowsInv, ~ReusePids, RowsWerePlayed, TimesArePast, [Next]_vars,
           NEW r \in sessions' \cup toCheck' \cup alive' \cup moving'
    PROVE  r \in sessions \cup toCheck \cup alive \cup moving \/ PlayedBy(r, r.last)'
<1>0. now \in Nat
  BY ConstantsAssumption DEF TypeOK, Time
<1>1. ASSUME NEW visible \in SUBSET Pid, Poll(visible)
      PROVE  r \in sessions \cup toCheck \cup alive \cup moving \/ PlayedBy(r, r.last)'
  <2>1. ASSUME r \in NewRows(visible \ seen)
        PROVE  r.pid \in visible /\ r.exe = proc[r.pid].exe /\ r.started = now /\ r.last = now
    BY <2>1 DEF NewRows
  <2>. QED BY <1>0, <1>1, <2>1 DEF Poll, Running, PlayedBy, TimesArePast, clockVars, monitorVars
<1>2. ASSUME NEW s \in alive, Heartbeat(s)
      PROVE  r \in sessions \cup toCheck \cup alive \cup moving \/ PlayedBy(r, r.last)'
  <2>1. CASE r \in toCheck' \cup alive' \cup moving'
    BY <1>2, <2>1 DEF Heartbeat
  <2>2. CASE r \in sessions'
    <3>1. PICK t \in sessions : r = IF t.pid = s.pid THEN [t EXCEPT !.last = now] ELSE t
      BY <1>2, <2>2 DEF Heartbeat
    <3>2. CASE t.pid # s.pid
      BY <3>1, <3>2
    <3>3. CASE t.pid = s.pid
      <4>1. /\ r.pid = t.pid /\ r.exe = t.exe /\ r.started = t.started /\ r.last = now
            /\ KeyOf(r) = KeyOf(t)
        BY <3>1, <3>3 DEF TypeOK, Session, KeyOf
      <4>2. PlayedBy(t, t.last)
        BY DEF RowsWerePlayed
      <4>3. KeyOf(t) = KeyOf(s)
        BY <3>3 DEF RowsInv, SnapshotHeld, PidIsKey
      <4>4. Running(t.pid) \/ KeyOf(r) \in overshot
        BY <3>3, <4>1, <4>3 DEF RowsWerePlayed
      <4>5. proc' = proc /\ now' = now /\ overshot' = overshot
        BY <1>2 DEF Heartbeat, clockVars, excuseVars
      <4>. QED BY <1>0, <4>1, <4>2, <4>4, <4>5 DEF PlayedBy, Running, KeyOf
    <3>. QED BY <3>2, <3>3
  <2>. QED BY <2>1, <2>2
<1>3. ASSUME \/ Machine \/ StartCheck \/ Drain \/ Server \/ Reply \/ Life \/ UNCHANGED vars
             \/ \E s \in toCheck : FoundAlive(s) \/ Enqueue(s) \/ Discard(s)
             \/ \E s \in moving : DeleteSession(s)
      PROVE  r \in sessions \cup toCheck \cup alive \cup moving
  <2>1. CASE Machine \/ Drain \/ Server \/ UNCHANGED vars
    BY <2>1 DEF Machine, Spawn, Exit, Tick, Drain, StartDrain, Skip, Post, Server, Handle,
                HandleLate, monitorVars, vars
  <2>2. CASE Reply \/ Life
    BY <2>2 DEF Reply, ReplyOk, ReplyTransient, ReplyRateLimited, ReplyUnauthorized, Life,
                SignOut, Crash, Quit, LoseMemory, Restart, monitorVars
  <2>3. CASE \/ StartCheck \/ (\E s \in toCheck : FoundAlive(s) \/ Enqueue(s) \/ Discard(s))
             \/ \E s \in moving : DeleteSession(s)
    BY <2>3 DEF StartCheck, FoundAlive, Enqueue, Discard, Visits, DeleteSession
  <2>. QED BY <1>3, <2>1, <2>2, <2>3
<1>. QED BY <1>1, <1>2, <1>3 DEF Next, Monitor

(* A row found alive is that of a running process, until that exits. *)
LEMMA AliveStays ==
    ASSUME TypeOK, ~ReusePids, RowsWerePlayed, [Next]_vars, NEW s \in alive'
    PROVE  (Running(s.pid) \/ KeyOf(s) \in overshot)'
<1>1. CASE s \in alive /\ KeyOf(s) \in overshot
  BY <1>1, OvershotStays DEF KeyOf
<1>2. CASE s \in alive /\ Running(s.pid)
  <2>1. ASSUME NEW p \in Pid, Exit(p)
        PROVE  s.pid = p => KeyOf(s) \in overshot'
    BY <1>2, <2>1 DEF Exit
  <2>2. ASSUME NEW p \in Pid, Exit(p), s.pid # p
        PROVE  proc'[s.pid] = proc[s.pid]
    BY <1>2, <2>2, RowTypes DEF Exit, TypeOK
  <2>3. ASSUME \A p \in Pid : ~Exit(p)
        PROVE  proc'[s.pid] = proc[s.pid]
    <3>1. ASSUME NEW p \in Pid, NEW x \in Exe, Spawn(p, x)
          PROVE  proc'[s.pid] = proc[s.pid]
      BY <1>2, <3>1, RowTypes DEF Spawn, Running, TypeOK
    <3>2. CASE Tick \/ Drain \/ Server \/ UNCHANGED vars \/ (\E visible \in SUBSET Pid : Poll(visible))
      BY <3>2 DEF Tick, Poll, Drain, StartDrain, Skip, Post, Server, Handle, HandleLate, vars,
                  clockVars
    <3>3. CASE Monitor
      BY <3>3 DEF Monitor, StartCheck, FoundAlive, Heartbeat, Enqueue, Discard, DeleteSession,
                  clockVars
    <3>4. CASE Reply \/ Life
      BY <3>4 DEF Reply, ReplyOk, ReplyTransient, ReplyRateLimited, ReplyUnauthorized, Life,
                  SignOut, Crash, Quit, LoseMemory, Restart, clockVars
    <3>. QED BY <2>3, <3>1, <3>2, <3>3, <3>4 DEF Next, Machine
  <2>. QED BY <1>2, <2>1, <2>2, <2>3 DEF Running, KeyOf
<1>3. CASE s \notin alive
  <2>1. ASSUME NEW r \in toCheck, FoundAlive(r)
        PROVE  Running(s.pid)'
    BY <1>3, <2>1 DEF FoundAlive, Running, clockVars
  <2>2. ASSUME \A r \in toCheck : ~FoundAlive(r)
        PROVE  alive' \subseteq alive
    <3>1. CASE Machine \/ Drain \/ Server \/ UNCHANGED vars \/ \E visible \in SUBSET Pid : Poll(visible)
      BY <3>1 DEF Machine, Spawn, Exit, Tick, Drain, StartDrain, Skip, Post, Server, Handle,
                  HandleLate, Poll, monitorVars, vars
    <3>2. CASE Reply \/ Life
      BY <3>2 DEF Reply, ReplyOk, ReplyTransient, ReplyRateLimited, ReplyUnauthorized, Life,
                  SignOut, Crash, Quit, LoseMemory, Restart, monitorVars
    <3>3. CASE Monitor
      BY <2>2, <3>3 DEF Monitor, StartCheck, Heartbeat, Enqueue, Discard, DeleteSession
    <3>. QED BY <3>1, <3>2, <3>3 DEF Next
  <2>. QED BY <1>3, <2>1, <2>2
<1>. QED BY <1>1, <1>2, <1>3 DEF RowsWerePlayed

(* A row taken for dead is that of a process that is gone, or was misread. *)
LEMMA MovingStays ==
    ASSUME TypeOK, ~ReusePids, RowsWerePlayed, [Next]_vars, NEW s \in moving', Running(s.pid)'
    PROVE  s.pid \in misread'
<1>1. ASSUME s \in moving, s.pid \in misread => s.pid \in misread'
      PROVE  s.pid \in misread'
  <2>1. s.pid \in Pid /\ proc[s.pid].state # "none"
    BY <1>1, RowTypes DEF RowsWerePlayed, PlayedBy
  <2>2. Running(s.pid)
    BY <2>1, ProcessesEnd DEF Running
  <2>. QED BY <1>1, <2>2 DEF RowsWerePlayed
<1>2. CASE Machine \/ Drain \/ Server \/ UNCHANGED vars
  BY <1>1, <1>2 DEF Machine, Spawn, Exit, Tick, Drain, StartDrain, Skip, Post, Server, Handle,
                    HandleLate, monitorVars, excuseVars, vars
<1>3. CASE Reply \/ Life
  BY <1>1, <1>3 DEF Reply, ReplyOk, ReplyTransient, ReplyRateLimited, ReplyUnauthorized, Life,
                    SignOut, Crash, Quit, LoseMemory, Restart, monitorVars, excuseVars
<1>4. ASSUME NEW visible \in SUBSET Pid, Poll(visible)
      PROVE  s.pid \in misread'
  BY <1>1, <1>4 DEF Poll, monitorVars
<1>5. ASSUME NEW r \in toCheck, Enqueue(r) \/ Discard(r)
      PROVE  s.pid \in misread'
  BY <1>5 DEF Enqueue, Discard, TakenForDead, Running, clockVars
<1>6. CASE \/ StartCheck \/ (\E r \in toCheck : FoundAlive(r)) \/ (\E r \in alive : Heartbeat(r))
           \/ \E r \in moving : DeleteSession(r)
  BY <1>1, <1>6 DEF StartCheck, FoundAlive, Heartbeat, DeleteSession, excuseVars
<1>. QED BY <1>2, <1>3, <1>4, <1>5, <1>6 DEF Next, Monitor

LEMMA RowsStayPlayed ==
    ASSUME TypeOK, RowsInv, ~ReusePids, RowsWerePlayed, TimesArePast, [Next]_vars
    PROVE  RowsWerePlayed'
<1>1. ASSUME NEW s \in sessions' \cup toCheck' \cup alive' \cup moving'
      PROVE  PlayedBy(s, s.last)'
  BY RowsComeFrom, RowTypes, PlayedStays DEF RowsWerePlayed
<1>. QED BY <1>1, AliveStays, MovingStays DEF RowsWerePlayed

(* An entry is one of before, or of a row taken for dead. *)
LEMMA EntriesComeFrom ==
    ASSUME TypeOK, [Next]_vars, NEW q \in queue'
    PROVE  \/ \E e \in queue : e.exe = q.exe /\ e.started = q.started /\ e.ended = q.ended
           \/ \E s \in toCheck : s.exe = q.exe /\ s.started = q.started /\ s.last = q.ended
<1>1. ASSUME NEW s \in toCheck, Enqueue(s)
      PROVE  q \in queue \/ (s.exe = q.exe /\ s.started = q.started /\ s.last = q.ended)
  BY <1>1 DEF Enqueue, InsertEntry, EndOfSession, outboxVars
<1>2. ASSUME NEW c \in call, ReplyTransient(c)
      PROVE  \E e \in queue : e.exe = q.exe /\ e.started = q.started /\ e.ended = q.ended
  <2>1. PICK e \in queue : q = IF e.id = c.row.id
                               THEN [e EXCEPT !.attempts = NextAttempt(e.attempts)] ELSE e
    BY <1>2 DEF ReplyTransient, AfterFailure
  <2>. QED BY <2>1 DEF TypeOK, Entry
<1>3. ASSUME \/ Machine \/ StartCheck \/ Drain \/ Server \/ Life \/ UNCHANGED vars
             \/ \E visible \in SUBSET Pid : Poll(visible)
      PROVE  q \in queue
  BY <1>3 DEF Machine, Spawn, Exit, Tick, StartCheck, Drain, StartDrain, Skip, Post, Server,
              Handle, HandleLate, Life, SignOut, Crash, Quit, LoseMemory, Restart, Poll,
              outboxVars, vars
<1>4. ASSUME \/ \E s \in toCheck : FoundAlive(s) \/ Discard(s)
             \/ \E s \in alive : Heartbeat(s)
             \/ \E s \in moving : DeleteSession(s)
             \/ \E c \in call : ReplyOk(c) \/ ReplyRateLimited(c) \/ ReplyUnauthorized(c)
      PROVE  q \in queue
  BY <1>4 DEF FoundAlive, Heartbeat, Discard, DeleteSession, ReplyOk, ReplyRateLimited, ReplyUnauthorized,
              outboxVars
<1>. QED BY <1>1, <1>2, <1>3, <1>4 DEF Next, Monitor, Reply

LEMMA TimesStayPast ==
    ASSUME TypeOK, ~ReusePids, RowsWerePlayed, TimesArePast, [Next]_vars
    PROVE  TimesArePast'
<1>0. now \in Nat /\ now' \in Nat /\ now <= now'
  <2>1. now' \in {now, now + 1}
    BY ClockSteps
  <2>. QED BY <2>1, ConstantsAssumption DEF TypeOK, Time
<1>1. ASSUME NEW p \in Pid, proc'[p].state # "none"
      PROVE  proc'[p].since <= now'
  <2>1. CASE proc[p].state # "none"
    <3>1. proc'[p].since = proc[p].since
      <4>1. \/ proc'[p] = proc[p]
            \/ proc'[p] = [state |-> "exited", exe |-> proc[p].exe,
                           since |-> proc[p].since, at |-> now]
        BY <2>1, ProcessesEnd
      <4>. QED BY <4>1
    <3>2. proc[p].since \in Nat
      BY <2>1, ConstantsAssumption DEF TypeOK, Process, NoProcess, Time
    <3>. QED BY <1>0, <2>1, <3>1, <3>2 DEF TimesArePast
  <2>2. CASE proc[p].state = "none"
    <3>1. ASSUME NEW o \in Pid, NEW x \in Exe, Spawn(o, x)
          PROVE  proc'[p].since <= now'
      BY <1>0, <1>1, <2>2, <3>1 DEF Spawn, TypeOK
    <3>2. ASSUME NEW o \in Pid, Exit(o)
          PROVE  proc'[p] = proc[p]
      BY <2>2, <3>2 DEF Exit, Running, TypeOK
    <3>3. CASE Tick \/ Drain \/ Server \/ UNCHANGED vars \/ (\E visible \in SUBSET Pid : Poll(visible))
      BY <1>1, <2>2, <3>3 DEF Tick, Poll, Drain, StartDrain, Skip, Post, Server, Handle, HandleLate,
                  vars, clockVars
    <3>4. CASE Monitor
      BY <1>1, <2>2, <3>4 DEF Monitor, StartCheck, FoundAlive, Heartbeat, Enqueue, Discard,
                              DeleteSession, clockVars
    <3>5. CASE Reply \/ Life
      BY <1>1, <2>2, <3>5 DEF Reply, ReplyOk, ReplyTransient, ReplyRateLimited, ReplyUnauthorized,
                  Life, SignOut, Crash, Quit, LoseMemory, Restart, clockVars
    <3>. QED BY <1>1, <2>2, <3>1, <3>2, <3>3, <3>4, <3>5 DEF Next, Machine
  <2>. QED BY <2>1, <2>2
<1>2. ASSUME NEW q \in queue'
      PROVE  q.ended <= now'
  <2>1. ASSUME NEW e \in queue, e.ended = q.ended
        PROVE  q.ended \in Nat /\ q.ended <= now
    BY <2>1, ConstantsAssumption DEF TypeOK, Entry, Time, TimesArePast
  <2>2. ASSUME NEW r \in toCheck, r.last = q.ended
        PROVE  q.ended \in Nat /\ q.ended <= now
    BY <2>2, RowTypes DEF RowsWerePlayed, PlayedBy
  <2>. QED BY <1>0, <2>1, <2>2, EntriesComeFrom
<1>. QED BY <1>1, <1>2 DEF TimesArePast

LEMMA RecordedStaysPlayed ==
    ASSUME TypeOK, ~ReusePids, RowsWerePlayed, TimesArePast, RecordedTimeWasPlayed, [Next]_vars
    PROVE  RecordedTimeWasPlayed'
<1>. DEFINE PlayedOn(p, x, from, to) ==
        /\ proc[p].state # "none" /\ proc[p].exe = x /\ proc[p].since <= from
        /\ proc[p].state = "exited" => proc[p].at >= to
<1>1. ASSUME NEW p \in Pid, NEW x, NEW from, NEW to \in Nat, to <= now, PlayedOn(p, x, from, to)
      PROVE  /\ proc'[p].state # "none" /\ proc'[p].exe = x /\ proc'[p].since <= from
             /\ proc'[p].state = "exited" => proc'[p].at >= to
  <2>1. now \in Nat
    BY ConstantsAssumption DEF TypeOK, Time
  <2>2. \/ proc'[p] = proc[p]
        \/ /\ proc[p].state = "running"
           /\ proc'[p] = [state |-> "exited", exe |-> proc[p].exe,
                          since |-> proc[p].since, at |-> now]
    BY <1>1, ProcessesEnd
  <2>3. CASE proc'[p] = proc[p]
    BY <1>1, <2>3
  <2>4. CASE proc'[p] = [state |-> "exited", exe |-> proc[p].exe,
                         since |-> proc[p].since, at |-> now]
    BY <1>1, <2>1, <2>4
  <2>. QED BY <2>2, <2>3, <2>4
<1>2. ASSUME NEW q \in queue', KeyOf(q) \notin overshot'
      PROVE  \E p \in Pid : /\ proc'[p].state # "none" /\ proc'[p].exe = q.exe
                            /\ proc'[p].since <= q.started
                            /\ proc'[p].state = "exited" => proc'[p].at >= q.ended
  <2>0. KeyOf(q) \notin overshot
    BY <1>2, OvershotStays
  <2>1. ASSUME NEW s \in toCheck, s.exe = q.exe, s.started = q.started, s.last = q.ended
        PROVE  s.pid \in Pid /\ q.ended \in Nat /\ q.ended <= now
               /\ PlayedOn(s.pid, q.exe, q.started, q.ended)
    <3>1. s.pid \in Pid /\ s.last \in Nat /\ PlayedBy(s, s.last) /\ KeyOf(s) = KeyOf(q)
      BY <2>1, RowTypes DEF RowsWerePlayed, KeyOf
    <3>2. proc[s.pid].state = "exited" => proc[s.pid].at \in Nat
      BY <3>1, ConstantsAssumption DEF TypeOK, Process, NoProcess, Time
    <3>. QED BY <2>0, <2>1, <3>1, <3>2 DEF PlayedBy
  <2>2. ASSUME NEW e \in queue, e.exe = q.exe, e.started = q.started, e.ended = q.ended
        PROVE  /\ q.ended \in Nat /\ q.ended <= now
               /\ \E p \in Pid : PlayedOn(p, q.exe, q.started, q.ended)
    <3>1. KeyOf(e) = KeyOf(q)
      BY <2>2 DEF KeyOf
    <3>2. e.ended \in Nat
      BY ConstantsAssumption DEF TypeOK, Entry, Time
    <3>. QED BY <2>0, <2>2, <3>1, <3>2 DEF RecordedTimeWasPlayed, TimesArePast
  <2>3. /\ q.ended \in Nat /\ q.ended <= now
        /\ \E p \in Pid : PlayedOn(p, q.exe, q.started, q.ended)
    BY <2>1, <2>2, EntriesComeFrom
  <2>. HIDE DEF PlayedOn
  <2>. QED BY <2>3, <1>1
<1>. QED BY <1>2 DEF RecordedTimeWasPlayed, KeyOf

LEMMA SeenStayRows ==
    ASSUME TypeOK, ~ReusePids, RowsWerePlayed, SeenHaveRows, [Next]_vars
    PROVE  SeenHaveRows'
<1>1. ASSUME NEW p \in Pid, proc[p].state # "none"
      PROVE  proc'[p].state # "none" /\ (Running(p)' => Running(p))
  <2>1. \/ proc'[p] = proc[p]
        \/ proc[p].state = "running" /\ proc'[p].state = "exited"
    <3>1. \/ proc'[p] = proc[p]
          \/ /\ proc[p].state = "running"
             /\ proc'[p] = [state |-> "exited", exe |-> proc[p].exe,
                            since |-> proc[p].since, at |-> now]
      BY <1>1, ProcessesEnd
    <3>. QED BY <3>1
  <2>. QED BY <1>1, <2>1 DEF Running
<1>2. ASSUME NEW visible \in SUBSET Pid, Poll(visible)
      PROVE  SeenHaveRows'
  <2>1. ASSUME NEW p \in visible
        PROVE  p \in misread' \/ \E s \in sessions' : s.pid = p
    <3>1. CASE p \in seen
      BY <1>2, <3>1 DEF Poll, SeenHaveRows
    <3>2. CASE p \notin seen
      <4>1. CASE \E s \in sessions : s.pid = p
        BY <1>2, <4>1 DEF Poll
      <4>2. CASE \A s \in sessions : s.pid # p
        <5>1. [pid |-> p, exe |-> proc[p].exe, started |-> now, last |-> now]
                \in NewRows(visible \ seen)
          BY <3>2, <4>2 DEF NewRows
        <5>. QED BY <1>2, <5>1 DEF Poll
      <4>. QED BY <4>1, <4>2
    <3>. QED BY <3>1, <3>2
  <2>2. \A p \in visible : proc[p].state # "none"
    BY <1>2 DEF Poll, Running
  <2>. QED BY <1>2, <2>1, <2>2 DEF Poll, SeenHaveRows, clockVars
<1>3. ASSUME NEW s \in alive, Heartbeat(s)
      PROVE  SeenHaveRows'
  <2>1. seen' = seen /\ proc' = proc
    BY <1>3 DEF Heartbeat, watcherVars, clockVars
  <2>2. misread' = misread
    BY <1>3 DEF Heartbeat, excuseVars
  <2>. QED BY <1>3, <2>1, <2>2, HeartbeatRows DEF SeenHaveRows, Running
<1>4. ASSUME NEW s \in moving, DeleteSession(s)
      PROVE  SeenHaveRows'
  <2>1. seen' = seen /\ proc' = proc /\ misread' = misread /\ (Running(s.pid) => s.pid \in misread)
    BY <1>4 DEF DeleteSession, watcherVars, clockVars, excuseVars, RowsWerePlayed
  <2>. QED BY <1>4, <2>1 DEF DeleteSession, SeenHaveRows, Running
<1>5. ASSUME seen' \subseteq seen, sessions' = sessions, seen' = {} \/ misread \subseteq misread'
      PROVE  SeenHaveRows'
  BY <1>1, <1>5 DEF SeenHaveRows, TypeOK
<1>6. ASSUME \/ Machine \/ StartCheck \/ Drain \/ Server \/ Reply \/ Life \/ UNCHANGED vars
             \/ \E s \in toCheck : FoundAlive(s) \/ Enqueue(s) \/ Discard(s)
      PROVE  seen' \subseteq seen /\ sessions' = sessions /\ (seen' = {} \/ misread \subseteq misread')
  <2>1. CASE Machine \/ Drain \/ Server \/ UNCHANGED vars
    BY <2>1 DEF Machine, Spawn, Exit, Tick, Drain, StartDrain, Skip, Post, Server, Handle,
                HandleLate, watcherVars, excuseVars, vars
  <2>2. CASE Reply \/ Life
    BY <2>2 DEF Reply, ReplyOk, ReplyTransient, ReplyRateLimited, ReplyUnauthorized, Life,
                SignOut, Crash, Quit, LoseMemory, Restart, watcherVars, excuseVars
  <2>3. CASE StartCheck \/ \E s \in toCheck : FoundAlive(s) \/ Enqueue(s) \/ Discard(s)
    BY <2>3 DEF StartCheck, FoundAlive, Enqueue, Discard, TakenForDead, watcherVars, excuseVars
  <2>. QED BY <1>6, <2>1, <2>2, <2>3
<1>. QED BY <1>2, <1>3, <1>4, <1>5, <1>6 DEF Next, Monitor

LEMMA PlayedStep ==
    ASSUME IndInv, Played, ~ReusePids, [Next]_vars
    PROVE  Played'
BY RowsStayPlayed, TimesStayPast, RecordedStaysPlayed, SeenStayRows
   DEF Played, IndInv, RowsInv

LEMMA PlayedHolds ==
    ASSUME ~ReusePids
    PROVE  Safety => [](IndInv /\ Played)
<1>1. Init => IndInv /\ Played
  BY IndInvInit DEF Init, Played, RowsWerePlayed, TimesArePast, RecordedTimeWasPlayed, SeenHaveRows,
                    NoProcess
<1>2. IndInv /\ Played /\ [Next]_vars => (IndInv /\ Played)'
  BY IndInvStep, PlayedStep DEF Played
<1>. QED BY <1>1, <1>2, PTL DEF Safety

(* What waits in the outbox was really played from its recorded start to its   *)
(* recorded end, also what is found after a restart (SessionMonitor.cs), when *)
(* pids are not reused; unless the process exited between the monitor's test  *)
(* and its stamp.  For any processes, games, failed queries and stops.        *)
THEOREM WaitingTimeWasPlayed ==
    ASSUME ~ReusePids
    PROVE  Safety => []RecordedTimeWasPlayed
<1>1. Played => RecordedTimeWasPlayed
  BY DEF Played
<1>. QED BY PlayedHolds, <1>1, PTL

(* _seen never hides a running game from the table (ProcessWatcher.cs:40-41)   *)
(* but one the monitor took for dead, when pids are not reused; for any       *)
(* processes, games, failed queries and stops.                               *)
THEOREM SeenGamesAreRecorded ==
    ASSUME ~ReusePids
    PROVE  Safety => []SeenIsRecorded
<1>1. Played => SeenIsRecorded
  BY DEF Played, SeenHaveRows, SeenIsRecorded
<1>. QED BY PlayedHolds, <1>1, PTL

--------------------------------------------------------------------------------
(* The API sees a session again only after a failure: the repetitions a        *)
(* session has still to come are counted, and each is paid for.  A row, an    *)
(* entry of the outbox and a request given up on can each be one more time    *)
(* that the API acts; a failed request or a crash makes a new one, and nothing *)
(* else does.  Pids are not reused, a game runs once at a time, and no        *)
(* process exits between the monitor's test of it and the stamp.             *)

(* A game runs once at a time, and exits are in the past. *)
OnceAtATime ==
    /\ \A p, q \in Pid : (Running(p) /\ Running(q) /\ proc[p].exe = proc[q].exe) => p = q
    /\ \A p \in Pid : proc[p].state = "exited" => proc[p].at <= now

(* A process that exited in the second it was first seen; its row is too short. *)
Brief(s) == proc[s.pid].state = "exited" /\ proc[s.pid].at <= s.started

(* Of the rows of one key, all but one are such. *)
OneLongRow == \A r, t \in sessions : (KeyOf(r) = KeyOf(t) /\ ~Brief(r) /\ ~Brief(t)) => r = t

(* What was enqueued was first seen before now. *)
KnownAreOld == \A k \in Key : Known(k) => k.started < now

(* The outbox has one entry per key, and one for all that the queue processor   *)
(* holds, which has each once.                                               *)
OneEntry ==
    /\ \A q, e \in queue : KeyOf(q) = KeyOf(e) => q = e
    /\ \A b \in batch : \E q \in queue : q.id = b.id
    /\ \A c \in call : \E q \in queue : q.id = c.row.id
    /\ \A a, b \in batch : a.id = b.id => a = b
    /\ \A b \in batch, c \in call : b.id # c.row.id
    /\ \A c, d \in call : c = d

(* The ways in which the API may come to act on the key once more. *)
RowOf(s, k) == KeyOf(s) = k /\ ~Brief(s) /\ \A m \in moving : m.pid # s.pid
RowToSend(k) == \E s \in sessions : RowOf(s, k)
AnsweredFor(k) == \E c \in call : c.done /\ KeyOf(c.row) = k
EntryToSend(k) == Waiting(k) /\ ~AnsweredFor(k)

One(b) == IF b THEN 1 ELSE 0

Reserve == IF mode = "stopped" THEN 2 ELSE 0

Total(k) == processed[k] + One(RowToSend(k)) + One(EntryToSend(k)) + One(k \in late) + Reserve

Paid == \A k \in Key \ overshot : Total(k) <= 1 + faults + 2 * stops

--------------------------------------------------------------------------------
(* Processes and rows. *)

LEMMA OnceStays ==
    ASSUME TypeOK, ~ReusePids, ~SameExe, OnceAtATime, [Next]_vars
    PROVE  OnceAtATime'
<1>1. ASSUME NEW p \in Pid, NEW x \in Exe, Spawn(p, x)
      PROVE  OnceAtATime'
  BY <1>1 DEF Spawn, OnceAtATime, Running, TypeOK
<1>2. ASSUME NEW p \in Pid, Exit(p)
      PROVE  OnceAtATime'
  <2>1. now \in Nat
    BY ConstantsAssumption DEF TypeOK, Time
  <2>. QED BY <1>2, <2>1 DEF Exit, OnceAtATime, Running, TypeOK
<1>3. ASSUME proc' = proc, now' \in {now, now + 1}
      PROVE  OnceAtATime'
  <2>1. \A p \in Pid : proc[p].state = "exited" => proc[p].at \in Nat
    BY ConstantsAssumption DEF TypeOK, Process, NoProcess, Time
  <2>2. now \in Nat
    BY ConstantsAssumption DEF TypeOK, Time
  <2>. QED BY <1>3, <2>1, <2>2 DEF OnceAtATime, Running
<1>4. ASSUME \/ Tick \/ (\E visible \in SUBSET Pid : Poll(visible)) \/ Monitor \/ Drain
             \/ Server \/ UNCHANGED vars
      PROVE  proc' = proc /\ now' \in {now, now + 1}
  BY <1>4 DEF Tick, Poll, Monitor, StartCheck, FoundAlive, Visits, Heartbeat, Enqueue, Discard, DeleteSession, Drain,
              StartDrain, Skip, Post, Server, Handle, HandleLate, vars, clockVars
<1>5. ASSUME Reply \/ Life
      PROVE  proc' = proc /\ now' \in {now, now + 1}
  BY <1>5 DEF Reply, ReplyOk, ReplyTransient, ReplyRateLimited, ReplyUnauthorized, Life, SignOut,
              Crash, Quit, LoseMemory, Restart, clockVars
<1>. QED BY <1>1, <1>2, <1>3, <1>4, <1>5 DEF Next, Machine

LEMMA BriefStays ==
    ASSUME TypeOK, ~ReusePids, [Next]_vars, NEW s, s.pid \in Pid, Brief(s)
    PROVE  Brief(s)'
<1>1. proc'[s.pid] = proc[s.pid]
  BY ProcessesEnd DEF Brief
<1>. QED BY <1>1 DEF Brief

(* A row that is long enough was first seen before now, and is not brief       *)
(* unless its process exited between test and stamp.                         *)
LEMMA LongIsNotBrief ==
    ASSUME TypeOK, RowsWerePlayed, NEW s \in toCheck, LongEnough(s)
    PROVE  s \in Session /\ s.started < now /\ (KeyOf(s) \notin overshot => ~Brief(s))
<1>1. s \in Session /\ s.started \in Nat /\ s.last \in Nat /\ now \in Nat
  BY ConstantsAssumption DEF TypeOK, Session, Time
<1>2. /\ s.last <= now
      /\ proc[s.pid].state = "exited" => s.last <= proc[s.pid].at \/ KeyOf(s) \in overshot
  BY DEF RowsWerePlayed, PlayedBy
<1>3. proc[s.pid].state = "exited" => proc[s.pid].at \in Nat
  BY <1>1, ConstantsAssumption DEF TypeOK, Process, NoProcess, Time, Session
<1>4. s.last > s.started
  BY <1>1, ConstantsAssumption DEF LongEnough
<1>. QED BY <1>1, <1>2, <1>3, <1>4 DEF Brief

(* Rows are added by polls only; else each is one of before. *)
LEMMA RowsStay ==
    ASSUME TypeOK, [Next]_vars, \A visible \in SUBSET Pid : ~Poll(visible), NEW r \in sessions'
    PROVE  \E t \in sessions : /\ t.pid = r.pid /\ KeyOf(t) = KeyOf(r)
                               /\ t.started = r.started
<1>1. ASSUME NEW s \in alive, Heartbeat(s)
      PROVE  \E t \in sessions : t.pid = r.pid /\ KeyOf(t) = KeyOf(r)
  BY <1>1, HeartbeatRows
<1>2. ASSUME \/ Machine \/ StartCheck \/ Drain \/ Server \/ Reply \/ Life \/ UNCHANGED vars
             \/ \E s \in toCheck : FoundAlive(s) \/ Enqueue(s) \/ Discard(s)
             \/ \E s \in moving : DeleteSession(s)
      PROVE  r \in sessions
  <2>1. CASE Machine \/ Drain \/ Server \/ UNCHANGED vars
    BY <2>1 DEF Machine, Spawn, Exit, Tick, Drain, StartDrain, Skip, Post, Server, Handle,
                HandleLate, vars
  <2>2. CASE Reply \/ Life
    BY <2>2 DEF Reply, ReplyOk, ReplyTransient, ReplyRateLimited, ReplyUnauthorized, Life,
                SignOut, Crash, Quit, LoseMemory, Restart
  <2>3. CASE \/ StartCheck \/ (\E s \in toCheck : FoundAlive(s) \/ Enqueue(s) \/ Discard(s))
             \/ \E s \in moving : DeleteSession(s)
    BY <2>3 DEF StartCheck, FoundAlive, Enqueue, Discard, DeleteSession
  <2>. QED BY <1>2, <2>1, <2>2, <2>3
<1>3. \E t \in sessions : t.pid = r.pid /\ KeyOf(t) = KeyOf(r)
  BY <1>1, <1>2 DEF Next, Monitor
<1>4. \A t : KeyOf(t) = KeyOf(r) => t.started = r.started
  BY DEF KeyOf
<1>. QED BY <1>3, <1>4

LEMMA OneLongRowStays ==
    ASSUME TypeOK, TypeOK', PidIsKey', ~ReusePids, RowsWerePlayed, OnceAtATime, OneLongRow,
           [Next]_vars
    PROVE  OneLongRow'
<1>1. ASSUME \A visible \in SUBSET Pid : ~Poll(visible)
      PROVE  OneLongRow'
  <2>1. ASSUME NEW r \in sessions', ~Brief(r)'
        PROVE  \E t \in sessions : t.pid = r.pid /\ KeyOf(t) = KeyOf(r) /\ ~Brief(t)
    <3>1. PICK t \in sessions : t.pid = r.pid /\ KeyOf(t) = KeyOf(r) /\ t.started = r.started
      BY <1>1, RowsStay
    <3>2. Brief(t) => Brief(t)'
      BY BriefStays, RowTypes
    <3>. QED BY <2>1, <3>1, <3>2 DEF Brief
  <2>2. ASSUME NEW r \in sessions', NEW t \in sessions', KeyOf(r) = KeyOf(t), ~Brief(r)', ~Brief(t)'
        PROVE  r = t
    <3>1. PICK a \in sessions : a.pid = r.pid /\ KeyOf(a) = KeyOf(r) /\ ~Brief(a)
      BY <2>1, <2>2
    <3>2. PICK b \in sessions : b.pid = t.pid /\ KeyOf(b) = KeyOf(t) /\ ~Brief(b)
      BY <2>1, <2>2
    <3>3. a = b
      BY <2>2, <3>1, <3>2 DEF OneLongRow
    <3>. QED BY <3>1, <3>2, <3>3 DEF PidIsKey
  <2>. QED BY <2>2 DEF OneLongRow, KeyOf
<1>2. ASSUME NEW visible \in SUBSET Pid, Poll(visible)
      PROVE  OneLongRow'
  <2>1. proc' = proc /\ sessions' = sessions \cup NewRows(visible \ seen)
    BY <1>2 DEF Poll, clockVars
  <2>2. ASSUME NEW r \in NewRows(visible \ seen)
        PROVE  /\ r.pid \in Pid /\ Running(r.pid) /\ r.exe = proc[r.pid].exe /\ r.started = now
               /\ \A t \in sessions : t.pid # r.pid
    BY <1>2, <2>2 DEF Poll, NewRows
  <2>3. ASSUME NEW r \in NewRows(visible \ seen), NEW t \in sessions, KeyOf(r) = KeyOf(t)
        PROVE  Brief(t)
    <3>1. t.exe = r.exe /\ t.started = now /\ t.pid # r.pid /\ t.pid \in Pid
      BY <2>2, <2>3, RowTypes DEF KeyOf
    <3>2. proc[t.pid].state \in {"running", "exited"} /\ proc[t.pid].exe = t.exe
      BY DEF RowsWerePlayed, PlayedBy
    <3>. QED BY <2>2, <3>1, <3>2 DEF OnceAtATime, Brief, Running
  <2>4. ASSUME NEW r \in NewRows(visible \ seen), NEW t \in NewRows(visible \ seen),
               KeyOf(r) = KeyOf(t)
        PROVE  r = t
    <3>1. r.pid = t.pid
      BY <2>2, <2>4 DEF KeyOf, OnceAtATime
    <3>. QED BY <3>1 DEF NewRows
  <2>5. \A r, t \in sessions' : (KeyOf(r) = KeyOf(t) /\ ~Brief(r) /\ ~Brief(t)) => r = t
    BY <2>1, <2>3, <2>4 DEF OneLongRow
  <2>. QED BY <2>1, <2>5 DEF OneLongRow, Brief, KeyOf
<1>. QED BY <1>1, <1>2

--------------------------------------------------------------------------------
(* The outbox and what the queue processor holds of it. *)

(* A failed request counts an attempt of its entry, and changes no other thing. *)
LEMMA RetriedEntries ==
    ASSUME TypeOK, NEW c \in call, ReplyTransient(c)
    PROVE  \E F \in [queue -> queue'] :
             /\ \A q \in queue : F[q].id = q.id /\ KeyOf(F[q]) = KeyOf(q)
             /\ \A e \in queue' : \E q \in queue : e = F[q]
<1>. DEFINE Retried(r) == IF r.id = c.row.id
                          THEN [r EXCEPT !.attempts = NextAttempt(r.attempts)] ELSE r
            F == [q \in queue |-> Retried(q)]
<1>1. queue' = {Retried(r) : r \in queue}
  BY DEF ReplyTransient, AfterFailure
<1>2. \A r \in queue : Retried(r).id = r.id /\ KeyOf(Retried(r)) = KeyOf(r)
  BY DEF KeyOf, TypeOK, Entry
<1>. HIDE DEF Retried
<1>3. F \in [queue -> queue']
  BY <1>1
<1>. QED BY <1>1, <1>2, <1>3

LEMMA OneEntryStays ==
    ASSUME IndInv, OneEntry, [Next]_vars
    PROVE  OneEntry'
<1>. USE DEF OneEntry
<1>1. ASSUME NEW s \in toCheck, Enqueue(s)
      PROVE  OneEntry'
  <2>. DEFINE new == [id |-> nextId, exe |-> s.exe, started |-> s.started,
                      ended |-> EndOfSession(s), attempts |-> 0]
  <2>1. batch' = batch /\ call' = call
    BY <1>1 DEF Enqueue, drainVars
  <2>2. \/ queue' = queue
        \/ queue' = queue \cup {new} /\ \A q \in queue : KeyOf(q) # KeyOf(s)
    BY <1>1 DEF Enqueue, InsertEntry, outboxVars
  <2>3. KeyOf(new) = KeyOf(s)
    BY DEF KeyOf
  <2>. HIDE DEF new
  <2>4. \A q, e \in queue' : KeyOf(q) = KeyOf(e) => q = e
    BY <2>2, <2>3
  <2>. QED BY <2>1, <2>2, <2>4 DEF KeyOf
<1>2. CASE StartDrain
  <2>1. \A q, e \in queue : q.id = e.id => q = e
    BY DEF IndInv, IdIsKey, Held
  <2>. QED BY <1>2, <2>1 DEF StartDrain, Peek, outboxVars, KeyOf
<1>3. ASSUME NEW b \in batch, Skip(b) \/ Post(b)
      PROVE  OneEntry'
  <2>1. /\ queue' = queue /\ batch' = batch \ {b} /\ call = {}
        /\ \A c, d \in call' : c.row = b /\ c = d
    <3>1. CASE Skip(b)
      BY <3>1 DEF Skip, outboxVars
    <3>2. CASE Post(b)
      BY <3>2 DEF Post, outboxVars
    <3>. QED BY <1>3, <3>1, <3>2
  <2>2. \A a \in batch' : a \in batch /\ a.id # b.id
    BY <2>1
  <2>. QED BY <2>1, <2>2 DEF KeyOf
<1>4. ASSUME NEW c \in call, ReplyOk(c)
      PROVE  OneEntry'
  BY <1>4 DEF ReplyOk, KeyOf
<1>5. ASSUME NEW c \in call, ReplyTransient(c)
      PROVE  OneEntry'
  <2>1. batch' = batch /\ call' = {}
    BY <1>5 DEF ReplyTransient
  <2>2. PICK F \in [queue -> queue'] :
           /\ \A q \in queue : F[q].id = q.id /\ KeyOf(F[q]) = KeyOf(q)
           /\ \A e \in queue' : \E q \in queue : e = F[q]
    BY <1>5, RetriedEntries DEF IndInv
  <2>3. \A q, e \in queue' : KeyOf(q) = KeyOf(e) => q = e
    BY <2>2
  <2>4. \A b \in batch : \E q \in queue' : q.id = b.id
    BY <2>2
  <2>. QED BY <2>1, <2>3, <2>4 DEF KeyOf
<1>6. ASSUME NEW c \in call, Handle(c)
      PROVE  OneEntry'
  <2>1. queue' = queue /\ batch' = batch /\ call' = {[c EXCEPT !.done = TRUE]}
    BY <1>6 DEF Handle, outboxVars
  <2>2. [c EXCEPT !.done = TRUE].row = c.row
    BY DEF IndInv, TypeOK
  <2>. QED BY <2>1, <2>2 DEF KeyOf
<1>7. ASSUME queue' = queue, \/ batch' = batch /\ call' = call
                             \/ batch' = {} /\ call' \subseteq call
      PROVE  OneEntry'
  BY <1>7 DEF KeyOf
<1>8. ASSUME \/ Machine \/ StartCheck \/ Life \/ UNCHANGED vars
             \/ \E visible \in SUBSET Pid : Poll(visible)
             \/ \E k \in late : HandleLate(k)
             \/ \E c \in call : ReplyRateLimited(c) \/ ReplyUnauthorized(c)
             \/ \E s \in toCheck : FoundAlive(s) \/ Discard(s)
             \/ \E s \in alive : Heartbeat(s)
             \/ \E s \in moving : DeleteSession(s)
      PROVE  queue' = queue /\ \/ batch' = batch /\ call' = call
                               \/ batch' = {} /\ call' \subseteq call
  <2>1. CASE \/ Machine \/ StartCheck \/ UNCHANGED vars
             \/ \E visible \in SUBSET Pid : Poll(visible)
    BY <2>1 DEF Machine, Spawn, Exit, Tick, StartCheck, Poll, outboxVars, drainVars, vars
  <2>2. CASE \/ \E k \in late : HandleLate(k)
             \/ \E s \in toCheck : FoundAlive(s) \/ Discard(s)
             \/ \E s \in alive : Heartbeat(s)
             \/ \E s \in moving : DeleteSession(s)
    BY <2>2 DEF HandleLate, FoundAlive, Heartbeat, Discard, DeleteSession, outboxVars, drainVars
  <2>3. CASE Life \/ \E c \in call : ReplyRateLimited(c) \/ ReplyUnauthorized(c)
    BY <2>3 DEF Life, SignOut, Crash, Quit, LoseMemory, Restart, ReplyRateLimited,
                ReplyUnauthorized, outboxVars, drainVars
  <2>. QED BY <1>8, <2>1, <2>2, <2>3
<1>. QED BY <1>1, <1>2, <1>3, <1>4, <1>5, <1>6, <1>7, <1>8 DEF Next, Monitor, Drain, Server, Reply

(* Only the monitor makes a session known. *)
LEMMA KnownComes ==
    ASSUME IndInv, SentIsKnown, [Next]_vars, NEW k \in Key, Known(k)'
    PROVE  Known(k) \/ \E s \in toCheck : Enqueue(s) /\ k = KeyOf(s)
<1>1. ASSUME NEW s \in toCheck, Enqueue(s)
      PROVE  Known(k) \/ k = KeyOf(s)
  <2>1. \A q \in queue' : q \in queue \/ KeyOf(q) = KeyOf(s)
    <3>. DEFINE new == [id |-> nextId, exe |-> s.exe, started |-> s.started,
                        ended |-> EndOfSession(s), attempts |-> 0]
    <3>1. queue' = queue \/ queue' = queue \cup {new}
      BY <1>1 DEF Enqueue, InsertEntry, outboxVars
    <3>2. KeyOf(new) = KeyOf(s)
      BY DEF KeyOf
    <3>. HIDE DEF new
    <3>. QED BY <3>1, <3>2
  <2>. QED BY <1>1, <2>1 DEF Enqueue, Known, Waiting, serverVars
<1>2. ASSUME NEW c \in call, ReplyTransient(c)
      PROVE  Known(k)
  <2>1. \A e \in queue' : \E q \in queue : KeyOf(e) = KeyOf(q)
    BY <1>2, RetriedEntries DEF IndInv
  <2>. QED BY <1>2, <2>1 DEF ReplyTransient, Known, Waiting
<1>3. ASSUME NEW j \in Key, Known(j), processed' = [processed EXCEPT ![j] = @ + 1], queue' = queue
      PROVE  Known(k)
  BY <1>3 DEF Known, Waiting, IndInv, TypeOK
<1>4. ASSUME Server
      PROVE  Known(k)
  <2>1. \A c \in call : KeyOf(c.row) \in Key /\ Known(KeyOf(c.row))
    BY HeldKeys DEF IndInv, Held, SentIsKnown
  <2>2. \A j \in late : j \in Key /\ Known(j)
    BY DEF IndInv, TypeOK, SentIsKnown
  <2>. QED BY <1>3, <1>4, <2>1, <2>2 DEF Server, Handle, HandleLate, outboxVars
<1>5. ASSUME queue' \subseteq queue, processed' = processed
      PROVE  Known(k)
  BY <1>5 DEF Known, Waiting
<1>6. ASSUME \/ Machine \/ StartCheck \/ Drain \/ Life \/ UNCHANGED vars
             \/ \E visible \in SUBSET Pid : Poll(visible)
             \/ \E c \in call : ReplyOk(c) \/ ReplyRateLimited(c) \/ ReplyUnauthorized(c)
             \/ \E s \in toCheck : FoundAlive(s) \/ Discard(s)
             \/ \E s \in alive : Heartbeat(s)
             \/ \E s \in moving : DeleteSession(s)
      PROVE  queue' \subseteq queue /\ processed' = processed
  <2>1. CASE \/ Machine \/ StartCheck \/ Drain \/ UNCHANGED vars
             \/ \E visible \in SUBSET Pid : Poll(visible)
    BY <2>1 DEF Machine, Spawn, Exit, Tick, StartCheck, Poll, Drain, StartDrain, Skip, Post,
                outboxVars, serverVars, vars
  <2>2. CASE \/ \E s \in toCheck : FoundAlive(s) \/ Discard(s)
             \/ \E s \in alive : Heartbeat(s)
             \/ \E s \in moving : DeleteSession(s)
    BY <2>2 DEF FoundAlive, Heartbeat, Discard, DeleteSession, outboxVars, serverVars
  <2>3. CASE Life \/ \E c \in call : ReplyOk(c) \/ ReplyRateLimited(c) \/ ReplyUnauthorized(c)
    BY <2>3 DEF Life, SignOut, Crash, Quit, LoseMemory, Restart, ReplyOk, ReplyRateLimited,
                ReplyUnauthorized, outboxVars, serverVars
  <2>. QED BY <1>6, <2>1, <2>2, <2>3
<1>. QED BY <1>1, <1>2, <1>4, <1>5, <1>6 DEF Next, Monitor, Reply

LEMMA KnownStayOld ==
    ASSUME IndInv, ~ReusePids, SentIsKnown, RowsWerePlayed, KnownAreOld, [Next]_vars
    PROVE  KnownAreOld'
<1>1. now \in Nat /\ now' \in Nat /\ now <= now'
  <2>1. now' \in {now, now + 1}
    BY ClockSteps
  <2>2. now \in Nat
    BY ConstantsAssumption DEF IndInv, TypeOK, Time
  <2>. QED BY <2>1, <2>2
<1>2. ASSUME NEW k \in Key, Known(k)'
      PROVE  k.started < now'
  <2>1. k.started \in Nat
    BY ConstantsAssumption DEF Key, Time
  <2>2. ASSUME NEW s \in toCheck, Enqueue(s), k = KeyOf(s)
        PROVE  k.started < now
    <3>1. s.started < now
      BY <2>2, LongIsNotBrief DEF Enqueue, IndInv
    <3>. QED BY <2>2, <3>1 DEF KeyOf
  <2>3. k.started < now
    BY <1>2, <2>2, KnownComes DEF KnownAreOld
  <2>. QED BY <1>1, <2>1, <2>3
<1>. QED BY <1>2 DEF KnownAreOld

--------------------------------------------------------------------------------
(* The count. *)

Facts == IndInv /\ SentIsKnown /\ Played /\ OnceAtATime /\ OneLongRow /\ KnownAreOld /\ OneEntry

(* What is to be read off a count, before and after a step. *)
LEMMA Reads ==
    ASSUME TypeOK, TypeOK', NEW k \in Key
    PROVE  /\ processed[k] \in Nat /\ processed'[k] \in Nat
           /\ faults \in Nat /\ faults' \in Nat /\ stops \in Nat /\ stops' \in Nat
           /\ Reserve \in {0, 2} /\ Reserve' \in {0, 2}
           /\ One(RowToSend(k)) \in {0, 1} /\ (One(RowToSend(k)) = 1 <=> (RowToSend(k)))
           /\ One(RowToSend(k)') \in {0, 1} /\ (One(RowToSend(k)') = 1 <=> (RowToSend(k)'))
           /\ One(EntryToSend(k)) \in {0, 1} /\ (One(EntryToSend(k)) = 1 <=> (EntryToSend(k)))
           /\ One(EntryToSend(k)') \in {0, 1} /\ (One(EntryToSend(k)') = 1 <=> (EntryToSend(k)'))
           /\ One(k \in late) \in {0, 1} /\ (One(k \in late) = 1 <=> (k \in late))
           /\ One(k \in late') \in {0, 1} /\ (One(k \in late') = 1 <=> (k \in late'))
           /\ Total(k) = processed[k] + One(RowToSend(k)) + One(EntryToSend(k))
                           + One(k \in late) + Reserve
           /\ Total(k)' = processed'[k] + One(RowToSend(k)') + One(EntryToSend(k)')
                            + One(k \in late') + Reserve'
<1>1. faults \in Nat /\ faults' \in Nat /\ stops \in Nat /\ stops' \in Nat
  BY ConstantsAssumption DEF TypeOK
<1>2. processed[k] \in Nat /\ processed'[k] \in Nat
  BY DEF TypeOK
<1>3. Reserve \in {0, 2} /\ Reserve' \in {0, 2}
  BY DEF Reserve
<1>4. /\ One(RowToSend(k)) \in {0, 1} /\ (One(RowToSend(k)) = 1 <=> (RowToSend(k)))
      /\ One(RowToSend(k)') \in {0, 1} /\ (One(RowToSend(k)') = 1 <=> (RowToSend(k)'))
  BY DEF One
<1>5. /\ One(EntryToSend(k)) \in {0, 1} /\ (One(EntryToSend(k)) = 1 <=> (EntryToSend(k)))
      /\ One(EntryToSend(k)') \in {0, 1} /\ (One(EntryToSend(k)') = 1 <=> (EntryToSend(k)'))
  BY DEF One
<1>6. /\ One(k \in late) \in {0, 1} /\ (One(k \in late) = 1 <=> (k \in late))
      /\ One(k \in late') \in {0, 1} /\ (One(k \in late') = 1 <=> (k \in late'))
  BY DEF One
<1>7. /\ Total(k) = processed[k] + One(RowToSend(k)) + One(EntryToSend(k))
                      + One(k \in late) + Reserve
      /\ Total(k)' = processed'[k] + One(RowToSend(k)') + One(EntryToSend(k)')
                       + One(k \in late') + Reserve'
  BY DEF Total, One
<1>. QED BY <1>1, <1>2, <1>3, <1>4, <1>5, <1>6, <1>7

(* Unless a row stops being moved, a row to send was one before. *)
LEMMA RowsToSendStay ==
    ASSUME IndInv, ~ReusePids, [Next]_vars, \A visible \in SUBSET Pid : ~Poll(visible), NEW k,
           RowToSend(k)',
           \A m \in moving : m \in moving' \/ \A r \in sessions' : r.pid # m.pid
    PROVE  RowToSend(k)
<1>1. PICK r \in sessions' : KeyOf(r) = k /\ ~Brief(r)' /\ \A m \in moving' : m.pid # r.pid
  BY DEF RowToSend, RowOf, KeyOf
<1>2. PICK t \in sessions : t.pid = r.pid /\ KeyOf(t) = KeyOf(r) /\ t.started = r.started
  BY RowsStay DEF IndInv
<1>3. ~Brief(t)
  <2>1. Brief(t) => Brief(t)'
    BY BriefStays, RowTypes DEF IndInv
  <2>. QED BY <1>1, <1>2, <2>1 DEF Brief
<1>. QED BY <1>1, <1>2, <1>3 DEF RowToSend, RowOf

(* Steps that touch neither the outbox nor what the API has done or is asked. *)
LEMMA QuietPays ==
    ASSUME Facts, TypeOK', ~ReusePids, [Next]_vars, NEW k \in Key,
           \A visible \in SUBSET Pid : ~Poll(visible),
           \A m \in moving : m \in moving' \/ \A r \in sessions' : r.pid # m.pid,
           UNCHANGED <<queue, call, late, processed, mode, faults, stops>>
    PROVE  Total(k)' <= Total(k)
<1>1. RowToSend(k)' => RowToSend(k)
  BY RowsToSendStay DEF Facts
<1>2. EntryToSend(k)' => EntryToSend(k)
  BY DEF EntryToSend, Waiting, AnsweredFor, KeyOf
<1>3. Reserve' = Reserve
  BY DEF Reserve
<1>. QED BY <1>1, <1>2, <1>3, Reads DEF Facts, IndInv

(* A row becomes an entry, if there was none. *)
LEMMA EnqueuePays ==
    ASSUME Facts, TypeOK', ~ReusePids, [Next]_vars, NEW k \in Key \ overshot,
           NEW s \in toCheck, Enqueue(s)
    PROVE  Total(k)' <= Total(k)
<1>. DEFINE new == [id |-> nextId, exe |-> s.exe, started |-> s.started,
                    ended |-> EndOfSession(s), attempts |-> 0]
<1>1. /\ sessions' = sessions /\ moving = {} /\ moving' = {s} /\ proc' = proc
      /\ UNCHANGED <<call, late, processed, mode, faults, stops>>
  BY DEF Enqueue, Visits, drainVars, serverVars, budgetVars, clockVars
<1>2. \A visible \in SUBSET Pid : ~Poll(visible)
  BY <1>1 DEF Poll, monitorVars
<1>3. RowToSend(k)' => RowToSend(k)
  BY <1>1, <1>2, RowsToSendStay DEF Facts
<1>4. KeyOf(new) = KeyOf(s)
  BY DEF KeyOf
<1>5. queue' = queue \/ queue' = queue \cup {new}
  BY DEF Enqueue, InsertEntry, outboxVars
<1>. HIDE DEF new
<1>6. EntryToSend(k)' => EntryToSend(k) \/ k = KeyOf(s)
  BY <1>1, <1>4, <1>5 DEF EntryToSend, Waiting, AnsweredFor, KeyOf
<1>7. Reserve' = Reserve
  BY <1>1 DEF Reserve
<1>8. CASE k # KeyOf(s)
  BY <1>1, <1>3, <1>6, <1>7, <1>8, Reads DEF Facts, IndInv
<1>9. CASE k = KeyOf(s)
  <2>1. PICK r \in sessions : r.pid = s.pid /\ KeyOf(r) = KeyOf(s)
    BY DEF Facts, IndInv, SnapshotHeld
  <2>2. ~Brief(s)
    BY <1>9, LongIsNotBrief DEF Enqueue, Facts, Played, IndInv
  <2>3. ~Brief(r)
    BY <2>1, <2>2 DEF Brief, KeyOf
  <2>4. RowToSend(k)
    BY <1>1, <1>9, <2>1, <2>3 DEF RowToSend, RowOf
  <2>5. ~RowToSend(k)'
    <3>1. ASSUME NEW t \in sessions, KeyOf(t) = k, ~Brief(t) PROVE t.pid = s.pid
      BY <1>9, <2>1, <2>3, <3>1 DEF Facts, OneLongRow
    <3>. QED BY <1>1, <3>1 DEF RowToSend, RowOf, Brief, KeyOf
  <2>. QED BY <1>1, <1>7, <2>4, <2>5, Reads DEF Facts, IndInv
<1>. QED BY <1>8, <1>9

(* A new row's session is not known, nor is the row's key that of another. *)
LEMMA PollPays ==
    ASSUME Facts, TypeOK', [Next]_vars, NEW k \in Key, Total(k) <= 1 + faults + 2 * stops,
           NEW visible \in SUBSET Pid, Poll(visible)
    PROVE  Total(k)' <= 1 + faults' + 2 * stops'
<1>1. /\ mode = "working" /\ sessions' = sessions \cup NewRows(visible \ seen) /\ proc' = proc
      /\ UNCHANGED <<moving, queue, call, late, processed, mode, faults, stops>>
  BY DEF Poll, clockVars, monitorVars, outboxVars, drainVars, serverVars, budgetVars
<1>2. EntryToSend(k)' <=> EntryToSend(k)
  BY <1>1 DEF EntryToSend, Waiting, AnsweredFor, KeyOf
<1>3. Reserve' = 0 /\ Reserve = 0
  BY <1>1 DEF Reserve
<1>4. CASE \A r \in NewRows(visible \ seen) : KeyOf(r) # k
  <2>1. RowToSend(k)' => RowToSend(k)
    BY <1>1, <1>4 DEF RowToSend, RowOf, Brief, KeyOf
  <2>. QED BY <1>1, <1>2, <1>3, <2>1, Reads DEF Facts, IndInv
<1>5. ASSUME NEW r \in NewRows(visible \ seen), KeyOf(r) = k
      PROVE  Total(k)' <= 1 + faults' + 2 * stops'
  <2>1. k.started = now
    BY <1>5 DEF NewRows, KeyOf
  <2>2. now \in Nat
    BY ConstantsAssumption DEF Facts, IndInv, TypeOK, Time
  <2>3. ~Known(k)
    BY <2>1, <2>2 DEF Facts, KnownAreOld
  <2>4. processed[k] \in Nat
    BY DEF Facts, IndInv, TypeOK
  <2>5. processed[k] = 0 /\ ~EntryToSend(k) /\ k \notin late
    BY <2>3, <2>4 DEF Known, EntryToSend, Facts, SentIsKnown
  <2>. QED BY <1>1, <1>2, <1>3, <2>5, Reads DEF Facts, IndInv
<1>. QED BY <1>4, <1>5

(* Sending an entry changes nothing yet. *)
LEMMA PostPays ==
    ASSUME Facts, TypeOK', ~ReusePids, [Next]_vars, NEW k \in Key, NEW b \in batch, Post(b)
    PROVE  Total(k)' <= Total(k)
<1>1. /\ call = {} /\ \A c \in call' : ~c.done
      /\ UNCHANGED <<sessions, moving, proc, queue, late, processed, mode, faults, stops>>
  BY DEF Post, clockVars, monitorVars, outboxVars, drainVars, serverVars, budgetVars
<1>2. RowToSend(k)' => RowToSend(k)
  BY <1>1 DEF RowToSend, RowOf, Brief, KeyOf
<1>3. EntryToSend(k)' => EntryToSend(k)
  BY <1>1 DEF EntryToSend, Waiting, AnsweredFor, KeyOf
<1>4. Reserve' = Reserve
  BY <1>1 DEF Reserve
<1>. QED BY <1>1, <1>2, <1>3, <1>4, Reads DEF Facts, IndInv

(* An answered entry leaves with its answer. *)
LEMMA OkPays ==
    ASSUME Facts, TypeOK', NEW k \in Key, NEW c \in call, ReplyOk(c)
    PROVE  Total(k)' <= Total(k)
<1>1. /\ c.done /\ call' = {} /\ queue' = {q \in queue : q.id # c.row.id}
      /\ UNCHANGED <<sessions, moving, proc, late, processed, mode, faults, stops>>
  BY DEF ReplyOk, clockVars, monitorVars, serverVars, budgetVars
<1>2. RowToSend(k)' => RowToSend(k)
  BY <1>1 DEF RowToSend, RowOf, Brief, KeyOf
<1>3. EntryToSend(k)' => EntryToSend(k)
  <2>1. PICK q \in queue : q.id = c.row.id
    BY DEF Facts, OneEntry
  <2>2. KeyOf(q) = KeyOf(c.row)
    BY <2>1 DEF Facts, IndInv, IdIsKey, Held
  <2>3. \A e \in queue' : e \in queue /\ KeyOf(e) # KeyOf(c.row)
    BY <1>1, <2>1, <2>2 DEF Facts, OneEntry
  <2>4. \A d \in call : d = c
    BY DEF Facts, OneEntry
  <2>. QED BY <2>3, <2>4 DEF EntryToSend, Waiting, AnsweredFor, KeyOf
<1>4. Reserve' = Reserve
  BY <1>1 DEF Reserve
<1>. QED BY <1>1, <1>2, <1>3, <1>4, Reads DEF Facts, IndInv

(* Letting go of the request in flight gives back an answered entry, or leaves   *)
(* a request that may come late.                                             *)
LEMMA LettingGo ==
    ASSUME Facts, TypeOK', NEW k \in Key, call' = {}, Abandon, processed' = processed,
           Waiting(k)' => Waiting(k)
    PROVE  One(EntryToSend(k)') + One(k \in late') <= One(EntryToSend(k)) + One(k \in late) + 1
<1>1. CASE AnsweredFor(k)
  <2>1. PICK c \in call : c.done /\ KeyOf(c.row) = k
    BY <1>1 DEF AnsweredFor
  <2>2. Abandoned = {}
    BY <2>1 DEF Abandoned, Facts, OneEntry
  <2>3. late' = late
    BY <2>2 DEF Abandon
  <2>. QED BY <2>3, Reads DEF Facts, IndInv
<1>2. CASE ~AnsweredFor(k)
  <2>1. EntryToSend(k)' => EntryToSend(k)
    BY <1>2 DEF EntryToSend
  <2>. QED BY <2>1, Reads DEF Facts, IndInv
<1>. QED BY <1>1, <1>2

LEMMA TransientPays ==
    ASSUME Facts, TypeOK', NEW k \in Key, NEW c \in call, ReplyTransient(c)
    PROVE  Total(k)' <= Total(k) + (faults' - faults)
<1>1. /\ call' = {} /\ faults' = faults + 1 /\ Abandon
      /\ UNCHANGED <<sessions, moving, proc, processed, mode, stops>>
  BY DEF ReplyTransient, clockVars, monitorVars
<1>2. RowToSend(k)' => RowToSend(k)
  BY <1>1 DEF RowToSend, RowOf, Brief, KeyOf
<1>3. Waiting(k)' => Waiting(k)
  <2>1. \A e \in queue' : \E q \in queue : KeyOf(e) = KeyOf(q)
    BY RetriedEntries DEF Facts, IndInv
  <2>. QED BY <2>1 DEF Waiting, KeyOf
<1>4. Reserve' = Reserve
  BY <1>1 DEF Reserve
<1>. QED BY <1>1, <1>2, <1>3, <1>4, LettingGo, Reads DEF Facts, IndInv

(* A refused request was not acted on, nor will it be. *)
LEMMA RefusedPays ==
    ASSUME Facts, TypeOK', NEW k \in Key, NEW c \in call,
           ReplyRateLimited(c) \/ ReplyUnauthorized(c)
    PROVE  Total(k)' <= Total(k) + 2 * (stops' - stops) /\ faults <= faults'
<1>1. /\ ~c.done /\ call' = {}
      /\ UNCHANGED <<sessions, moving, proc, queue, late, processed>>
      /\ \/ mode' = mode /\ stops' = stops /\ faults' = faults + 1
         \/ stops' = stops + 1 /\ faults' = faults
  BY DEF ReplyRateLimited, ReplyUnauthorized, clockVars, monitorVars, outboxVars, serverVars
<1>2. RowToSend(k)' => RowToSend(k)
  BY <1>1 DEF RowToSend, RowOf, Brief, KeyOf
<1>3. EntryToSend(k)' => EntryToSend(k)
  BY <1>1 DEF EntryToSend, Waiting, AnsweredFor, KeyOf, Facts, OneEntry
<1>4. mode' = mode => Reserve' = Reserve
  BY DEF Reserve
<1>. QED BY <1>1, <1>2, <1>3, <1>4, Reads DEF Facts, IndInv

(* The API acts on an entry, or on a late request, that was to come. *)
LEMMA ServerPays ==
    ASSUME Facts, TypeOK', NEW k \in Key, Server
    PROVE  Total(k)' <= Total(k) /\ UNCHANGED <<faults, stops>>
<1>1. UNCHANGED <<sessions, moving, proc, queue, mode, faults, stops>>
  BY DEF Server, Handle, HandleLate, clockVars, monitorVars, outboxVars, budgetVars
<1>2. RowToSend(k)' => RowToSend(k)
  BY <1>1 DEF RowToSend, RowOf, Brief, KeyOf
<1>3. Reserve' = Reserve
  BY <1>1 DEF Reserve
<1>4. ASSUME NEW c \in call, Handle(c)
      PROVE  Total(k)' <= Total(k)
  <2>1. /\ ~c.done /\ call' = {[c EXCEPT !.done = TRUE]} /\ late' = late
        /\ processed' = [processed EXCEPT ![KeyOf(c.row)] = @ + 1]
    BY <1>4 DEF Handle
  <2>2. \A d \in call : d = c
    BY DEF Facts, OneEntry
  <2>3. [c EXCEPT !.done = TRUE].row = c.row /\ [c EXCEPT !.done = TRUE].done
    BY DEF Facts, IndInv, TypeOK
  <2>4. CASE k = KeyOf(c.row)
    <3>1. PICK q \in queue : q.id = c.row.id
      BY DEF Facts, OneEntry
    <3>2. KeyOf(q) = k
      BY <2>4, <3>1 DEF Facts, IndInv, IdIsKey, Held
    <3>3. EntryToSend(k)
      BY <2>1, <2>2, <3>2 DEF EntryToSend, Waiting, AnsweredFor
    <3>4. ~EntryToSend(k)'
      BY <2>1, <2>3, <2>4 DEF EntryToSend, AnsweredFor, KeyOf
    <3>5. processed'[k] = processed[k] + 1
      BY <2>1, <2>4 DEF Facts, IndInv, TypeOK
    <3>. QED BY <1>2, <1>3, <2>1, <3>3, <3>4, <3>5, Reads DEF Facts, IndInv
  <2>5. CASE k # KeyOf(c.row)
    <3>1. processed'[k] = processed[k]
      BY <2>1, <2>5 DEF Facts, IndInv, TypeOK
    <3>2. EntryToSend(k)' => EntryToSend(k)
      BY <1>1, <2>1, <2>2 DEF EntryToSend, Waiting, AnsweredFor, KeyOf
    <3>. QED BY <1>2, <1>3, <2>1, <3>1, <3>2, Reads DEF Facts, IndInv
  <2>. QED BY <2>4, <2>5
<1>5. ASSUME NEW j \in late, HandleLate(j)
      PROVE  Total(k)' <= Total(k)
  <2>1. /\ late' = late \ {j} /\ call' = call
        /\ processed' = [processed EXCEPT ![j] = @ + 1]
    BY <1>5 DEF HandleLate, drainVars
  <2>2. EntryToSend(k)' => EntryToSend(k)
    BY <1>1, <2>1 DEF EntryToSend, Waiting, AnsweredFor, KeyOf
  <2>3. processed'[k] = IF k = j THEN processed[k] + 1 ELSE processed[k]
    BY <2>1 DEF Facts, IndInv, TypeOK
  <2>4. CASE k = j
    BY <1>2, <1>3, <1>5, <2>1, <2>2, <2>3, <2>4, Reads DEF Facts, IndInv
  <2>5. CASE k # j
    BY <1>2, <1>3, <2>1, <2>2, <2>3, <2>5, Reads DEF Facts, IndInv
  <2>. QED BY <2>4, <2>5
<1>. QED BY <1>1, <1>4, <1>5 DEF Server

(* A stop may lose an answer and leave a row half moved: two more, which a      *)
(* sign-out reserves for the end of its process.                             *)
LEMMA LifePays ==
    ASSUME Facts, TypeOK', NEW k \in Key, Life
    PROVE  Total(k)' <= Total(k) + 2 * (stops' - stops) /\ faults' = faults
<1>1. CASE SignOut
  <2>1. /\ stops' = stops + 1 /\ mode = "working"
        /\ UNCHANGED <<sessions, moving, proc, queue, call, late, processed, faults>>
    BY <1>1 DEF SignOut, clockVars, monitorVars, outboxVars, serverVars
  <2>2. RowToSend(k)' => RowToSend(k)
    BY <2>1 DEF RowToSend, RowOf, Brief, KeyOf
  <2>3. EntryToSend(k)' => EntryToSend(k)
    BY <2>1 DEF EntryToSend, Waiting, AnsweredFor, KeyOf
  <2>4. Reserve = 0
    BY <2>1 DEF Reserve
  <2>. QED BY <2>1, <2>2, <2>3, <2>4, Reads DEF Facts, IndInv
<1>2. CASE Crash \/ Quit
  <2>1. /\ mode' = "down" /\ call' = {} /\ Abandon /\ processed' = processed /\ faults' = faults
        /\ queue' = queue
        /\ \/ mode = "working" /\ stops' = stops + 1
           \/ mode = "stopped" /\ stops' = stops
    BY <1>2 DEF Crash, Quit, LoseMemory, outboxVars
  <2>2. Waiting(k)' => Waiting(k)
    BY <2>1 DEF Waiting, KeyOf
  <2>3. Reserve' = 0 /\ Reserve = IF mode = "stopped" THEN 2 ELSE 0
    BY <2>1 DEF Reserve
  <2>4. One(EntryToSend(k)') + One(k \in late') <= One(EntryToSend(k)) + One(k \in late) + 1
    BY <2>1, <2>2, LettingGo
  <2>. DEFINE e == One(EntryToSend(k))
              l == One(k \in late)
              e1 == One(EntryToSend(k)')
              l1 == One(k \in late')
              r == One(RowToSend(k))
              r1 == One(RowToSend(k)')
  <2>5. /\ processed[k] \in Nat /\ stops \in Nat
        /\ e \in {0, 1} /\ l \in {0, 1} /\ r \in {0, 1}
        /\ e1 \in {0, 1} /\ l1 \in {0, 1} /\ r1 \in {0, 1}
        /\ Total(k) = processed[k] + r + e + l + Reserve
        /\ Total(k)' = processed'[k] + r1 + e1 + l1 + Reserve'
    BY Reads DEF Facts, IndInv
  <2>6. e1 + l1 <= e + l + 1
    BY <2>4
  <2>. HIDE DEF e, l, e1, l1, r, r1
  <2>7. CASE mode = "working" /\ stops' = stops + 1
    BY <2>1, <2>3, <2>5, <2>6, <2>7
  <2>8. CASE mode = "stopped" /\ stops' = stops
    BY <2>1, <2>3, <2>5, <2>6, <2>8
  <2>. QED BY <2>1, <2>7, <2>8
<1>3. CASE Restart
  <2>1. /\ mode = "down" /\ mode' = "working"
        /\ UNCHANGED <<sessions, moving, proc, queue, call, late, processed, faults, stops>>
    BY <1>3 DEF Restart, clockVars, monitorVars, outboxVars, drainVars, serverVars, budgetVars
  <2>2. RowToSend(k)' => RowToSend(k)
    BY <2>1 DEF RowToSend, RowOf, Brief, KeyOf
  <2>3. EntryToSend(k)' => EntryToSend(k)
    BY <2>1 DEF EntryToSend, Waiting, AnsweredFor, KeyOf
  <2>4. Reserve = 0 /\ Reserve' = 0
    BY <2>1 DEF Reserve
  <2>. QED BY <2>1, <2>2, <2>3, <2>4, Reads DEF Facts, IndInv
<1>. QED BY <1>1, <1>2, <1>3 DEF Life

LEMMA CountPays ==
    ASSUME Facts, TypeOK', ~ReusePids, [Next]_vars, NEW k \in Key \ overshot,
           Total(k) <= 1 + faults + 2 * stops
    PROVE  Total(k)' <= 1 + faults' + 2 * stops'
<1>0. Total(k) \in Nat /\ Total(k)' \in Nat
      /\ faults \in Nat /\ faults' \in Nat /\ stops \in Nat /\ stops' \in Nat
  BY Reads DEF Facts, IndInv
<1>1. ASSUME Total(k)' <= Total(k), UNCHANGED <<faults, stops>>
      PROVE  Total(k)' <= 1 + faults' + 2 * stops'
  BY <1>0, <1>1
<1>2. ASSUME \/ Machine \/ StartCheck \/ StartDrain \/ UNCHANGED vars
             \/ \E s \in toCheck : FoundAlive(s) \/ Discard(s)
             \/ \E s \in alive : Heartbeat(s)
             \/ \E s \in moving : DeleteSession(s)
             \/ \E b \in batch : Skip(b)
      PROVE  Total(k)' <= 1 + faults' + 2 * stops'
  <2>1. /\ UNCHANGED <<queue, call, late, processed, mode, faults, stops>>
        /\ \A m \in moving : m \in moving' \/ \A r \in sessions' : r.pid # m.pid
    <3>1. CASE Machine \/ StartCheck \/ StartDrain \/ UNCHANGED vars \/ \E b \in batch : Skip(b)
      BY <3>1 DEF Machine, Spawn, Exit, Tick, StartCheck, StartDrain, Skip, outboxVars, drainVars,
                  serverVars, monitorVars, budgetVars, vars
    <3>2. CASE \/ \E s \in toCheck : FoundAlive(s) \/ Discard(s)
               \/ \E s \in alive : Heartbeat(s)
               \/ \E s \in moving : DeleteSession(s)
      <4>1. ASSUME NEW s \in toCheck, FoundAlive(s) \/ Discard(s)
            PROVE  /\ UNCHANGED <<queue, call, late, processed, mode, faults, stops>>
                   /\ moving = {}
        BY <4>1 DEF FoundAlive, Discard, Visits, outboxVars, drainVars, serverVars, budgetVars
      <4>2. ASSUME NEW s \in alive, Heartbeat(s)
            PROVE  UNCHANGED <<queue, call, late, processed, mode, faults, stops, moving>>
        BY <4>2 DEF Heartbeat, outboxVars, drainVars, serverVars, budgetVars
      <4>3. ASSUME NEW s \in moving, DeleteSession(s)
            PROVE  /\ UNCHANGED <<queue, call, late, processed, mode, faults, stops>>
                   /\ moving = {s} /\ \A r \in sessions' : r.pid # s.pid
        BY <4>3 DEF DeleteSession, outboxVars, drainVars, serverVars, budgetVars, Facts, IndInv,
                    SnapshotHeld
      <4>. QED BY <3>2, <4>1, <4>2, <4>3
    <3>. QED BY <1>2, <3>1, <3>2
  <2>2. CASE \A visible \in SUBSET Pid : ~Poll(visible)
    BY <1>1, <2>1, <2>2, QuietPays
  <2>3. ASSUME NEW visible \in SUBSET Pid, Poll(visible)
        PROVE  Total(k)' <= 1 + faults' + 2 * stops'
    BY <2>3, PollPays
  <2>. QED BY <2>2, <2>3
<1>3. ASSUME NEW s \in toCheck, Enqueue(s)
      PROVE  Total(k)' <= 1 + faults' + 2 * stops'
  BY <1>1, <1>3, EnqueuePays DEF Enqueue, budgetVars
<1>4. ASSUME NEW b \in batch, Post(b)
      PROVE  Total(k)' <= 1 + faults' + 2 * stops'
  BY <1>1, <1>4, PostPays DEF Post, budgetVars
<1>5. ASSUME NEW c \in call, ReplyOk(c)
      PROVE  Total(k)' <= 1 + faults' + 2 * stops'
  BY <1>1, <1>5, OkPays DEF ReplyOk, budgetVars
<1>6. ASSUME NEW c \in call, ReplyTransient(c)
      PROVE  Total(k)' <= 1 + faults' + 2 * stops'
  BY <1>0, <1>6, TransientPays DEF ReplyTransient
<1>7. ASSUME NEW c \in call, ReplyRateLimited(c) \/ ReplyUnauthorized(c)
      PROVE  Total(k)' <= 1 + faults' + 2 * stops'
  BY <1>0, <1>7, RefusedPays
<1>8. CASE Server
  BY <1>1, <1>8, ServerPays
<1>9. CASE Life
  BY <1>0, <1>9, LifePays
<1>10. CASE \E visible \in SUBSET Pid : Poll(visible)
  BY <1>10, PollPays
<1>. QED
  BY <1>2, <1>3, <1>4, <1>5, <1>6, <1>7, <1>8, <1>9, <1>10 DEF Next, Monitor, Drain, Reply

(* The API acts on a session once, and once more for each failed request and    *)
(* at most twice for each stop (QueueProcessor, the UNIQUE index of the       *)
(* outbox), when pids are not reused, a game runs once at a time and the       *)
(* session was not stamped after its process exited; for any games, waits,    *)
(* failed queries and bounds.                                                *)
THEOREM RepeatsArePaidFor ==
    ASSUME ~ReusePids, ~SameExe
    PROVE  Safety => []RepeatsNeedAFailure
<1>1. Init => Facts /\ Paid
  <2>. SUFFICES ASSUME Init PROVE Facts /\ Paid
    OBVIOUS
  <2>1. IndInv
    BY IndInvInit
  <2>2. SentIsKnown /\ Played
    BY DEF Init, SentIsKnown, Held, Played, RowsWerePlayed, TimesArePast, RecordedTimeWasPlayed,
           SeenHaveRows, NoProcess
  <2>3. OnceAtATime /\ OneLongRow /\ OneEntry
    BY DEF Init, OnceAtATime, Running, NoProcess, OneLongRow, OneEntry
  <2>4. KnownAreOld /\ Paid
    BY DEF Init, KnownAreOld, Known, Waiting, Paid, Total, One, RowToSend, EntryToSend, Reserve
  <2>. QED BY <2>1, <2>2, <2>3, <2>4 DEF Facts
<1>2. Facts /\ Paid /\ [Next]_vars => (Facts /\ Paid)'
  <2>. SUFFICES ASSUME Facts, Paid, [Next]_vars PROVE Facts' /\ Paid'
    OBVIOUS
  <2>1. IndInv'
    BY IndInvStep DEF Facts
  <2>2. SentIsKnown'
    BY SentStaysKnown DEF Facts
  <2>3. Played'
    BY PlayedStep DEF Facts
  <2>4. OnceAtATime'
    BY OnceStays DEF Facts, IndInv
  <2>5. OneLongRow'
    BY <2>1, OneLongRowStays DEF Facts, IndInv, Played
  <2>6. KnownAreOld'
    BY KnownStayOld DEF Facts, Played
  <2>7. OneEntry'
    BY OneEntryStays DEF Facts
  <2>8. Paid'
    <3>. SUFFICES ASSUME NEW k \in Key, k \notin overshot'
                  PROVE  Total(k)' <= 1 + faults' + 2 * stops'
      BY DEF Paid, Key, Time
    <3>1. k \notin overshot
      BY OvershotStays
    <3>. QED BY <2>1, <3>1, CountPays DEF Paid, IndInv
  <2>. QED BY <2>1, <2>2, <2>3, <2>4, <2>5, <2>6, <2>7, <2>8 DEF Facts
<1>3. Facts /\ Paid => RepeatsNeedAFailure
  <2>. SUFFICES ASSUME Facts, Paid, NEW k \in Key \ overshot
                PROVE  processed[k] <= 1 + faults + 2 * stops
    BY DEF RepeatsNeedAFailure
  <2>1. processed[k] \in Nat /\ processed[k] <= Total(k) /\ Total(k) \in Nat
    BY DEF Facts, IndInv, TypeOK, Total, One, Reserve
  <2>2. faults \in Nat /\ stops \in Nat
    BY ConstantsAssumption DEF Facts, IndInv, TypeOK
  <2>. QED BY <2>1, <2>2 DEF Paid
<1>. QED BY <1>1, <1>2, <1>3, PTL DEF Safety
================================================================================
