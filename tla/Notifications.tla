----------------------------- MODULE Notifications -----------------------------
(****************************************************************************)
(* The API's notifications: comments on one journey, its replies and mentions, *)
(* new followers, and the release of one game players wait for, so that the   *)
(* type of a notification stands for its subject too.                        *)
(*                                                                          *)
(* A notification is a row that gathers actors for a day.  A request tells a   *)
(* player of something in three SQL statements that are no transaction: it     *)
(* looks for the open row, inserts or refreshes it, and inserts the actor.     *)
(* Each is an action here; other requests, the recipient opening the panel     *)
(* and the daily maintenance job run in between, a statement may fail, and     *)
(* the context of the request is cancelled when its client hangs up.          *)
(****************************************************************************)
EXTENDS Integers, Sequences, FiniteSets

CONSTANTS
    People,
    Owner,          \* of the journey that is commented on
    Waiting,        \* players with the game in their backlog
    Slot,           \* requests the server works on at once
    Window,         \* how long a row gathers actors: 24 hours
    Retention,      \* how long it is kept after its last activity: 60 days
    Near,           \* a release this near is announced: 7 days
    Dates,          \* the release dates IGDB may report for the game
    None,           \* no delivery
    Starts,         \* where the clock, the release date and the bounded counters
                    \* may start: a behaviour spends its bounds on requests or on
                    \* the job
    MaxTime,        \* bound on the clock
    MaxRequests,    \* bound on comments, their deletions and follows
    MaxJobs,        \* bound on runs of the maintenance job
    MaxFaults       \* bound on failed statements and lost clients

ASSUME NotificationsAssumption ==
    /\ Owner \in People /\ Waiting \subseteq People /\ IsFiniteSet(Waiting)
    /\ Window \in Nat \ {0} /\ Near \in Nat /\ Retention \in Nat
    /\ Window < Retention /\ 2 * Near < Retention
    /\ Dates \subseteq Nat
    /\ Starts \subseteq [now : Nat, release : Dates,
                    requests : Nat, jobs : Nat, faults : Nat]

VARIABLES
    now,            \* the clock, in units of the shortest period
    posted,         \* the authors of the comments ever posted, in order
    standing,       \* table comments: those not deleted
    rows,           \* table notifications with its actors, by id; looked is
                    \* history: the id that was next when its request looked
    nextId,         \* next id of a row
    slots,          \* requests in flight
    release,        \* igdb_games.release_date of the game
    job,            \* the maintenance job: where it is
    told,           \* history: deliveries that succeeded; seen: the panel has
                    \* been opened since
    announced,      \* history: the announcements of the release
    requests, jobs, faults  \* bounded counters

comments == <<posted, standing>>
upkeep   == <<release, job, announced>>
budget   == <<requests, jobs, faults>>
vars     == <<now, comments, rows, nextId, slots, upkeep, told, budget>>

Batched == {"new_comment", "new_comment_reply", "new_mention", "new_follower"}
Delivery == [type : Batched, to : People]

ASSUME NoneAssumption == None \notin Delivery

Idle == [at |-> "idle", by |-> Owner, comment |-> 0, todo |-> {}, listed |-> TRUE,
         cur |-> None, row |-> 0, looked |-> 0, born |-> 0, read |-> FALSE]

Init ==
    /\ \E b \in Starts : /\ now = b.now /\ release = b.release
                         /\ requests = b.requests /\ jobs = b.jobs /\ faults = b.faults
    /\ posted = <<>> /\ standing = {}
    /\ rows = [i \in {} |-> Idle] /\ nextId = 1
    /\ slots = [s \in Slot |-> Idle]
    /\ job = "idle"
    /\ told = {} /\ announced = {}

At(s, place) == slots[s].at = place
SetSlot(s, r) == slots' = [slots EXCEPT ![s] = r]
Fault == faults < MaxFaults /\ faults' = faults + 1

(* Mutant: a request that has nothing to deliver is never answered. *)
SettledNever(r) == [r EXCEPT !.at = "look"]

(* A request with nothing left to deliver is answered. *)
Settled(r) == IF r.listed /\ r.todo = {} THEN Idle ELSE [r EXCEPT !.at = "look"]

Dropped(r) == Settled([r EXCEPT !.todo = @ \ {r.cur}, !.cur = None])

--------------------------------------------------------------------------------
(* postComment, deleteComment and followPlayer.                              *)

Arrive(s, r) ==
    /\ At(s, "idle")
    /\ requests < MaxRequests /\ requests' = requests + 1
    /\ SetSlot(s, r)

(* The comment is in, with those of its mentions that could be resolved and   *)
(* stored; the author's own is left out.                                     *)
Post(s, a, mentioned) ==
    /\ Arrive(s, [Idle EXCEPT !.at = "meta", !.by = a, !.comment = Len(posted) + 1,
                    !.todo = {[type |-> "new_mention", to |-> m] : m \in mentioned \ {a}},
                    !.listed = FALSE, !.born = now])
    /\ posted' = Append(posted, a)
    /\ standing' = standing \cup {Len(posted) + 1}
    /\ UNCHANGED <<now, rows, nextId, upkeep, told, jobs, faults>>

(* GetJourneyMeta: whose journey it is. *)
Meta(s) ==
    /\ At(s, "meta")
    /\ SetSlot(s, [slots[s] EXCEPT !.at = "look",
                    !.todo = @ \cup (IF slots[s].by = Owner THEN {}
                                     ELSE {[type |-> "new_comment", to |-> Owner]})])
    /\ UNCHANGED <<now, comments, rows, nextId, upkeep, told, budget>>

Left(s, type) == {d \in slots[s].todo : d.type = type}

Listing(s) == At(s, "look") /\ ~slots[s].listed /\ Left(s, "new_comment") = {}

Commenters == {posted[i] : i \in standing}

(* ListPriorCommenterIDs, without the owner, who is told already. *)
Prior(s) == Commenters \ {slots[s].by, Owner}

ListPrior(s) ==
    /\ Listing(s)
    /\ SetSlot(s, Settled([slots[s] EXCEPT !.listed = TRUE,
                    !.todo = @ \cup {[type |-> "new_comment_reply", to |-> c] : c \in Prior(s)}]))
    /\ UNCHANGED <<now, comments, rows, nextId, upkeep, told, budget>>

DeleteComment(i) ==
    /\ i \in standing
    /\ requests < MaxRequests /\ requests' = requests + 1
    /\ standing' = standing \ {i}
    /\ UNCHANGED <<now, posted, rows, nextId, slots, upkeep, told, jobs, faults>>

(* The row of follows is in; following again is no error, and tells again. *)
Follow(s, a, t) ==
    /\ a # t
    /\ Arrive(s, [Idle EXCEPT !.at = "look", !.by = a, !.born = now,
                    !.todo = {[type |-> "new_follower", to |-> t]}])
    /\ UNCHANGED <<now, comments, rows, nextId, upkeep, told, jobs, faults>>

--------------------------------------------------------------------------------
(* Upsert...Notification: what comes next is the owner's, then, once the prior *)
(* commenters are listed, the replies, then the mentions.                     *)

Ready(s) ==
    IF Left(s, "new_comment") # {} THEN Left(s, "new_comment")
    ELSE IF ~slots[s].listed THEN {}
    ELSE IF Left(s, "new_comment_reply") # {} THEN Left(s, "new_comment_reply")
    ELSE slots[s].todo

(* Mutant: only an unread row gathers actors. *)
OfKeyUnread(d, id) == rows[id].to = d.to /\ rows[id].type = d.type /\ ~rows[id].read

OfKey(d, id) == rows[id].to = d.to /\ rows[id].type = d.type

(* Mutant: a row gathers actors for good. *)
OpenAlways(id) == TRUE

(* batch_until > now(). *)
Open(id) == now < rows[id].until

OpenRows(d) == {id \in DOMAIN rows : OfKey(d, id) /\ Open(id)}

(* SELECT ... ORDER BY id DESC LIMIT 1; row 0: there is none. *)
Look(s, d) ==
    /\ At(s, "look") /\ d \in Ready(s)
    /\ \E id \in OpenRows(d) \cup {0} :
         /\ \A other \in OpenRows(d) : other <= id
         /\ SetSlot(s, [slots[s] EXCEPT !.at = "write", !.cur = d, !.row = id,
                                        !.looked = nextId])
    /\ UNCHANGED <<now, comments, rows, nextId, upkeep, told, budget>>

(* Mutant: the row stays as read as it was. *)
TouchedOnly(r) == [r EXCEPT !.updated = now]

Touched(r) == [r EXCEPT !.updated = now, !.read = FALSE]

NewRow(s) ==
    [to |-> slots[s].cur.to, type |-> slots[s].cur.type, read |-> FALSE, actors |-> {},
     created |-> now, updated |-> now, until |-> now + Window, looked |-> slots[s].looked]

(* Nobody knows of the new row but the request itself. *)
Insert(s) ==
    /\ At(s, "write") /\ slots[s].row = 0
    /\ rows' = [id \in DOMAIN rows \cup {nextId} |->
                    IF id = nextId THEN NewRow(s) ELSE rows[id]]
    /\ nextId' = nextId + 1
    /\ SetSlot(s, [slots[s] EXCEPT !.at = "actor", !.row = nextId, !.read = FALSE])
    /\ UNCHANGED <<now, comments, upkeep, told, budget>>

(* An UPDATE of no row is no error either. *)
Refresh(s) ==
    /\ At(s, "write") /\ slots[s].row # 0
    /\ rows' = [id \in DOMAIN rows |->
                    IF id = slots[s].row THEN Touched(rows[id]) ELSE rows[id]]
    /\ SetSlot(s, [slots[s] EXCEPT !.at = "actor", !.read = FALSE])
    /\ UNCHANGED <<now, comments, nextId, upkeep, told, budget>>

(* ON CONFLICT DO NOTHING. *)
Joined(r, a) == [r EXCEPT !.actors = @ \cup {a}]

(* The foreign key refuses the actor of a row that is gone, which would be a    *)
(* failed delivery; ToldIsKept is why the job never makes it happen.         *)
AddActor(s) ==
    LET r == slots[s] IN
    /\ At(s, "actor") /\ r.row \in DOMAIN rows
    /\ rows' = [rows EXCEPT ![r.row] = Joined(@, r.by)]
    /\ told' = told \cup {[type |-> r.cur.type, to |-> r.cur.to, by |-> r.by,
                           comment |-> r.comment, row |-> r.row, time |-> now, seen |-> r.read]}
    /\ SetSlot(s, Dropped(r))
    /\ UNCHANGED <<now, comments, nextId, upkeep, budget>>

--------------------------------------------------------------------------------
(* Errors are logged and the request goes on: best effort.                   *)

DeliveryFails(s) ==
    /\ Fault
    /\ \/ /\ slots[s].at \in {"write", "actor"}
          /\ SetSlot(s, Dropped(slots[s]))
       \/ \E d \in Ready(s) :
            /\ At(s, "look")
            /\ SetSlot(s, Dropped([slots[s] EXCEPT !.cur = d]))
    /\ UNCHANGED <<now, comments, rows, nextId, upkeep, told, requests, jobs>>

ListingFails(s) ==
    /\ Listing(s) /\ Fault
    /\ SetSlot(s, Settled([slots[s] EXCEPT !.listed = TRUE]))
    /\ UNCHANGED <<now, comments, rows, nextId, upkeep, told, requests, jobs>>

(* The journey's row cannot be read, the client hangs up, the server stops:   *)
(* nothing more is delivered.                                                *)
Abandon(s) ==
    /\ ~At(s, "idle") /\ Fault
    /\ SetSlot(s, Idle)
    /\ UNCHANGED <<now, comments, rows, nextId, upkeep, told, requests, jobs>>

--------------------------------------------------------------------------------
(* MarkNotificationsRead: one statement for all rows of the player.          *)

MarkRead(u) ==
    /\ \E id \in DOMAIN rows : rows[id].to = u /\ ~rows[id].read
    /\ rows' = [id \in DOMAIN rows |->
                    IF rows[id].to = u THEN [rows[id] EXCEPT !.read = TRUE] ELSE rows[id]]
    /\ told' = {IF t.to = u THEN [t EXCEPT !.seen = TRUE] ELSE t : t \in told}
    /\ slots' = [s \in Slot |-> IF At(s, "actor") /\ slots[s].cur.to = u
                                THEN [slots[s] EXCEPT !.read = TRUE] ELSE slots[s]]
    /\ UNCHANGED <<now, comments, nextId, upkeep, budget>>

--------------------------------------------------------------------------------
(* The maintenance job: evictData, then refreshUpcomingReleases.  It ends at   *)
(* the first error.                                                          *)

(* Mutant: a row is dropped when it is closed. *)
AgedWhenClosed(r) == r.until < now

(* updated_at < NOW() - 60 days. *)
Aged(r) == r.updated + Retention < now

Evict ==
    /\ job = "idle" /\ job' = "evicted"
    /\ jobs < MaxJobs /\ jobs' = jobs + 1
    /\ rows' = [id \in {i \in DOMAIN rows : ~Aged(rows[i])} |-> rows[id]]
    /\ UNCHANGED <<now, comments, nextId, slots, release, announced, told, requests, faults>>

(* GetBatchReleaseDates, and the UPDATE of the game. *)
RefreshRelease(date) ==
    /\ job = "evicted" /\ job' = "dated"
    /\ release' = date
    /\ UNCHANGED <<now, comments, rows, nextId, slots, announced, told, budget>>

(* release_date BETWEEN NOW() - 7 days AND NOW() + 7 days. *)
Upcoming == release - Near <= now /\ now <= release + Near

(* Mutant: only an unread announcement counts. *)
UntoldUnread == {p \in Waiting : \A id \in DOMAIN rows :
                    ~(rows[id].to = p /\ rows[id].type = "backlog_release" /\ ~rows[id].read)}

(* NOT EXISTS. *)
Untold == {p \in Waiting : \A id \in DOMAIN rows :
                    ~(rows[id].to = p /\ rows[id].type = "backlog_release")}

Hearing == IF Upcoming THEN Untold ELSE {}

(* One INSERT ... SELECT for everyone; the order of the ids is its own. *)
Announce ==
    /\ job = "dated" /\ job' = "idle"
    /\ LET new == nextId .. nextId + Cardinality(Hearing) - 1 IN
       \E to \in [new -> Hearing] :
         /\ \A p \in Hearing : \E i \in new : to[i] = p
         /\ rows' = [id \in DOMAIN rows \cup new |->
                IF id \in new
                THEN [to |-> to[id], type |-> "backlog_release", read |-> FALSE, actors |-> {},
                      created |-> now, updated |-> now, until |-> now, looked |-> nextId]
                ELSE rows[id]]
         /\ nextId' = nextId + Cardinality(Hearing)
    /\ announced' = announced \cup {[to |-> p, date |-> release, time |-> now] : p \in Hearing}
    /\ UNCHANGED <<now, comments, slots, release, told, budget>>

JobFails ==
    /\ job # "idle" /\ Fault
    /\ job' = "idle"
    /\ UNCHANGED <<now, comments, rows, nextId, slots, release, announced, told, requests, jobs>>

--------------------------------------------------------------------------------
(* A request lives through one step of the clock at most. *)
Tick ==
    /\ now < MaxTime
    /\ \A s \in Slot : ~At(s, "idle") => slots[s].born = now
    /\ now' = now + 1
    /\ UNCHANGED <<comments, rows, nextId, slots, upkeep, told, budget>>

Step(s) ==
    \/ Meta(s) \/ ListPrior(s)
    \/ \E d \in Delivery : Look(s, d)
    \/ Insert(s) \/ Refresh(s) \/ AddActor(s)

Next ==
    \/ \E s \in Slot :
         \/ \E a \in People : \E mentioned \in SUBSET People : Post(s, a, mentioned)
         \/ \E a, t \in People : Follow(s, a, t)
         \/ Step(s)
         \/ DeliveryFails(s) \/ ListingFails(s) \/ Abandon(s)
    \/ \E i \in standing : DeleteComment(i)
    \/ \E u \in People : MarkRead(u)
    \/ Evict \/ Announce \/ JobFails
    \/ \E date \in Dates : RefreshRelease(date)
    \/ Tick

Spec == Init /\ [][Next]_vars
--------------------------------------------------------------------------------
Row == [to : People, type : Batched \cup {"backlog_release"}, read : BOOLEAN,
        actors : SUBSET People, created : Nat, updated : Nat, until : Nat, looked : Nat]
Request == [at : {"idle", "meta", "look", "write", "actor"}, by : People, comment : Nat,
            todo : SUBSET Delivery, listed : BOOLEAN, cur : Delivery \cup {None},
            row : Nat, looked : Nat, born : Nat, read : BOOLEAN]
Told == [type : Batched, to : People, by : People, comment : Nat, row : Nat,
         time : Nat, seen : BOOLEAN]

(* Every variable has its type, a statement works on a delivery, and a request *)
(* that looks has something left to do.                                      *)
NotificationsTypeOK ==
    /\ now \in Nat
    /\ posted \in Seq(People) /\ standing \subseteq 1 .. Len(posted)
    /\ nextId \in Nat \ {0}
    /\ DOMAIN rows \subseteq 1 .. nextId - 1
    /\ \A id \in DOMAIN rows : rows[id] \in Row
    /\ slots \in [Slot -> Request]
    /\ \A s \in Slot : slots[s].at \in {"write", "actor"} => slots[s].cur # None
    /\ \A s \in Slot : At(s, "meta") => ~slots[s].listed
    /\ \A s \in Slot : At(s, "look") => (~slots[s].listed \/ slots[s].todo # {})
    /\ release \in Nat /\ job \in {"idle", "evicted", "dated"}
    /\ told \subseteq Told
    /\ announced \subseteq [to : People, date : Nat, time : Nat]
    /\ requests \in Nat /\ jobs \in Nat /\ faults \in Nat

SameKey(i, j) == rows[i].to = rows[j].to /\ rows[i].type = rows[j].type

(* Two rows that gather actors for one player and subject at the same time     *)
(* come only from requests that raced: the one that inserted the later row     *)
(* had looked before the earlier one was there (db/notifications.go:85, a      *)
(* SELECT and an INSERT that no index guards).  Evictions, closed rows and      *)
(* any number of requests, failures and readings do not make a second one.    *)
SecondBatchesRaced ==
    \A i, j \in DOMAIN rows :
        (i < j /\ SameKey(i, j) /\ Open(i) /\ Open(j)) => rows[j].looked <= i

(* A row is about one day: whatever is added by a request that found it open   *)
(* before it closed comes within the window of its creation.                 *)
BatchesSeal ==
    \A id \in DOMAIN rows :
        rows[id].type \in Batched => rows[id].updated <= rows[id].created + Window

(* Who was told of something finds the one it was about among the actors of a   *)
(* notification for the retention, whatever the job evicts: the job goes by    *)
(* the last activity, and so never takes a row from under a request.          *)
ToldIsKept ==
    \A t \in told : now <= t.time + Retention - 1 =>
        \E id \in DOMAIN rows : OfKey(t, id) /\ t.by \in rows[id].actors

(* What a player was told since the panel was last opened shows as unread.  A   *)
(* reading between the refresh of a row and its new actor counts as having     *)
(* seen that actor.                                                          *)
NewsIsUnread ==
    \A t \in told : (~t.seen /\ t.row \in DOMAIN rows) => ~rows[t.row].read

(* A release is announced once to a player for one date: the announcement      *)
(* outlives the days around the date in which it would be made again, however  *)
(* the date moves in between.                                                *)
ReleaseToldOnce ==
    \A x, y \in announced : (x.to = y.to /\ x.date = y.date) => x = y

================================================================================
