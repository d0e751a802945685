-------------------------- MODULE NotificationsProofs --------------------------
(****************************************************************************)
(* Proofs about the notifications: types, rows that overlap only by a race,    *)
(* rows that close after a day, and releases that are announced once; and      *)
(* about the agent's notification monitor, which reads them.                  *)
(****************************************************************************)
EXTENDS NotificationMonitor, FiniteSetTheorems, TLAPS

USE DEF At, SetSlot

(* What a request in flight looks like. *)
Sound(r) ==
    /\ r \in Request
    /\ r.at \in {"write", "actor"} => r.cur # None
    /\ r.at = "meta" => ~r.listed
    /\ r.at = "look" => (~r.listed \/ r.todo # {})

LEMMA IdleIsSound == Sound(Idle)
BY NotificationsAssumption DEF Sound, Idle, Request

(* A slot that is set to a sound request leaves all of them sound. *)
LEMMA SetSlotSound ==
    ASSUME slots \in [Slot -> Request], \A x \in Slot : Sound(slots[x]),
           NEW s \in Slot, NEW r, Sound(r), SetSlot(s, r)
    PROVE  slots' \in [Slot -> Request] /\ \A x \in Slot : Sound(slots[x])'
BY DEF Sound

(* Settling and dropping keep a request sound. *)
LEMMA SettledIsSound ==
    ASSUME NEW r \in Request PROVE Sound(Settled(r))
BY IdleIsSound DEF Sound, Settled, Request

LEMMA DroppedIsSound ==
    ASSUME NEW r \in Request PROVE Sound(Dropped(r))
<1> [r EXCEPT !.todo = @ \ {r.cur}, !.cur = None] \in Request
    BY DEF Request
<1> QED BY SettledIsSound DEF Dropped

LEMMA TypeAsSound ==
    NotificationsTypeOK => \A s \in Slot : Sound(slots[s]) /\ slots[s] \in Request
BY DEF NotificationsTypeOK, Sound

(* The announcement gives the players distinct new ids, as many as they are. *)
LEMMA HearingCounted == Hearing \subseteq People /\ Cardinality(Hearing) \in Nat
<1>1. Hearing \subseteq Waiting
  BY DEF Hearing, Untold
<1>2. IsFiniteSet(Hearing)
  BY <1>1, FS_Subset, NotificationsAssumption
<1>. QED BY <1>1, <1>2, FS_CardinalityType, NotificationsAssumption

LEMMA InitTypes == Init => NotificationsTypeOK
<1>. SUFFICES ASSUME Init PROVE NotificationsTypeOK
  OBVIOUS
<1>1. posted \in Seq(People) /\ standing \subseteq 1 .. Len(posted)
  BY DEF Init
<1>2. slots \in [Slot -> Request] /\ \A s \in Slot : Sound(slots[s])
  BY IdleIsSound DEF Init, Sound
<1>3. DOMAIN rows = {} /\ nextId = 1
  BY DEF Init
<1>. QED BY <1>1, <1>2, <1>3, NotificationsAssumption DEF Init, NotificationsTypeOK, Sound

(* A step that leaves the tables alone and sets a slot to a sound request. *)
Quiet == UNCHANGED <<now, comments, rows, nextId, upkeep, told>>
Counting == requests' \in Nat /\ jobs' \in Nat /\ faults' \in Nat

LEMMA QuietTypes ==
    ASSUME NotificationsTypeOK, Quiet, Counting,
           NEW s \in Slot, NEW r, Sound(r), SetSlot(s, r)
    PROVE  NotificationsTypeOK'
<1>1. slots' \in [Slot -> Request] /\ \A x \in Slot : Sound(slots[x])'
  <2>1. slots \in [Slot -> Request] /\ \A x \in Slot : Sound(slots[x])
    BY TypeAsSound DEF NotificationsTypeOK
  <2>. QED BY <2>1, SetSlotSound
<1>. QED BY <1>1 DEF NotificationsTypeOK, Quiet, Counting, Sound, comments, upkeep

(* The requests' own steps, one by one. *)
LEMMA PostTypes ==
    ASSUME NotificationsTypeOK, NEW s \in Slot, NEW a \in People, NEW m \in SUBSET People,
           Post(s, a, m)
    PROVE  NotificationsTypeOK'
<1>. DEFINE todo == {[type |-> "new_mention", to |-> x] : x \in m \ {a}}
            r == [Idle EXCEPT !.at = "meta", !.by = a, !.comment = Len(posted) + 1,
                              !.todo = todo, !.listed = FALSE, !.born = now]
<1>1. todo \subseteq Delivery
  BY DEF Delivery, Batched
<1>2. Sound(r)
  <2>1. Len(posted) + 1 \in Nat /\ now \in Nat
    BY DEF NotificationsTypeOK
  <2>2. r \in Request
    BY <1>1, <2>1, IdleIsSound DEF Sound, Request
  <2>3. r.at = "meta" /\ r.listed = FALSE
    BY DEF Idle
  <2>. QED BY <2>2, <2>3 DEF Sound
<1>3. SetSlot(s, r) /\ requests' = requests + 1
  BY DEF Post, Arrive
<1>4. slots' \in [Slot -> Request] /\ \A x \in Slot : Sound(slots[x])'
  <2>. HIDE DEF r
  <2>1. slots \in [Slot -> Request] /\ \A x \in Slot : Sound(slots[x])
    BY TypeAsSound DEF NotificationsTypeOK
  <2>. QED BY <2>1, <1>2, <1>3, SetSlotSound
<1>5. posted' \in Seq(People) /\ standing' \subseteq 1 .. Len(posted')
  BY DEF Post, NotificationsTypeOK
<1>6. UNCHANGED <<now, rows, nextId, release, job, announced, told, jobs, faults>>
  BY DEF Post, Arrive, upkeep
<1>. HIDE DEF r, todo
<1>. QED BY <1>3, <1>4, <1>5, <1>6 DEF NotificationsTypeOK, Sound

LEMMA FollowTypes ==
    ASSUME NotificationsTypeOK, NEW s \in Slot, NEW a \in People, NEW t \in People,
           Follow(s, a, t)
    PROVE  NotificationsTypeOK'
<1>. DEFINE r == [Idle EXCEPT !.at = "look", !.by = a, !.born = now,
                              !.todo = {[type |-> "new_follower", to |-> t]}]
<1>1. Sound(r)
  <2>1. {[type |-> "new_follower", to |-> t]} \subseteq Delivery /\ now \in Nat
    BY DEF Delivery, Batched, NotificationsTypeOK
  <2>2. r \in Request
    BY <2>1, IdleIsSound DEF Sound, Request
  <2>3. r.at = "look" /\ r.todo # {}
    BY DEF Idle
  <2>. QED BY <2>2, <2>3 DEF Sound
<1>2. SetSlot(s, r) /\ requests' = requests + 1
  BY DEF Follow, Arrive
<1>3. Quiet /\ Counting
  BY <1>2 DEF Follow, Quiet, Counting, NotificationsTypeOK
<1>. HIDE DEF r
<1>. QED BY <1>1, <1>2, <1>3, QuietTypes

LEMMA MetaTypes ==
    ASSUME NotificationsTypeOK, NEW s \in Slot, Meta(s) PROVE NotificationsTypeOK'
<1>. DEFINE more == IF slots[s].by = Owner THEN {} ELSE {[type |-> "new_comment", to |-> Owner]}
            r == [slots[s] EXCEPT !.at = "look", !.todo = @ \cup more]
<1>0. slots[s] \in Request /\ slots[s].at = "meta"
  BY TypeAsSound DEF Meta
<1>1. more \subseteq Delivery
  BY NotificationsAssumption DEF Delivery, Batched
<1>2. r \in Request
  BY <1>0, <1>1 DEF Request
<1>3. Sound(r)
  BY <1>0, <1>2, TypeAsSound DEF Sound, Request
<1>4. SetSlot(s, r) /\ Quiet /\ Counting
  BY DEF Meta, Quiet, Counting, budget, NotificationsTypeOK
<1>. HIDE DEF r
<1>. QED BY <1>3, <1>4, QuietTypes

LEMMA ListPriorTypes ==
    ASSUME NotificationsTypeOK, NEW s \in Slot, ListPrior(s) PROVE NotificationsTypeOK'
<1>. DEFINE more == {[type |-> "new_comment_reply", to |-> c] : c \in Prior(s)}
            r == [slots[s] EXCEPT !.listed = TRUE, !.todo = @ \cup more]
<1>1. more \subseteq Delivery
  BY DEF Prior, Commenters, Delivery, Batched, NotificationsTypeOK
<1>2. r \in Request
  BY <1>1, TypeAsSound DEF Request
<1>3. SetSlot(s, Settled(r)) /\ Quiet /\ Counting
  BY DEF ListPrior, Quiet, Counting, budget, NotificationsTypeOK
<1>. HIDE DEF r
<1>. QED BY <1>2, <1>3, SettledIsSound, QuietTypes

LEMMA LookTypes ==
    ASSUME NotificationsTypeOK, NEW s \in Slot, NEW d \in Delivery, Look(s, d)
    PROVE  NotificationsTypeOK'
<1>1. PICK id \in OpenRows(d) \cup {0} :
            SetSlot(s, [slots[s] EXCEPT !.at = "write", !.cur = d, !.row = id,
                                        !.looked = nextId])
  BY DEF Look
<1>. DEFINE r == [slots[s] EXCEPT !.at = "write", !.cur = d, !.row = id, !.looked = nextId]
<1>2. id \in Nat /\ nextId \in Nat
  BY DEF OpenRows, NotificationsTypeOK
<1>3. r \in Request /\ r.at = "write" /\ r.cur = d
  BY <1>2, TypeAsSound DEF Request
<1>4. Sound(r)
  BY <1>3, NoneAssumption DEF Sound
<1>5. Quiet /\ Counting
  BY DEF Look, Quiet, Counting, budget, NotificationsTypeOK
<1>. HIDE DEF r
<1>. QED BY <1>1, <1>4, <1>5, QuietTypes DEF r

(* A new row, a refreshed one and one with another actor are rows.           *)
LEMMA InsertTypes ==
    ASSUME NotificationsTypeOK, NEW s \in Slot, Insert(s) PROVE NotificationsTypeOK'
<1>. DEFINE r == [slots[s] EXCEPT !.at = "actor", !.row = nextId, !.read = FALSE]
<1>0. slots[s] \in Request /\ slots[s].at = "write" /\ slots[s].cur \in Delivery
  BY TypeAsSound DEF Insert, Sound, Request
<1>1. NewRow(s) \in Row
  BY <1>0, NotificationsAssumption DEF NewRow, Row, Delivery, Request, NotificationsTypeOK
<1>2. r \in Request /\ r.at = "actor" /\ r.cur # None
  BY <1>0, NoneAssumption DEF Request, NotificationsTypeOK
<1>3. Sound(r) /\ SetSlot(s, r)
  BY <1>2 DEF Sound, Insert
<1>. HIDE DEF r
<1>4. slots' \in [Slot -> Request] /\ \A x \in Slot : Sound(slots[x])'
  <2>1. slots \in [Slot -> Request] /\ \A x \in Slot : Sound(slots[x])
    BY TypeAsSound DEF NotificationsTypeOK
  <2>. QED BY <2>1, <1>3, SetSlotSound
<1>5. nextId' \in Nat \ {0} /\ DOMAIN rows' \subseteq 1 .. nextId' - 1
  BY DEF Insert, NotificationsTypeOK
<1>6. \A id \in DOMAIN rows' : rows'[id] \in Row
  BY <1>1 DEF Insert, NotificationsTypeOK
<1>7. UNCHANGED <<now, comments, upkeep, told, budget>>
  BY DEF Insert
<1>. QED BY <1>4, <1>5, <1>6, <1>7 DEF NotificationsTypeOK, Sound, comments, upkeep, budget

LEMMA RefreshTypes ==
    ASSUME NotificationsTypeOK, NEW s \in Slot, Refresh(s) PROVE NotificationsTypeOK'
<1>. DEFINE r == [slots[s] EXCEPT !.at = "actor", !.read = FALSE]
<1>0. slots[s] \in Request /\ slots[s].at = "write" /\ slots[s].cur # None
  BY TypeAsSound DEF Refresh, Sound
<1>1. \A x \in Row : Touched(x) \in Row
  BY DEF Touched, Row, NotificationsTypeOK
<1>2. r \in Request /\ r.at = "actor" /\ r.cur # None
  BY <1>0 DEF Request
<1>3. Sound(r) /\ SetSlot(s, r)
  BY <1>2 DEF Sound, Refresh
<1>. HIDE DEF r
<1>4. slots' \in [Slot -> Request] /\ \A x \in Slot : Sound(slots[x])'
  <2>1. slots \in [Slot -> Request] /\ \A x \in Slot : Sound(slots[x])
    BY TypeAsSound DEF NotificationsTypeOK
  <2>. QED BY <2>1, <1>3, SetSlotSound
<1>5. DOMAIN rows' = DOMAIN rows /\ \A id \in DOMAIN rows' : rows'[id] \in Row
  BY <1>1 DEF Refresh, NotificationsTypeOK
<1>6. UNCHANGED <<now, comments, nextId, upkeep, told, budget>>
  BY DEF Refresh
<1>. QED BY <1>4, <1>5, <1>6 DEF NotificationsTypeOK, Sound, comments, upkeep, budget

LEMMA AddActorTypes ==
    ASSUME NotificationsTypeOK, NEW s \in Slot, AddActor(s) PROVE NotificationsTypeOK'
<1>. DEFINE r == slots[s]
<1>0. r \in Request /\ r.cur \in Delivery /\ r.row \in DOMAIN rows
  BY TypeAsSound DEF AddActor, Sound, Request
<1>1. Joined(rows[r.row], r.by) \in Row
  <2>1. rows[r.row] \in Row /\ r.by \in People
    BY <1>0 DEF Request, NotificationsTypeOK
  <2>. QED BY <2>1 DEF Joined, Row
<1>2. slots' \in [Slot -> Request] /\ \A x \in Slot : Sound(slots[x])'
  <2>1. slots \in [Slot -> Request] /\ \A x \in Slot : Sound(slots[x])
    BY TypeAsSound DEF NotificationsTypeOK
  <2>2. Sound(Dropped(r)) /\ SetSlot(s, Dropped(r))
    BY <1>0, DroppedIsSound DEF AddActor
  <2>. QED BY <2>1, <2>2, SetSlotSound
<1>3. DOMAIN rows' = DOMAIN rows /\ \A id \in DOMAIN rows' : rows'[id] \in Row
  BY <1>1 DEF AddActor, NotificationsTypeOK
<1>4. told' \subseteq Told
  BY <1>0 DEF AddActor, Told, Delivery, Request, NotificationsTypeOK
<1>5. UNCHANGED <<now, comments, nextId, upkeep, budget>>
  BY DEF AddActor
<1>. QED BY <1>2, <1>3, <1>4, <1>5 DEF NotificationsTypeOK, Sound, comments, upkeep, budget

LEMMA FailureTypes ==
    ASSUME NotificationsTypeOK, NEW s \in Slot,
           DeliveryFails(s) \/ ListingFails(s) \/ Abandon(s)
    PROVE  NotificationsTypeOK'
<1>0. slots[s] \in Request
  BY TypeAsSound
<1>1. Quiet /\ Counting
  BY DEF DeliveryFails, ListingFails, Abandon, Fault, Quiet, Counting, budget,
         NotificationsTypeOK
<1>2. CASE DeliveryFails(s)
  <2>1. CASE SetSlot(s, Dropped(slots[s]))
    BY <1>0, <1>1, <2>1, DroppedIsSound, QuietTypes
  <2>2. CASE \E d \in Ready(s) : At(s, "look") /\ SetSlot(s, Dropped([slots[s] EXCEPT !.cur = d]))
    <3>1. PICK d \in Ready(s) : SetSlot(s, Dropped([slots[s] EXCEPT !.cur = d]))
      BY <2>2
    <3>2. d \in Delivery
      BY <1>0 DEF Ready, Left, Request
    <3>3. [slots[s] EXCEPT !.cur = d] \in Request
      BY <1>0, <3>2 DEF Request
    <3>. QED BY <1>1, <3>1, <3>3, DroppedIsSound, QuietTypes
  <2>. QED BY <1>2, <2>1, <2>2 DEF DeliveryFails
<1>3. CASE ListingFails(s)
  <2>1. [slots[s] EXCEPT !.listed = TRUE] \in Request
    BY <1>0 DEF Request
  <2>. QED BY <1>1, <1>3, <2>1, SettledIsSound, QuietTypes DEF ListingFails
<1>4. CASE Abandon(s)
  BY <1>1, <1>4, IdleIsSound, QuietTypes DEF Abandon
<1>. QED BY <1>2, <1>3, <1>4

--------------------------------------------------------------------------------
(* The panel, the job and the clock.                                         *)
LEMMA MarkReadTypes ==
    ASSUME NotificationsTypeOK, NEW u \in People, MarkRead(u) PROVE NotificationsTypeOK'
<1>1. \A x \in Row : [x EXCEPT !.read = TRUE] \in Row
  BY DEF Row
<1>2. DOMAIN rows' = DOMAIN rows /\ \A id \in DOMAIN rows' : rows'[id] \in Row
  BY <1>1 DEF MarkRead, NotificationsTypeOK
<1>3. \A x \in Request : [x EXCEPT !.read = TRUE] \in Request
  BY DEF Request
<1>4. \A x \in Request : LET y == [x EXCEPT !.read = TRUE] IN Sound(x) => Sound(y)
  BY <1>3 DEF Sound, Request
<1>5. slots' \in [Slot -> Request] /\ \A x \in Slot : Sound(slots'[x])
  BY <1>3, <1>4, TypeAsSound DEF MarkRead
<1>6. told' \subseteq Told
  BY DEF MarkRead, Told, NotificationsTypeOK
<1>7. UNCHANGED <<now, comments, nextId, upkeep, budget>>
  BY DEF MarkRead
<1>. QED BY <1>2, <1>5, <1>6, <1>7 DEF NotificationsTypeOK, Sound, comments, upkeep, budget

LEMMA EvictTypes ==
    ASSUME NotificationsTypeOK, Evict PROVE NotificationsTypeOK'
<1>1. DOMAIN rows' \subseteq DOMAIN rows /\ \A id \in DOMAIN rows' : rows'[id] = rows[id]
  BY DEF Evict
<1>2. job' = "evicted" /\ jobs' = jobs + 1
  BY DEF Evict
<1>3. UNCHANGED <<now, comments, nextId, slots, release, announced, told, requests, faults>>
  BY DEF Evict
<1>. QED BY <1>1, <1>2, <1>3 DEF NotificationsTypeOK, comments

LEMMA AnnounceTypes ==
    ASSUME NotificationsTypeOK, Announce PROVE NotificationsTypeOK'
<1>. DEFINE new == nextId .. nextId + Cardinality(Hearing) - 1
<1>1. PICK to \in [new -> Hearing] :
        rows' = [id \in DOMAIN rows \cup new |->
                IF id \in new
                THEN [to |-> to[id], type |-> "backlog_release", read |-> FALSE, actors |-> {},
                      created |-> now, updated |-> now, until |-> now, looked |-> nextId]
                ELSE rows[id]]
  BY DEF Announce
<1>2. nextId' = nextId + Cardinality(Hearing) /\ job' = "idle"
  BY DEF Announce
<1>3. nextId' \in Nat \ {0} /\ DOMAIN rows' \subseteq 1 .. nextId' - 1
  BY <1>1, <1>2, HearingCounted DEF NotificationsTypeOK
<1>4. \A id \in DOMAIN rows' : rows'[id] \in Row
  BY <1>1, HearingCounted DEF Row, NotificationsTypeOK
<1>5. announced' \subseteq [to : People, date : Nat, time : Nat]
  BY HearingCounted DEF Announce, NotificationsTypeOK
<1>6. UNCHANGED <<now, comments, slots, release, told, budget>>
  BY DEF Announce
<1>. QED BY <1>2, <1>3, <1>4, <1>5, <1>6 DEF NotificationsTypeOK, comments, budget

LEMMA OtherTypes ==
    ASSUME NotificationsTypeOK,
           \/ \E i \in standing : DeleteComment(i)
           \/ \E date \in Dates : RefreshRelease(date)
           \/ JobFails \/ Tick \/ UNCHANGED vars
    PROVE  NotificationsTypeOK'
<1>1. CASE \E i \in standing : DeleteComment(i)
  BY <1>1 DEF DeleteComment, NotificationsTypeOK, upkeep
<1>2. CASE \E date \in Dates : RefreshRelease(date)
  BY <1>2, NotificationsAssumption DEF RefreshRelease, NotificationsTypeOK, comments, budget
<1>3. CASE JobFails
  BY <1>3 DEF JobFails, Fault, NotificationsTypeOK, comments
<1>4. CASE Tick
  BY <1>4 DEF Tick, NotificationsTypeOK, comments, upkeep, budget
<1>5. CASE UNCHANGED vars
  BY <1>5 DEF vars, NotificationsTypeOK, comments, upkeep, budget
<1>. QED BY <1>1, <1>2, <1>3, <1>4, <1>5

LEMMA NextTypes == NotificationsTypeOK /\ [Next]_vars => NotificationsTypeOK'
<1>. SUFFICES ASSUME NotificationsTypeOK, [Next]_vars PROVE NotificationsTypeOK'
  OBVIOUS
<1>1. ASSUME NEW s \in Slot, Step(s) PROVE NotificationsTypeOK'
  BY <1>1, MetaTypes, ListPriorTypes, LookTypes, InsertTypes, RefreshTypes, AddActorTypes,
     FailureTypes DEF Step
<1>2. ASSUME NEW s \in Slot, DeliveryFails(s) \/ ListingFails(s) \/ Abandon(s)
      PROVE  NotificationsTypeOK'
  BY <1>2, FailureTypes
<1>. QED BY <1>1, <1>2, PostTypes, FollowTypes, MarkReadTypes, EvictTypes, AnnounceTypes,
            OtherTypes DEF Next

(* The type invariant. *)
THEOREM NotificationTypes == Spec => []NotificationsTypeOK
BY InitTypes, NextTypes, PTL DEF Spec

--------------------------------------------------------------------------------
(* Most steps touch no table of notifications and leave every request that is  *)
(* at a statement where it is.                                               *)
Delivering == {"write", "actor"}

SameFlights ==
    \A x \in Slot :
        /\ slots'[x].at \in Delivering => slots'[x] = slots[x]
        /\ slots'[x].at # "idle" =>
             \/ slots[x].at # "idle" /\ slots'[x].born = slots[x].born
             \/ slots'[x].born = now

Still == SameFlights /\ UNCHANGED <<now, rows, nextId, told, announced>>

LEMMA SettledAt ==
    ASSUME NEW r \in Request
    PROVE  /\ Settled(r).at \in {"idle", "look"}
           /\ Settled(r).at = "look" => Settled(r).born = r.born
BY DEF Settled, Idle, Request

LEMMA DroppedAt ==
    ASSUME NEW r \in Request
    PROVE  /\ Dropped(r).at \in {"idle", "look"}
           /\ Dropped(r).at = "look" => Dropped(r).born = r.born
<1>. DEFINE q == [r EXCEPT !.todo = @ \ {r.cur}, !.cur = None]
<1>1. q \in Request /\ q.born = r.born
  BY DEF Request
<1>. HIDE DEF q
<1>2. Dropped(r) = Settled(q)
  BY DEF Dropped, q
<1>. QED BY <1>1, <1>2, SettledAt

LEMMA SetSlotFlights ==
    ASSUME NotificationsTypeOK, NEW s \in Slot, NEW r, SetSlot(s, r),
           r.at \notin Delivering,
           r.at # "idle" => \/ slots[s].at # "idle" /\ r.born = slots[s].born
                            \/ r.born = now
    PROVE  SameFlights
BY DEF SameFlights, NotificationsTypeOK

LEMMA StillSteps ==
    ASSUME NotificationsTypeOK, [Next]_vars
    PROVE  \/ Still
           \/ \E s \in Slot : \/ \E d \in Delivery : Look(s, d)
                             \/ Insert(s) \/ Refresh(s) \/ AddActor(s)
           \/ \E u \in People : MarkRead(u)
           \/ Evict \/ Announce \/ Tick
<1>1. ASSUME NEW s \in Slot, NEW a \in People, NEW m \in SUBSET People, Post(s, a, m)
      PROVE  Still
  <2>. DEFINE r == slots'[s]
  <2>1. SetSlot(s, r) /\ r.at = "meta" /\ r.born = now
    BY <1>1 DEF Post, Arrive, Idle, NotificationsTypeOK
  <2>2. SameFlights
    BY <2>1, SetSlotFlights DEF Delivering
  <2>. QED BY <1>1, <2>2 DEF Post, Still, upkeep
<1>2. ASSUME NEW s \in Slot, NEW a \in People, NEW t \in People, Follow(s, a, t)
      PROVE  Still
  <2>. DEFINE r == slots'[s]
  <2>1. SetSlot(s, r) /\ r.at = "look" /\ r.born = now
    BY <1>2 DEF Follow, Arrive, Idle, NotificationsTypeOK
  <2>2. SameFlights
    BY <2>1, SetSlotFlights DEF Delivering
  <2>. QED BY <1>2, <2>2 DEF Follow, Still, upkeep
<1>3. ASSUME NEW s \in Slot, Meta(s)
      PROVE  Still
  <2>. DEFINE r == slots'[s]
  <2>1. SetSlot(s, r) /\ r.at = "look" /\ r.born = slots[s].born /\ slots[s].at # "idle"
    BY <1>3, TypeAsSound DEF Meta, Request, NotificationsTypeOK
  <2>2. SameFlights
    BY <2>1, SetSlotFlights DEF Delivering
  <2>. QED BY <1>3, <2>2 DEF Meta, Still, upkeep
<1>4. ASSUME NEW s \in Slot, ListPrior(s)
      PROVE  Still
  <2>. DEFINE more == {[type |-> "new_comment_reply", to |-> c] : c \in Prior(s)}
              r == [slots[s] EXCEPT !.listed = TRUE, !.todo = @ \cup more]
  <2>1. more \subseteq Delivery
    BY DEF Prior, Commenters, Delivery, Batched, NotificationsTypeOK
  <2>2. r \in Request /\ r.born = slots[s].born /\ slots[s].at = "look"
    BY <1>4, <2>1, TypeAsSound DEF Request, ListPrior, Listing
  <2>3. SetSlot(s, Settled(r))
    BY <1>4 DEF ListPrior
  <2>. HIDE DEF r
  <2>4. SameFlights
    BY <2>2, <2>3, SettledAt, SetSlotFlights DEF Delivering
  <2>. QED BY <1>4, <2>4 DEF ListPrior, Still, upkeep
<1>5. ASSUME NEW s \in Slot, DeliveryFails(s)
      PROVE  Still
  <2>0. slots[s] \in Request
    BY TypeAsSound
  <2>1. ASSUME slots[s].at \in {"write", "actor"}, SetSlot(s, Dropped(slots[s]))
        PROVE  SameFlights
    BY <2>0, <2>1, DroppedAt, SetSlotFlights DEF Delivering
  <2>2. ASSUME NEW d \in Ready(s), At(s, "look"), SetSlot(s, Dropped([slots[s] EXCEPT !.cur = d]))
        PROVE  SameFlights
    <3>. DEFINE r == [slots[s] EXCEPT !.cur = d]
    <3>1. d \in Delivery
      BY <2>0 DEF Ready, Left, Request
    <3>2. r \in Request /\ r.born = slots[s].born
      BY <2>0, <3>1 DEF Request
    <3>. HIDE DEF r
    <3>3. SetSlot(s, Dropped(r))
      BY <2>2 DEF r
    <3>. QED BY <2>2, <3>2, <3>3, DroppedAt, SetSlotFlights DEF Delivering
  <2>3. SameFlights
    BY <1>5, <2>1, <2>2 DEF DeliveryFails
  <2>. QED BY <1>5, <2>3 DEF DeliveryFails, Still, upkeep
<1>6. ASSUME NEW s \in Slot, ListingFails(s)
      PROVE  Still
  <2>. DEFINE r == [slots[s] EXCEPT !.listed = TRUE]
  <2>1. r \in Request /\ r.born = slots[s].born /\ slots[s].at = "look"
    BY <1>6, TypeAsSound DEF Request, ListingFails, Listing
  <2>2. SetSlot(s, Settled(r))
    BY <1>6 DEF ListingFails
  <2>. HIDE DEF r
  <2>3. SameFlights
    BY <2>1, <2>2, SettledAt, SetSlotFlights DEF Delivering
  <2>. QED BY <1>6, <2>3 DEF ListingFails, Still, upkeep
<1>7. ASSUME NEW s \in Slot, Abandon(s)
      PROVE  Still
  <2>1. SameFlights
    BY <1>7, SetSlotFlights DEF Abandon, Idle, Delivering
  <2>. QED BY <1>7, <2>1 DEF Abandon, Still, upkeep
<1>8. ASSUME \/ \E i \in standing : DeleteComment(i)
             \/ \E date \in Dates : RefreshRelease(date)
             \/ JobFails \/ UNCHANGED vars
      PROVE  Still
  <2>1. UNCHANGED <<now, rows, nextId, slots, told, announced>>
    BY <1>8 DEF DeleteComment, RefreshRelease, JobFails, vars, comments, upkeep
  <2>. QED BY <2>1 DEF Still, SameFlights
<1>. QED BY <1>1, <1>2, <1>3, <1>4, <1>5, <1>6, <1>7, <1>8 DEF Next, Step

--------------------------------------------------------------------------------
(* What a request at a statement knows of its row, and what was found: the key *)
(* of the row, and that ids are never given twice.                           *)
KnowsRow ==
    /\ \A s \in Slot :
         LET r == slots[s] IN
         /\ r.at = "write" => r.looked <= nextId
         /\ (r.at = "actor" \/ (r.at = "write" /\ r.row # 0)) =>
              /\ r.row \in 1 .. nextId - 1
              /\ r.row \in DOMAIN rows => OfKey(r.cur, r.row)
    /\ \A t \in told :
         /\ t.row \in 1 .. nextId - 1
         /\ t.row \in DOMAIN rows => OfKey(t, t.row)

(* What the statements that touch rows do to them.                           *)
RowsKept ==
    /\ DOMAIN rows' \subseteq DOMAIN rows /\ nextId' = nextId
    /\ \A id \in DOMAIN rows' :
         /\ rows'[id].to = rows[id].to /\ rows'[id].type = rows[id].type
         /\ rows'[id].created = rows[id].created /\ rows'[id].until = rows[id].until
         /\ rows'[id].looked = rows[id].looked

LEMMA RefreshKeeps == ASSUME NotificationsTypeOK, NEW s \in Slot, Refresh(s) PROVE RowsKept
BY DEF Refresh, Touched, RowsKept, NotificationsTypeOK, Row

LEMMA AddActorKeeps == ASSUME NotificationsTypeOK, NEW s \in Slot, AddActor(s) PROVE RowsKept
<1>1. rows' = [rows EXCEPT ![slots[s].row] = Joined(@, slots[s].by)] /\ nextId' = nextId
  BY DEF AddActor
<1>. QED BY <1>1 DEF Joined, RowsKept, NotificationsTypeOK, Row

LEMMA MarkReadKeeps == ASSUME NotificationsTypeOK, NEW u \in People, MarkRead(u) PROVE RowsKept
BY DEF MarkRead, RowsKept, NotificationsTypeOK, Row

LEMMA EvictKeeps == ASSUME NotificationsTypeOK, Evict PROVE RowsKept
BY DEF Evict, RowsKept

(* What they do to the request.                                              *)
Others(s) == \A x \in Slot \ {s} : slots'[x] = slots[x]

LEMMA LookDoes ==
    ASSUME NotificationsTypeOK, NEW s \in Slot, NEW d \in Delivery, Look(s, d)
    PROVE  /\ Others(s) /\ UNCHANGED <<now, rows, nextId, told, announced>>
           /\ slots[s].at # "idle" /\ slots'[s].born = slots[s].born
           /\ slots'[s].at = "write" /\ slots'[s].cur = d /\ slots'[s].looked = nextId
           /\ \/ /\ slots'[s].row = 0
                 /\ \A i \in DOMAIN rows : OfKey(d, i) => rows[i].until <= now
              \/ /\ slots'[s].row \in DOMAIN rows /\ slots'[s].row # 0
                 /\ OfKey(d, slots'[s].row) /\ now < rows[slots'[s].row].until
<1>1. PICK id \in OpenRows(d) \cup {0} :
            /\ \A other \in OpenRows(d) : other <= id
            /\ SetSlot(s, [slots[s] EXCEPT !.at = "write", !.cur = d, !.row = id,
                                           !.looked = nextId])
  BY DEF Look
<1>2. slots[s] \in Request /\ slots[s].at = "look"
  BY TypeAsSound DEF Look
<1>3. /\ Others(s) /\ slots'[s].born = slots[s].born
      /\ slots'[s].at = "write" /\ slots'[s].cur = d /\ slots'[s].looked = nextId
      /\ slots'[s].row = id
  BY <1>1, <1>2 DEF Others, Request, NotificationsTypeOK
<1>4. \A i \in DOMAIN rows : i \in Nat \ {0} /\ rows[i].until \in Nat /\ now \in Nat
  BY DEF NotificationsTypeOK, Row
<1>5. id = 0 => \A i \in DOMAIN rows : OfKey(d, i) => rows[i].until <= now
  BY <1>1, <1>4 DEF OpenRows, Open
<1>6. id # 0 => id \in DOMAIN rows /\ OfKey(d, id) /\ now < rows[id].until
  BY DEF OpenRows, Open
<1>7. UNCHANGED <<now, rows, nextId, told, announced>>
  BY DEF Look, upkeep
<1>. QED BY <1>2, <1>3, <1>5, <1>6, <1>7

LEMMA InsertDoes ==
    ASSUME NotificationsTypeOK, NEW s \in Slot, Insert(s)
    PROVE  /\ Others(s) /\ UNCHANGED <<now, told, announced>> /\ nextId' = nextId + 1
           /\ slots[s].at = "write" /\ slots[s].row = 0 /\ slots[s].cur \in Delivery
           /\ slots'[s].at = "actor" /\ slots'[s].row = nextId /\ slots'[s].read = FALSE
           /\ slots'[s].cur = slots[s].cur /\ slots'[s].born = slots[s].born
           /\ nextId \notin DOMAIN rows /\ DOMAIN rows' = DOMAIN rows \cup {nextId}
           /\ \A id \in DOMAIN rows : rows'[id] = rows[id]
           /\ rows'[nextId] = NewRow(s)
<1>1. slots[s] \in Request /\ slots[s].at = "write" /\ slots[s].cur \in Delivery
  BY TypeAsSound DEF Insert, Sound, Request
<1>2. nextId \notin DOMAIN rows
  BY DEF NotificationsTypeOK
<1>. QED BY <1>1, <1>2 DEF Insert, Others, Request, upkeep, NotificationsTypeOK

LEMMA RefreshDoes ==
    ASSUME NotificationsTypeOK, NEW s \in Slot, Refresh(s)
    PROVE  /\ Others(s) /\ UNCHANGED <<now, told, announced>> /\ DOMAIN rows' = DOMAIN rows
           /\ slots[s].at = "write" /\ slots[s].row # 0
           /\ slots'[s].at = "actor" /\ slots'[s].row = slots[s].row /\ slots'[s].read = FALSE
           /\ slots'[s].cur = slots[s].cur /\ slots'[s].born = slots[s].born
           /\ \A id \in DOMAIN rows :
                /\ id # slots[s].row => rows'[id] = rows[id]
                /\ id = slots[s].row => rows'[id].updated = now /\ rows'[id].read = FALSE
                                     /\ rows'[id].actors = rows[id].actors
<1>1. slots[s] \in Request
  BY TypeAsSound
<1>2. \A id \in DOMAIN rows : rows[id] \in Row
  BY DEF NotificationsTypeOK
<1>. QED BY <1>1, <1>2 DEF Refresh, Touched, Others, Request, Row, upkeep, NotificationsTypeOK

LEMMA AddActorDoes ==
    ASSUME NotificationsTypeOK, NEW s \in Slot, AddActor(s)
    PROVE  LET r == slots[s] IN
           /\ Others(s) /\ UNCHANGED <<now, announced>> /\ DOMAIN rows' = DOMAIN rows
           /\ r.at = "actor" /\ r.row \in DOMAIN rows
           /\ slots'[s].at \notin Delivering
           /\ slots'[s].at # "idle" => slots'[s].born = r.born
           /\ \A id \in DOMAIN rows :
                /\ rows'[id].updated = rows[id].updated /\ rows'[id].read = rows[id].read
                /\ rows[id].actors \subseteq rows'[id].actors
           /\ r.by \in rows'[r.row].actors
           /\ told' = told \cup {[type |-> r.cur.type, to |-> r.cur.to, by |-> r.by,
                           comment |-> r.comment, row |-> r.row, time |-> now, seen |-> r.read]}
<1>1. slots[s] \in Request
  BY TypeAsSound
<1>2. slots' = [slots EXCEPT ![s] = Dropped(slots[s])] /\ slots \in [Slot -> Request]
  BY DEF AddActor, NotificationsTypeOK
<1>3. Others(s) /\ slots'[s] = Dropped(slots[s])
  BY <1>2 DEF Others
<1>4. /\ rows' = [rows EXCEPT ![slots[s].row] = Joined(@, slots[s].by)]
      /\ slots[s].row \in DOMAIN rows /\ slots[s].at = "actor"
  BY DEF AddActor
<1>5. \A id \in DOMAIN rows : rows[id] \in Row
  BY DEF NotificationsTypeOK
<1>6. \A id \in DOMAIN rows :
                /\ rows'[id].updated = rows[id].updated /\ rows'[id].read = rows[id].read
                /\ rows[id].actors \subseteq rows'[id].actors
  BY <1>4, <1>5 DEF Joined, Row
<1>7. slots[s].by \in rows'[slots[s].row].actors
  BY <1>4, <1>5 DEF Joined, Row
<1>8. slots'[s].at \notin Delivering /\ (slots'[s].at # "idle" => slots'[s].born = slots[s].born)
  BY <1>1, <1>3, DroppedAt DEF Delivering
<1>9. UNCHANGED <<now, announced>> /\ DOMAIN rows' = DOMAIN rows
  BY <1>4 DEF AddActor, upkeep
<1>. QED BY <1>3, <1>4, <1>6, <1>7, <1>8, <1>9 DEF AddActor

(* The panel changes what is marked as read, and nothing else.               *)
LEMMA MarkReadDoes ==
    ASSUME NotificationsTypeOK, NEW u \in People, MarkRead(u)
    PROVE  /\ UNCHANGED <<now, announced>> /\ DOMAIN rows' = DOMAIN rows
           /\ \A id \in DOMAIN rows :
                /\ rows'[id].updated = rows[id].updated /\ rows'[id].actors = rows[id].actors
                /\ rows'[id].read = (rows[id].read \/ rows[id].to = u)
           /\ \A x \in Slot :
                /\ slots'[x].at = slots[x].at /\ slots'[x].cur = slots[x].cur
                /\ slots'[x].row = slots[x].row /\ slots'[x].looked = slots[x].looked
                /\ slots'[x].born = slots[x].born
                /\ slots'[x].read = (slots[x].read \/ (slots[x].at = "actor" /\ slots[x].cur.to = u))
           /\ told' = {IF t.to = u THEN [t EXCEPT !.seen = TRUE] ELSE t : t \in told}
<1>1. \A id \in DOMAIN rows : rows[id] \in Row
  BY DEF NotificationsTypeOK
<1>2. \A x \in Slot : slots[x] \in Request
  BY TypeAsSound
<1>3. /\ DOMAIN rows' = DOMAIN rows
      /\ \A id \in DOMAIN rows :
                /\ rows'[id].updated = rows[id].updated /\ rows'[id].actors = rows[id].actors
                /\ rows'[id].read = (rows[id].read \/ rows[id].to = u)
  BY <1>1 DEF MarkRead, Row
<1>4. \A x \in Slot :
                /\ slots'[x].at = slots[x].at /\ slots'[x].cur = slots[x].cur
                /\ slots'[x].row = slots[x].row /\ slots'[x].looked = slots[x].looked
                /\ slots'[x].born = slots[x].born
                /\ slots'[x].read = (slots[x].read \/ (slots[x].at = "actor" /\ slots[x].cur.to = u))
  BY <1>2 DEF MarkRead, Request
<1>. QED BY <1>3, <1>4 DEF MarkRead, upkeep

LEMMA AnnounceDoes ==
    ASSUME NotificationsTypeOK, Announce
    PROVE  /\ UNCHANGED <<now, slots, told>> /\ nextId' \in Nat /\ nextId <= nextId'
           /\ DOMAIN rows \subseteq DOMAIN rows'
           /\ \A id \in DOMAIN rows : rows'[id] = rows[id]
           /\ \A id \in DOMAIN rows' \ DOMAIN rows :
                /\ id >= nextId /\ rows'[id].type = "backlog_release"
                /\ rows'[id].created = now /\ rows'[id].updated = now /\ rows'[id].until = now
           /\ \A p \in Hearing : \E id \in DOMAIN rows' \ DOMAIN rows : rows'[id].to = p
           /\ announced' = announced \cup
                {[to |-> p, date |-> release, time |-> now] : p \in Hearing}
<1>. DEFINE new == nextId .. nextId + Cardinality(Hearing) - 1
<1>1. PICK to \in [new -> Hearing] :
        /\ \A p \in Hearing : \E i \in new : to[i] = p
        /\ rows' = [id \in DOMAIN rows \cup new |->
                IF id \in new
                THEN [to |-> to[id], type |-> "backlog_release", read |-> FALSE, actors |-> {},
                      created |-> now, updated |-> now, until |-> now, looked |-> nextId]
                ELSE rows[id]]
  BY DEF Announce
<1>2. nextId' = nextId + Cardinality(Hearing)
  BY DEF Announce
<1>3. new \cap DOMAIN rows = {} /\ \A i \in new : i >= nextId
  BY HearingCounted DEF NotificationsTypeOK
<1>4. nextId' \in Nat /\ nextId <= nextId'
  BY <1>2, HearingCounted DEF NotificationsTypeOK
<1>5. DOMAIN rows' = DOMAIN rows \cup new
  BY <1>1
<1>6. \A id \in DOMAIN rows : rows'[id] = rows[id]
  BY <1>1, <1>3
<1>7. \A id \in new :
        /\ rows'[id].to = to[id] /\ rows'[id].type = "backlog_release"
        /\ rows'[id].created = now /\ rows'[id].updated = now /\ rows'[id].until = now
  BY <1>1
<1>8. \A p \in Hearing : \E id \in DOMAIN rows' \ DOMAIN rows : rows'[id].to = p
  BY <1>1, <1>3, <1>5, <1>7
<1>. HIDE DEF new
<1>. QED BY <1>3, <1>4, <1>5, <1>6, <1>7, <1>8 DEF Announce

LEMMA KnowsRowStep ==
    ASSUME NotificationsTypeOK, KnowsRow, [Next]_vars PROVE KnowsRow'
<1>. USE DEF OfKey
<1>0. nextId \in Nat \ {0} /\ DOMAIN rows \subseteq 1 .. nextId - 1
  BY DEF NotificationsTypeOK
<1>1. CASE Still
  BY <1>1 DEF Still, SameFlights, Delivering, KnowsRow
<1>2. ASSUME NEW s \in Slot, NEW d \in Delivery, Look(s, d) PROVE KnowsRow'
  BY <1>0, <1>2, LookDoes DEF Others, KnowsRow
<1>3. ASSUME NEW s \in Slot, Insert(s) PROVE KnowsRow'
  <2>0. /\ \A x \in Slot : x # s => slots'[x] = slots[x]
        /\ UNCHANGED <<now, told>> /\ nextId' = nextId + 1
        /\ slots[s].at = "write" /\ slots[s].row = 0 /\ slots[s].cur \in Delivery
        /\ slots'[s].at = "actor" /\ slots'[s].row = nextId
        /\ slots'[s].cur = slots[s].cur
        /\ DOMAIN rows' = DOMAIN rows \cup {nextId}
        /\ \A id \in DOMAIN rows : rows'[id] = rows[id]
        /\ rows'[nextId] = NewRow(s)
    BY <1>3, InsertDoes DEF Others
  <2>1. rows'[nextId].to = slots[s].cur.to /\ rows'[nextId].type = slots[s].cur.type
    BY <2>0 DEF NewRow
  <2>2. \A x \in Slot : slots[x].looked \in Nat /\ slots[x].row \in Nat
    BY TypeAsSound DEF Request
  <2>. QED BY <1>0, <2>0, <2>1, <2>2 DEF KnowsRow
<1>4. ASSUME NEW s \in Slot, Refresh(s) PROVE KnowsRow'
  <2>0. /\ \A x \in Slot : x # s => slots'[x] = slots[x]
        /\ told' = told /\ slots[s].at = "write" /\ slots[s].row # 0
        /\ slots'[s].at = "actor" /\ slots'[s].row = slots[s].row
        /\ slots'[s].cur = slots[s].cur
    BY <1>4, RefreshDoes DEF Others
  <2>1. RowsKept
    BY <1>4, RefreshKeeps
  <2>. QED BY <2>0, <2>1 DEF RowsKept, KnowsRow
<1>5. ASSUME NEW s \in Slot, AddActor(s) PROVE KnowsRow'
  BY <1>5, AddActorDoes, AddActorKeeps DEF RowsKept, Others, KnowsRow, Delivering
<1>6. ASSUME NEW u \in People, MarkRead(u) PROVE KnowsRow'
  <2>1. \A t \in told' : \E o \in told : t.row = o.row /\ t.to = o.to /\ t.type = o.type
    <3>1. told' = {IF t.to = u THEN [t EXCEPT !.seen = TRUE] ELSE t : t \in told}
      BY <1>6, MarkReadDoes
    <3>2. told \subseteq Told
      BY DEF NotificationsTypeOK
    <3>. QED BY <3>1, <3>2 DEF Told
  <2>2. nextId' = nextId /\ \A id \in DOMAIN rows' :
          id \in DOMAIN rows /\ rows'[id].to = rows[id].to /\ rows'[id].type = rows[id].type
    BY <1>6, MarkReadKeeps DEF RowsKept
  <2>3. \A s \in Slot :
          LET r == slots'[s] IN
         /\ r.at = "write" => r.looked <= nextId'
         /\ (r.at = "actor" \/ (r.at = "write" /\ r.row # 0)) =>
              /\ r.row \in 1 .. nextId' - 1
              /\ r.row \in DOMAIN rows' => (rows'[r.row].to = r.cur.to /\ rows'[r.row].type = r.cur.type)
    BY <1>6, <2>2, MarkReadDoes DEF KnowsRow
  <2>. QED BY <2>1, <2>2, <2>3 DEF KnowsRow
<1>7. CASE Evict
  BY <1>7, EvictKeeps DEF Evict, RowsKept, KnowsRow
<1>8. CASE Announce
  <2>1. \A x \in Slot : slots[x].looked \in Nat /\ slots[x].row \in Nat
    BY TypeAsSound DEF Request
  <2>. QED BY <1>0, <1>8, <2>1, AnnounceDoes DEF KnowsRow
<1>9. CASE Tick
  BY <1>9 DEF Tick, KnowsRow
<1>. QED BY <1>1, <1>2, <1>3, <1>4, <1>5, <1>6, <1>7, <1>8, <1>9, StillSteps

LEMMA KnowsRowInit == Init => KnowsRow
BY DEF Init, KnowsRow, Idle

LEMMA RowsAreKnown == Spec => [](NotificationsTypeOK /\ KnowsRow)
<1>1. NotificationsTypeOK /\ KnowsRow /\ NotificationsTypeOK' /\ [Next]_vars => KnowsRow'
  BY KnowsRowStep
<1>. QED BY <1>1, KnowsRowInit, NotificationTypes, PTL DEF Spec

--------------------------------------------------------------------------------
(* A row that is inserted while another one of its key is there closed that    *)
(* one, or its request had looked before the other one was inserted.         *)
Apart ==
    /\ \A id \in DOMAIN rows :
         /\ rows[id].created <= now
         /\ rows[id].type \notin Batched => rows[id].until <= now
    /\ \A i, j \in DOMAIN rows :
         (i < j /\ SameKey(i, j) /\ rows[j].type \in Batched /\ i < rows[j].looked) =>
            rows[i].until <= rows[j].created
    /\ \A s \in Slot : (slots[s].at = "write" /\ slots[s].row = 0) =>
         \A i \in DOMAIN rows :
            (OfKey(slots[s].cur, i) /\ i < slots[s].looked) => rows[i].until <= now

LEMMA ApartKept ==
    ASSUME NotificationsTypeOK, Apart, RowsKept, now' = now,
           \A s \in Slot : (slots'[s].at = "write" /\ slots'[s].row = 0) =>
                /\ slots[s].at = "write" /\ slots[s].row = 0
                /\ slots'[s].cur = slots[s].cur /\ slots'[s].looked = slots[s].looked
    PROVE  Apart'
BY DEF Apart, RowsKept, SameKey, OfKey

LEMMA ApartStep ==
    ASSUME NotificationsTypeOK, KnowsRow, Apart, [Next]_vars PROVE Apart'
<1>0. /\ nextId \in Nat \ {0} /\ DOMAIN rows \subseteq 1 .. nextId - 1 /\ now \in Nat
      /\ \A id \in DOMAIN rows : /\ rows[id].created \in Nat /\ rows[id].until \in Nat
                                /\ rows[id].looked \in Nat
  BY DEF NotificationsTypeOK, Row
<1>a. \A x \in Slot : slots[x].looked \in Nat
  BY TypeAsSound DEF Request
<1>1. CASE Still
  <2>1. RowsKept
    BY <1>1 DEF Still, RowsKept
  <2>. QED BY <1>1, <2>1, ApartKept DEF Still, SameFlights, Delivering
<1>2. ASSUME NEW s \in Slot, NEW d \in Delivery, Look(s, d) PROVE Apart'
  BY <1>0, <1>2, LookDoes DEF Others, Apart, SameKey, OfKey
<1>3. ASSUME NEW s \in Slot, Insert(s) PROVE Apart'
  <2>0. /\ \A x \in Slot : x # s => slots'[x] = slots[x]
        /\ UNCHANGED <<now, told>> /\ nextId' = nextId + 1
        /\ slots[s].at = "write" /\ slots[s].row = 0 /\ slots[s].cur \in Delivery
        /\ slots'[s].at = "actor" /\ slots'[s].row = nextId
        /\ slots'[s].cur = slots[s].cur
        /\ DOMAIN rows' = DOMAIN rows \cup {nextId}
        /\ \A id \in DOMAIN rows : rows'[id] = rows[id]
        /\ rows'[nextId] = NewRow(s)
    BY <1>3, InsertDoes DEF Others
  <2>1. /\ rows'[nextId].to = slots[s].cur.to /\ rows'[nextId].type = slots[s].cur.type
        /\ rows'[nextId].created = now /\ rows'[nextId].looked = slots[s].looked
        /\ rows'[nextId].type \in Batched
    BY <2>0 DEF NewRow, Delivery
  <2>2. \A i \in DOMAIN rows : i < nextId /\ i # nextId
    BY <1>0
  <2>3. \A x \in Slot : slots[x].at = "write" => slots[x].looked <= nextId
    BY DEF KnowsRow
  <2>4. \A id \in DOMAIN rows' : rows'[id].created <= now' /\
          (rows'[id].type \notin Batched => rows'[id].until <= now')
    BY <1>0, <2>0, <2>1 DEF Apart
  <2>5. ASSUME NEW i \in DOMAIN rows', NEW j \in DOMAIN rows', i < j, SameKey(i, j)',
               rows'[j].type \in Batched, i < rows'[j].looked
        PROVE  rows'[i].until <= rows'[j].created
    <3>1. CASE j = nextId
      <4>1. i \in DOMAIN rows /\ OfKey(slots[s].cur, i) /\ i < slots[s].looked
        BY <1>0, <2>0, <2>1, <2>2, <2>5, <3>1 DEF SameKey, OfKey
      <4>. QED BY <2>0, <2>1, <3>1, <4>1 DEF Apart
    <3>2. CASE j # nextId
      <4>1. i \in DOMAIN rows /\ j \in DOMAIN rows
        BY <1>0, <2>0, <2>2, <2>5, <3>2
      <4>. QED BY <2>0, <2>5, <4>1 DEF Apart, SameKey
    <3>. QED BY <3>1, <3>2
  <2>6. ASSUME NEW x \in Slot, slots'[x].at = "write", slots'[x].row = 0,
               NEW i \in DOMAIN rows', OfKey(slots[x].cur, i)', i < slots'[x].looked
        PROVE  rows'[i].until <= now'
    <3>1. x # s /\ slots'[x] = slots[x]
      BY <2>0, <2>6
    <3>2. i \in DOMAIN rows
      BY <1>0, <1>a, <2>0, <2>3, <2>6, <3>1
    <3>. QED BY <2>0, <2>6, <3>1, <3>2 DEF Apart, OfKey
  <2>. QED BY <2>4, <2>5, <2>6 DEF Apart
<1>4. ASSUME NEW s \in Slot, Refresh(s) PROVE Apart'
  BY <1>4, RefreshDoes, RefreshKeeps, ApartKept DEF Others
<1>5. ASSUME NEW s \in Slot, AddActor(s) PROVE Apart'
  BY <1>5, AddActorDoes, AddActorKeeps, ApartKept DEF Others, Delivering
<1>6. ASSUME NEW u \in People, MarkRead(u) PROVE Apart'
  BY <1>6, MarkReadDoes, MarkReadKeeps, ApartKept
<1>7. CASE Evict
  BY <1>7, EvictKeeps, ApartKept DEF Evict
<1>8. CASE Announce
  <2>1. "backlog_release" \notin Batched
    BY DEF Batched
  <2>2. \A x \in Slot : slots[x].at = "write" => slots[x].looked <= nextId
    BY DEF KnowsRow
  <2>3. \A id \in DOMAIN rows' : rows'[id].created <= now' /\
          (rows'[id].type \notin Batched => rows'[id].until <= now')
    BY <1>0, <1>8, AnnounceDoes DEF Apart
  <2>4. \A i, j \in DOMAIN rows' : (SameKey(i, j)' /\ rows'[j].type \in Batched) =>
            i \in DOMAIN rows /\ j \in DOMAIN rows
    BY <1>8, <2>1, AnnounceDoes DEF SameKey
  <2>5. ASSUME NEW x \in Slot, slots'[x].at = "write", slots'[x].row = 0,
               NEW i \in DOMAIN rows', OfKey(slots[x].cur, i)', i < slots'[x].looked
        PROVE  rows'[i].until <= now'
    <3>1. i \in DOMAIN rows
      <4>1. slots' = slots /\ \A id \in DOMAIN rows' \ DOMAIN rows : id >= nextId
        BY <1>8, AnnounceDoes
      <4>2. DOMAIN rows' \subseteq Nat
        <5>1. NotificationsTypeOK'
          BY <1>8, AnnounceTypes
        <5>. QED BY <5>1 DEF NotificationsTypeOK
      <4>. QED BY <1>a, <1>0, <2>2, <2>5, <4>1, <4>2
    <3>. QED BY <1>8, <2>5, <3>1, AnnounceDoes DEF Apart, OfKey
  <2>. QED BY <1>8, <2>3, <2>4, <2>5, AnnounceDoes DEF Apart, SameKey
<1>9. CASE Tick
  <2>1. UNCHANGED <<rows, slots>> /\ now' = now + 1
    BY <1>9 DEF Tick
  <2>2. \A id \in DOMAIN rows : rows[id].created <= now' /\
          (rows[id].type \notin Batched => rows[id].until <= now')
    BY <1>0, <2>1 DEF Apart
  <2>3. \A s \in Slot : (slots[s].at = "write" /\ slots[s].row = 0) =>
         \A i \in DOMAIN rows :
            (OfKey(slots[s].cur, i) /\ i < slots[s].looked) => rows[i].until <= now'
    BY <1>0, <2>1 DEF Apart
  <2>. QED BY <2>1, <2>2, <2>3 DEF Apart, SameKey, OfKey
<1>. QED BY <1>1, <1>2, <1>3, <1>4, <1>5, <1>6, <1>7, <1>8, <1>9, StillSteps

(* Rows of one key that are open at the same time come from a race only.      *)
THEOREM OverlapsAreRaces == Spec => []SecondBatchesRaced
<1>1. Init => Apart
  BY DEF Init, Apart, Idle
<1>2. NotificationsTypeOK /\ KnowsRow /\ Apart /\ [Next]_vars => Apart'
  BY ApartStep
<1>3. NotificationsTypeOK /\ Apart => SecondBatchesRaced
  <2>. SUFFICES ASSUME NotificationsTypeOK, Apart,
                       NEW i \in DOMAIN rows, NEW j \in DOMAIN rows,
                       i < j, SameKey(i, j), Open(i), Open(j), ~(rows[j].looked <= i)
                PROVE  FALSE
    BY DEF SecondBatchesRaced
  <2>1. /\ now \in Nat /\ i \in Nat /\ rows[j].looked \in Nat /\ rows[j].created \in Nat
        /\ rows[i].until \in Nat /\ rows[j].until \in Nat
    BY DEF NotificationsTypeOK, Row
  <2>2. rows[j].type \in Batched
    BY <2>1 DEF Apart, Open
  <2>3. rows[i].until <= rows[j].created /\ rows[j].created <= now
    BY <2>1, <2>2 DEF Apart
  <2>. QED BY <2>1, <2>3 DEF Open
<1>. QED BY <1>1, <1>2, <1>3, RowsAreKnown, PTL DEF Spec

--------------------------------------------------------------------------------
(* A request lives through one step of the clock at most; the row it is about  *)
(* to refresh closes no sooner than that.                                    *)
Young ==
    /\ \A s \in Slot : slots[s].at # "idle" => slots[s].born <= now /\ now <= slots[s].born + 1
    /\ \A s \in Slot :
         LET r == slots[s] IN
         (r.at = "write" /\ r.row # 0 /\ r.row \in DOMAIN rows) =>
            /\ now <= rows[r.row].until
            /\ now = rows[r.row].until => now = r.born + 1
    /\ \A id \in DOMAIN rows : rows[id].type \in Batched =>
         /\ rows[id].until = rows[id].created + Window
         /\ rows[id].updated <= rows[id].until

LEMMA Numbers ==
    ASSUME NotificationsTypeOK
    PROVE  /\ now \in Nat /\ nextId \in Nat \ {0} /\ DOMAIN rows \subseteq 1 .. nextId - 1
           /\ \A id \in DOMAIN rows :
                /\ rows[id].created \in Nat /\ rows[id].until \in Nat
                /\ rows[id].updated \in Nat /\ rows[id].read \in BOOLEAN
           /\ \A s \in Slot :
                /\ slots[s].born \in Nat /\ slots[s].row \in Nat /\ slots[s].read \in BOOLEAN
           /\ Window \in Nat /\ Retention \in Nat /\ Near \in Nat /\ 2 * Near < Retention
<1>1. \A id \in DOMAIN rows : rows[id] \in Row
  BY DEF NotificationsTypeOK
<1>2. \A s \in Slot : slots[s] \in Request
  BY TypeAsSound
<1>3. now \in Nat /\ nextId \in Nat \ {0} /\ DOMAIN rows \subseteq 1 .. nextId - 1
  BY DEF NotificationsTypeOK
<1>. QED BY <1>1, <1>2, <1>3, NotificationsAssumption DEF Row, Request

LEMMA YoungStep ==
    ASSUME NotificationsTypeOK, KnowsRow, Young, [Next]_vars PROVE Young'
<1>0. now \in Nat /\ \A s \in Slot : slots[s].born \in Nat
  BY Numbers
<1>1. CASE Still
  BY <1>0, <1>1 DEF Still, SameFlights, Delivering, Young
<1>2. ASSUME NEW s \in Slot, NEW d \in Delivery, Look(s, d) PROVE Young'
  <2>0. /\ \A x \in Slot : x # s => slots'[x] = slots[x]
        /\ UNCHANGED <<now, rows>>
        /\ slots[s].at # "idle" /\ slots'[s].born = slots[s].born
        /\ (slots'[s].row # 0 /\ slots'[s].row \in DOMAIN rows) =>
              now < rows[slots'[s].row].until
    <3>1. slots'[s].row = 0 \/ now < rows[slots'[s].row].until
      BY <1>2, LookDoes
    <3>. QED BY <1>2, <3>1, LookDoes DEF Others
  <2>1. \A id \in DOMAIN rows : rows[id].until \in Nat
    BY Numbers
  <2>. QED BY <1>0, <2>0, <2>1 DEF Young
<1>3. ASSUME NEW s \in Slot, Insert(s) PROVE Young'
  <2>0. /\ \A x \in Slot : x # s => slots'[x] = slots[x]
        /\ now' = now /\ slots[s].at = "write"
        /\ slots'[s].at = "actor" /\ slots'[s].born = slots[s].born
        /\ DOMAIN rows' = DOMAIN rows \cup {nextId}
        /\ \A id \in DOMAIN rows : rows'[id] = rows[id]
        /\ rows'[nextId] = NewRow(s)
    BY <1>3, InsertDoes DEF Others
  <2>1. /\ rows'[nextId].created = now /\ rows'[nextId].updated = now
        /\ rows'[nextId].until = now + Window
    BY <2>0 DEF NewRow
  <2>2. \A x \in Slot : (slots[x].at = "write" /\ slots[x].row # 0) => slots[x].row # nextId
    BY Numbers DEF KnowsRow
  <2>3. now <= now + Window
    BY Numbers
  <2>. QED BY <1>0, <2>0, <2>1, <2>2, <2>3 DEF Young
<1>4. ASSUME NEW s \in Slot, Refresh(s) PROVE Young'
  <2>0. /\ \A x \in Slot : x # s => slots'[x] = slots[x]
        /\ now' = now /\ slots[s].at = "write" /\ slots[s].row # 0
        /\ slots'[s].at = "actor" /\ slots'[s].born = slots[s].born
        /\ \A id \in DOMAIN rows :
             /\ id # slots[s].row => rows'[id] = rows[id]
             /\ id = slots[s].row => rows'[id].updated = now
    BY <1>4, RefreshDoes DEF Others
  <2>1. RowsKept
    BY <1>4, RefreshKeeps
  <2>. QED BY <1>0, <2>0, <2>1 DEF RowsKept, Young
<1>5. ASSUME NEW s \in Slot, AddActor(s) PROVE Young'
  <2>0. /\ \A x \in Slot : x # s => slots'[x] = slots[x]
        /\ now' = now /\ slots[s].at = "actor" /\ slots'[s].at \notin Delivering
        /\ slots'[s].at # "idle" => slots'[s].born = slots[s].born
        /\ \A id \in DOMAIN rows : rows'[id].updated = rows[id].updated
    BY <1>5, AddActorDoes DEF Others
  <2>1. RowsKept
    BY <1>5, AddActorKeeps
  <2>. QED BY <1>0, <2>0, <2>1 DEF RowsKept, Young, Delivering
<1>6. ASSUME NEW u \in People, MarkRead(u) PROVE Young'
  <2>0. /\ now' = now
        /\ \A id \in DOMAIN rows : rows'[id].updated = rows[id].updated
        /\ \A x \in Slot : /\ slots'[x].at = slots[x].at /\ slots'[x].row = slots[x].row
                          /\ slots'[x].born = slots[x].born
    BY <1>6, MarkReadDoes
  <2>1. RowsKept
    BY <1>6, MarkReadKeeps
  <2>. QED BY <2>0, <2>1 DEF RowsKept, Young
<1>7. CASE Evict
  BY <1>7 DEF Evict, Young
<1>8. CASE Announce
  <2>1. /\ UNCHANGED <<now, slots>> /\ DOMAIN rows \subseteq DOMAIN rows'
        /\ \A id \in DOMAIN rows : rows'[id] = rows[id]
        /\ \A id \in DOMAIN rows' \ DOMAIN rows :
             id >= nextId /\ rows'[id].type = "backlog_release"
    BY <1>8, AnnounceDoes
  <2>2. \A x \in Slot : (slots[x].at = "write" /\ slots[x].row # 0) =>
            slots[x].row \notin DOMAIN rows' \ DOMAIN rows
    BY <2>1, Numbers DEF KnowsRow
  <2>3. "backlog_release" \notin Batched
    BY DEF Batched
  <2>. QED BY <2>1, <2>2, <2>3 DEF Young
<1>9. CASE Tick
  <2>1. UNCHANGED <<rows, slots>> /\ now' = now + 1
    BY <1>9 DEF Tick
  <2>2. \A s \in Slot : slots[s].at # "idle" => slots[s].born = now
    BY <1>9 DEF Tick
  <2>. QED BY <1>0, <2>1, <2>2, Numbers DEF Young
<1>. QED BY <1>1, <1>2, <1>3, <1>4, <1>5, <1>6, <1>7, <1>8, <1>9, StillSteps

LEMMA RequestsAreYoung == Spec => [](NotificationsTypeOK /\ KnowsRow /\ Young)
<1>1. Init => Young
  BY DEF Init, Young, Idle
<1>2. NotificationsTypeOK /\ KnowsRow /\ Young /\ [Next]_vars => Young'
  BY YoungStep
<1>. QED BY <1>1, <1>2, RowsAreKnown, PTL DEF Spec

(* Nothing is added to a row later than a day after it was made.             *)
THEOREM RowsCloseAfterADay == Spec => []BatchesSeal
<1>1. Young => BatchesSeal
  BY DEF Young, BatchesSeal
<1>. QED BY <1>1, RequestsAreYoung, PTL

--------------------------------------------------------------------------------
(* What was told stays in the row it was added to, which is fresh enough to be *)
(* kept for the retention, and unread as long as the panel was not opened.    *)
Lasting ==
    /\ \A s \in Slot :
         LET r == slots[s] IN
         (r.at = "actor" /\ r.row \in DOMAIN rows) =>
            /\ r.born <= rows[r.row].updated
            /\ ~r.read => ~rows[r.row].read
    /\ \A t \in told :
         /\ t.time <= now
         /\ now < t.time + Retention => t.row \in DOMAIN rows
         /\ t.row \in DOMAIN rows =>
              /\ t.by \in rows[t.row].actors
              /\ t.time <= rows[t.row].updated + 1
              /\ ~t.seen => ~rows[t.row].read

LEMMA ToldNumbers ==
    ASSUME NotificationsTypeOK
    PROVE  \A t \in told : t.time \in Nat /\ t.seen \in BOOLEAN
BY DEF NotificationsTypeOK, Told

(* Rows that are kept, with their actors and no older than they were.         *)
LEMMA LastingStep ==
    ASSUME NotificationsTypeOK, KnowsRow, Young, Lasting, [Next]_vars PROVE Lasting'
<1>0. now \in Nat /\ Retention \in Nat /\ \A t \in told : t.time \in Nat
  BY Numbers, ToldNumbers
<1>1. CASE Still
  BY <1>1 DEF Still, SameFlights, Delivering, Lasting
<1>2. ASSUME NEW s \in Slot, NEW d \in Delivery, Look(s, d) PROVE Lasting'
  <2>0. /\ \A x \in Slot : x # s => slots'[x] = slots[x]
        /\ UNCHANGED <<now, rows, told>> /\ slots'[s].at = "write"
    BY <1>2, LookDoes DEF Others
  <2>. QED BY <2>0 DEF Lasting
<1>3. ASSUME NEW s \in Slot, Insert(s) PROVE Lasting'
  <2>0. /\ \A x \in Slot : x # s => slots'[x] = slots[x]
        /\ UNCHANGED <<now, told>> /\ slots[s].at = "write"
        /\ slots'[s].at = "actor" /\ slots'[s].row = nextId /\ slots'[s].born = slots[s].born
        /\ DOMAIN rows' = DOMAIN rows \cup {nextId}
        /\ \A id \in DOMAIN rows : rows'[id] = rows[id]
        /\ rows'[nextId] = NewRow(s)
    BY <1>3, InsertDoes DEF Others
  <2>1. rows'[nextId].updated = now /\ rows'[nextId].read = FALSE
    BY <2>0 DEF NewRow
  <2>2. /\ \A x \in Slot : slots[x].at = "actor" => slots[x].row # nextId
        /\ \A t \in told : t.row # nextId
    BY Numbers DEF KnowsRow
  <2>3. slots[s].born <= now
    BY <2>0 DEF Young
  <2>. QED BY <2>0, <2>1, <2>2, <2>3 DEF Lasting
<1>4. ASSUME NEW s \in Slot, Refresh(s) PROVE Lasting'
  <2>0. /\ \A x \in Slot : x # s => slots'[x] = slots[x]
        /\ UNCHANGED <<now, told>> /\ slots[s].at = "write"
        /\ slots'[s].at = "actor" /\ slots'[s].born = slots[s].born
        /\ slots'[s].row = slots[s].row
        /\ DOMAIN rows' = DOMAIN rows
        /\ \A id \in DOMAIN rows :
             /\ id # slots[s].row => rows'[id] = rows[id]
             /\ id = slots[s].row => rows'[id].updated = now /\ rows'[id].read = FALSE
                                  /\ rows'[id].actors = rows[id].actors
    BY <1>4, RefreshDoes DEF Others
  <2>1. \A x \in Slot : slots[x].at # "idle" => slots[x].born <= now
    BY DEF Young
  <2>2. \A t \in told : t.time <= now /\ t.time <= now + 1
    BY <1>0 DEF Lasting
  <2>. QED BY <2>0, <2>1, <2>2 DEF Lasting
<1>5. ASSUME NEW s \in Slot, AddActor(s) PROVE Lasting'
  <2>. DEFINE r == slots[s]
              new == [type |-> r.cur.type, to |-> r.cur.to, by |-> r.by,
                      comment |-> r.comment, row |-> r.row, time |-> now, seen |-> r.read]
  <2>0. /\ \A x \in Slot : x # s => slots'[x] = slots[x]
        /\ now' = now /\ slots[s].at = "actor" /\ slots'[s].at \notin Delivering
        /\ DOMAIN rows' = DOMAIN rows /\ r.row \in DOMAIN rows
        /\ \A id \in DOMAIN rows :
                /\ rows'[id].updated = rows[id].updated /\ rows'[id].read = rows[id].read
                /\ rows[id].actors \subseteq rows'[id].actors
        /\ r.by \in rows'[r.row].actors
    BY <1>5, AddActorDoes DEF Others
  <2>1. told' = told \cup {new}
    BY <1>5, AddActorDoes
  <2>2. r.born <= rows[r.row].updated /\ (~r.read => ~rows[r.row].read)
    BY <2>0 DEF Lasting
  <2>3. now <= rows[r.row].updated + 1
    BY <2>0, <2>2, Numbers DEF Young
  <2>4. /\ new.time = now /\ new.row = r.row /\ new.by = r.by /\ new.seen = r.read
    OBVIOUS
  <2>. HIDE DEF new
  <2>. QED BY <1>0, <2>0, <2>1, <2>2, <2>3, <2>4 DEF Lasting, Delivering
<1>6. ASSUME NEW u \in People, MarkRead(u) PROVE Lasting'
  <2>0. /\ now' = now /\ DOMAIN rows' = DOMAIN rows
        /\ \A id \in DOMAIN rows :
             /\ rows'[id].updated = rows[id].updated /\ rows'[id].actors = rows[id].actors
             /\ rows'[id].read = (rows[id].read \/ rows[id].to = u)
        /\ \A x \in Slot :
             /\ slots'[x].at = slots[x].at /\ slots'[x].row = slots[x].row
             /\ slots'[x].born = slots[x].born
             /\ slots'[x].read = (slots[x].read \/ (slots[x].at = "actor" /\ slots[x].cur.to = u))
    BY <1>6, MarkReadDoes
  <2>1. \A t \in told' : \E o \in told :
            /\ t.row = o.row /\ t.time = o.time /\ t.by = o.by
            /\ t.seen = (o.seen \/ o.to = u)
    <3>1. told' = {IF t.to = u THEN [t EXCEPT !.seen = TRUE] ELSE t : t \in told}
      BY <1>6, MarkReadDoes
    <3>2. told \subseteq Told
      BY DEF NotificationsTypeOK
    <3>. QED BY <3>1, <3>2 DEF Told
  <2>2. \A x \in Slot : (slots[x].at = "actor" /\ slots[x].row \in DOMAIN rows) =>
            rows[slots[x].row].to = slots[x].cur.to
    BY DEF KnowsRow, OfKey
  <2>3. \A t \in told : t.row \in DOMAIN rows => rows[t.row].to = t.to
    BY DEF KnowsRow, OfKey
  <2>a. /\ \A id \in DOMAIN rows : rows'[id].read => (rows[id].read \/ rows[id].to = u)
        /\ \A x \in Slot : slots[x].read => slots'[x].read
        /\ \A x \in Slot : (slots[x].at = "actor" /\ slots[x].cur.to = u) => slots'[x].read
    BY <2>0
  <2>4. ASSUME NEW x \in Slot, slots'[x].at = "actor", slots'[x].row \in DOMAIN rows'
        PROVE  /\ slots'[x].born <= rows'[slots'[x].row].updated
               /\ ~slots'[x].read => ~rows'[slots'[x].row].read
    <3>1. /\ slots[x].at = "actor" /\ slots[x].row \in DOMAIN rows
          /\ slots'[x].row = slots[x].row /\ slots'[x].born = slots[x].born
      BY <2>0, <2>4
    <3>2. /\ slots[x].born <= rows[slots[x].row].updated
          /\ ~slots[x].read => ~rows[slots[x].row].read
      BY <3>1 DEF Lasting
    <3>3. rows[slots[x].row].to = slots[x].cur.to
      BY <2>2, <3>1
    <3>4. slots'[x].born <= rows'[slots'[x].row].updated
      BY <2>0, <3>1, <3>2
    <3>5. ASSUME ~slots'[x].read, rows'[slots'[x].row].read PROVE FALSE
      BY <2>a, <3>1, <3>2, <3>3, <3>5
    <3>. QED BY <3>4, <3>5
  <2>5. ASSUME NEW t \in told'
        PROVE  /\ t.time <= now'
               /\ now' < t.time + Retention => t.row \in DOMAIN rows'
               /\ t.row \in DOMAIN rows' =>
                    /\ t.by \in rows'[t.row].actors
                    /\ t.time <= rows'[t.row].updated + 1
                    /\ ~t.seen => ~rows'[t.row].read
    <3>1. PICK o \in told : /\ t.row = o.row /\ t.time = o.time /\ t.by = o.by
                            /\ t.seen = (o.seen \/ o.to = u)
      BY <2>1
    <3>2. o.seen => t.seen
      BY <3>1
    <3>3. o.to = u => t.seen
      BY <3>1
    <3>4. /\ o.time <= now
          /\ now < o.time + Retention => o.row \in DOMAIN rows
          /\ o.row \in DOMAIN rows =>
               /\ o.by \in rows[o.row].actors
               /\ o.time <= rows[o.row].updated + 1
               /\ ~o.seen => ~rows[o.row].read
      BY DEF Lasting
    <3>5. ASSUME o.row \in DOMAIN rows, ~t.seen, rows'[o.row].read PROVE FALSE
      BY <2>3, <2>a, <3>2, <3>3, <3>4, <3>5
    <3>. QED BY <2>0, <3>1, <3>4, <3>5
  <2>. QED BY <2>4, <2>5 DEF Lasting
<1>7. CASE Evict
  <2>1. /\ UNCHANGED <<now, slots, told>>
        /\ DOMAIN rows' \subseteq DOMAIN rows /\ \A id \in DOMAIN rows' : rows'[id] = rows[id]
    BY <1>7 DEF Evict
  <2>2. \A id \in DOMAIN rows : now <= rows[id].updated + Retention => id \in DOMAIN rows'
    BY <1>7, Numbers DEF Evict, Aged
  <2>3. \A t \in told : now < t.time + Retention => t.row \in DOMAIN rows'
    BY <1>0, <2>2, Numbers DEF Lasting
  <2>. QED BY <2>1, <2>3 DEF Lasting
<1>8. CASE Announce
  <2>1. /\ UNCHANGED <<now, slots, told>> /\ DOMAIN rows \subseteq DOMAIN rows'
        /\ \A id \in DOMAIN rows : rows'[id] = rows[id]
        /\ \A id \in DOMAIN rows' \ DOMAIN rows : id >= nextId
    BY <1>8, AnnounceDoes
  <2>2. /\ \A x \in Slot : slots[x].at = "actor" => slots[x].row \notin DOMAIN rows' \ DOMAIN rows
        /\ \A t \in told : t.row \notin DOMAIN rows' \ DOMAIN rows
    BY <2>1, Numbers DEF KnowsRow
  <2>. QED BY <2>1, <2>2 DEF Lasting
<1>9. CASE Tick
  <2>1. UNCHANGED <<rows, slots, told>> /\ now' = now + 1
    BY <1>9 DEF Tick
  <2>. QED BY <1>0, <2>1 DEF Lasting
<1>. QED BY <1>1, <1>2, <1>3, <1>4, <1>5, <1>6, <1>7, <1>8, <1>9, StillSteps

LEMMA NewsLasts == Spec => [](NotificationsTypeOK /\ KnowsRow /\ Lasting)
<1>1. Init => Lasting
  BY DEF Init, Lasting, Idle
<1>2. NotificationsTypeOK /\ KnowsRow /\ Young /\ Lasting /\ [Next]_vars => Lasting'
  BY LastingStep
<1>. QED BY <1>1, <1>2, RequestsAreYoung, PTL DEF Spec

(* The eviction never takes what a player was told within the retention.      *)
THEOREM NewsIsKept == Spec => []ToldIsKept
<1>1. NotificationsTypeOK /\ KnowsRow /\ Lasting => ToldIsKept
  <2>. SUFFICES ASSUME NotificationsTypeOK, KnowsRow, Lasting,
                       NEW t \in told, now <= t.time + Retention - 1
                PROVE  OfKey(t, t.row) /\ t.row \in DOMAIN rows /\ t.by \in rows[t.row].actors
    BY DEF ToldIsKept
  <2>1. now < t.time + Retention
    BY Numbers, ToldNumbers
  <2>. QED BY <2>1 DEF Lasting, KnowsRow
<1>. QED BY <1>1, NewsLasts, PTL

(* News that nobody has looked at is unread.                                 *)
THEOREM UnseenIsUnread == Spec => []NewsIsUnread
<1>1. Lasting => NewsIsUnread
  BY DEF Lasting, NewsIsUnread
<1>. QED BY <1>1, NewsLasts, PTL

--------------------------------------------------------------------------------
(* An announcement was made near its date, and its row stays beyond the days   *)
(* in which the date would have it made again.                               *)
Announced ==
    \A x \in announced :
        /\ x.time <= now /\ x.date - Near <= x.time
        /\ now <= x.time + Retention =>
             \E id \in DOMAIN rows : /\ rows[id].to = x.to /\ rows[id].type = "backlog_release"
                                    /\ x.time <= rows[id].updated

LEMMA AnnouncedKept ==
    ASSUME NotificationsTypeOK, Announced, UNCHANGED <<now, announced>>,
           DOMAIN rows \subseteq DOMAIN rows',
           \A id \in DOMAIN rows :
                /\ rows'[id].to = rows[id].to /\ rows'[id].type = rows[id].type
                /\ rows'[id].updated \in {rows[id].updated, now}
    PROVE  Announced'
BY Numbers DEF Announced, NotificationsTypeOK

LEMMA AnnouncedStep ==
    ASSUME NotificationsTypeOK, Announced, ReleaseToldOnce, [Next]_vars
    PROVE  Announced' /\ ReleaseToldOnce'
<1>0. /\ now \in Nat /\ release \in Nat
      /\ \A x \in announced : x.time \in Nat /\ x.date \in Nat
      /\ announced \subseteq [to : People, date : Nat, time : Nat]
  BY DEF NotificationsTypeOK
<1>1. CASE Still
  BY <1>1, AnnouncedKept DEF Still, ReleaseToldOnce
<1>2. ASSUME NEW s \in Slot, NEW d \in Delivery, Look(s, d)
      PROVE  Announced' /\ ReleaseToldOnce'
  BY <1>2, LookDoes, AnnouncedKept DEF ReleaseToldOnce
<1>3. ASSUME NEW s \in Slot, Insert(s) PROVE Announced' /\ ReleaseToldOnce'
  BY <1>3, InsertDoes, AnnouncedKept DEF ReleaseToldOnce
<1>4. ASSUME NEW s \in Slot, Refresh(s) PROVE Announced' /\ ReleaseToldOnce'
  <2>1. \A id \in DOMAIN rows : rows'[id].updated \in {rows[id].updated, now}
    BY <1>4, RefreshDoes
  <2>2. DOMAIN rows' = DOMAIN rows /\ UNCHANGED <<now, announced>>
    BY <1>4, RefreshDoes
  <2>3. RowsKept
    BY <1>4, RefreshKeeps
  <2>. QED BY <2>1, <2>2, <2>3, AnnouncedKept DEF ReleaseToldOnce, RowsKept
<1>5. ASSUME NEW s \in Slot, AddActor(s) PROVE Announced' /\ ReleaseToldOnce'
  <2>1. /\ DOMAIN rows' = DOMAIN rows /\ UNCHANGED <<now, announced>>
        /\ \A id \in DOMAIN rows : rows'[id].updated = rows[id].updated
    BY <1>5, AddActorDoes
  <2>2. RowsKept
    BY <1>5, AddActorKeeps
  <2>. QED BY <2>1, <2>2, AnnouncedKept DEF ReleaseToldOnce, RowsKept
<1>6. ASSUME NEW u \in People, MarkRead(u) PROVE Announced' /\ ReleaseToldOnce'
  <2>1. /\ DOMAIN rows' = DOMAIN rows /\ UNCHANGED <<now, announced>>
        /\ \A id \in DOMAIN rows : rows'[id].updated = rows[id].updated
    BY <1>6, MarkReadDoes
  <2>2. RowsKept
    BY <1>6, MarkReadKeeps
  <2>. QED BY <2>1, <2>2, AnnouncedKept DEF ReleaseToldOnce, RowsKept
<1>7. CASE Evict
  <2>1. UNCHANGED <<now, announced>> /\ \A id \in DOMAIN rows' : rows'[id] = rows[id]
    BY <1>7 DEF Evict
  <2>2. \A id \in DOMAIN rows : now <= rows[id].updated + Retention => id \in DOMAIN rows'
    BY <1>7, Numbers DEF Evict, Aged
  <2>3. Announced'
    BY <1>0, <2>1, <2>2, Numbers DEF Announced
  <2>. QED BY <2>1, <2>3 DEF ReleaseToldOnce
<1>8. CASE Announce
  <2>. DEFINE made == {[to |-> p, date |-> release, time |-> now] : p \in Hearing}
  <2>1. /\ now' = now /\ announced' = announced \cup made
        /\ DOMAIN rows \subseteq DOMAIN rows'
        /\ \A id \in DOMAIN rows : rows'[id] = rows[id]
        /\ \A id \in DOMAIN rows' \ DOMAIN rows :
             rows'[id].type = "backlog_release" /\ rows'[id].updated = now
        /\ \A p \in Hearing : \E id \in DOMAIN rows' \ DOMAIN rows : rows'[id].to = p
    BY <1>8, AnnounceDoes
  <2>2. \A p \in Hearing :
            /\ release - Near <= now /\ now <= release + Near
            /\ \A id \in DOMAIN rows : ~(rows[id].to = p /\ rows[id].type = "backlog_release")
    BY DEF Hearing, Upcoming, Untold
  <2>3. \A y \in made : y.to \in Hearing /\ y.date = release /\ y.time = now
    OBVIOUS
  <2>4. \A x \in announced, y \in made : ~(x.to = y.to /\ x.date = y.date)
    <3>. SUFFICES ASSUME NEW x \in announced, NEW y \in made, x.to = y.to, x.date = y.date
                  PROVE  FALSE
      OBVIOUS
    <3>1. y.to \in Hearing /\ y.date = release
      BY <2>3
    <3>2. now <= x.date + Near /\ x.date - Near <= x.time
      BY <2>2, <3>1 DEF Announced
    <3>3. now <= x.time + Retention
      BY <1>0, <3>2, Numbers
    <3>. QED BY <2>2, <3>1, <3>3 DEF Announced
  <2>5. \A x, y \in made : (x.to = y.to /\ x.date = y.date) => x = y
    OBVIOUS
  <2>6. ReleaseToldOnce'
    <3>. HIDE DEF made
    <3>. QED BY <2>1, <2>4, <2>5 DEF ReleaseToldOnce
  <2>7. Announced'
    <3>1. ASSUME NEW x \in announced
          PROVE  /\ x.time <= now' /\ x.date - Near <= x.time
                 /\ now' <= x.time + Retention =>
                     \E id \in DOMAIN rows' : /\ rows'[id].to = x.to
                                             /\ rows'[id].type = "backlog_release"
                                             /\ x.time <= rows'[id].updated
      BY <2>1 DEF Announced
    <3>2. ASSUME NEW x \in made
          PROVE  /\ x.time <= now' /\ x.date - Near <= x.time
                 /\ \E id \in DOMAIN rows' : /\ rows'[id].to = x.to
                                             /\ rows'[id].type = "backlog_release"
                                             /\ x.time <= rows'[id].updated
      <4>1. x.to \in Hearing /\ x.date = release /\ x.time = now
        BY <2>3
      <4>. HIDE DEF made
      <4>. QED BY <1>0, <2>1, <2>2, <4>1
    <3>. HIDE DEF made
    <3>. QED BY <2>1, <3>1, <3>2 DEF Announced
  <2>. QED BY <2>6, <2>7
<1>9. CASE Tick
  <2>1. UNCHANGED <<rows, announced>> /\ now' = now + 1
    BY <1>9 DEF Tick, upkeep
  <2>. QED BY <1>0, <2>1, Numbers DEF Announced, ReleaseToldOnce
<1>. QED BY <1>1, <1>2, <1>3, <1>4, <1>5, <1>6, <1>7, <1>8, <1>9, StillSteps

(* Nobody hears of one release date twice.                                   *)
THEOREM ReleasesAreToldOnce == Spec => []ReleaseToldOnce
<1>1. Init => Announced /\ ReleaseToldOnce
  BY DEF Init, Announced, ReleaseToldOnce
<1>2. NotificationsTypeOK /\ Announced /\ ReleaseToldOnce /\ [Next]_vars
        => Announced' /\ ReleaseToldOnce'
  BY AnnouncedStep
<1>. QED BY <1>1, <1>2, NotificationTypes, PTL DEF Spec

--------------------------------------------------------------------------------
(* The agent's notification monitor, for any number of checks at once, any    *)
(* page size and any behaviour of the server: its types, and that a          *)
(* notification is shown again only where checks overlap or end between the   *)
(* toast and the note of it.                                                 *)
(*                                                                          *)
(* ToastsAreExcused is not inductive.  A check that has an id on its list     *)
(* will show it whatever the others note meanwhile, so the toasts that are    *)
(* still to come are counted with those made (HeldExcused).  A check puts an  *)
(* id on its list only while it is not noted; then every toast of it was cut  *)
(* off, or belongs to a check that is about to note it (UnnotedExcused), and   *)
(* such checks run, and are not the ones that have the toast before them.     *)

(* The checks that have shown id and not noted it, and those that will show it. *)
Marking(f, id) == {c \in Check : f[c].at = "mark" /\ f[c].cur = id}
Holding(f, id) == {c \in Check : id \in f[c].list} \ Marking(f, id)

(* A list holds rows that were inserted, and only while it is shown. *)
ListsKnown ==
    \A c \in Check :
        /\ checks[c].list \subseteq Ids
        /\ checks[c].at \notin {"show", "mark"} => checks[c].list = {}
        /\ CheckAt(c, "mark") => /\ checks[c].cur \in checks[c].list
                                 /\ checks[c].cur \in DOMAIN toasts

Tallies ==
    /\ crowd \in Nat
    /\ \A id \in DOMAIN toasts : toasts[id] \in Nat
    /\ \A id \in DOMAIN cut : cut[id] \in Nat

Crowded == Cardinality(Running) <= crowd

HeldExcused ==
    \A id \in Nat : Count(toasts, id) + Cardinality(Holding(checks, id)) <= crowd + Count(cut, id)

UnnotedExcused ==
    \A id \in Nat \ notified :
        Count(toasts, id) <= Count(cut, id) + Cardinality(Marking(checks, id))

AgentTypes == MonitorTypeOK /\ ListsKnown /\ Tallies

Excuses == Crowded /\ HeldExcused /\ UnnotedExcused

MonitorInv == NotificationsTypeOK /\ AgentTypes /\ Excuses

--------------------------------------------------------------------------------
(* Sets of checks are finite. *)
LEMMA ChecksCounted ==
    ASSUME NEW S \in SUBSET Check
    PROVE  /\ IsFiniteSet(S) /\ Cardinality(S) \in Nat
           /\ Cardinality(S) <= Cardinality(Check)
BY MonitorAssumption, FS_Subset, FS_CardinalityType

LEMMA FewerChecks ==
    ASSUME NEW S \in SUBSET Check, NEW T \in SUBSET S
    PROVE  Cardinality(T) <= Cardinality(S)
BY ChecksCounted, FS_Subset

LEMMA CountIsNat ==
    ASSUME NEW f, \A id \in DOMAIN f : f[id] \in Nat, NEW id
    PROVE  Count(f, id) \in Nat
BY DEF Count

LEMMA CountedAdds ==
    ASSUME NEW f, NEW ids, NEW id
    PROVE  Count(Counted(f, ids), id) = Count(f, id) + (IF id \in ids THEN 1 ELSE 0)
BY DEF Count, Counted

(* Ids are given out in order and never again. *)
LEMMA IdsGrow ==
    ASSUME NotificationsTypeOK, [Next]_vars
    PROVE  Ids \subseteq Ids' /\ nextId <= nextId'
<1>1. nextId \in Nat /\ Cardinality(Hearing) \in Nat
  BY HearingCounted DEF NotificationsTypeOK
<1>2. nextId' = nextId \/ nextId' = nextId + 1 \/ nextId' = nextId + Cardinality(Hearing)
  BY DEF Next, vars, Step, Post, Follow, Meta, ListPrior, Look, Insert, Refresh, AddActor,
         DeliveryFails, ListingFails, Abandon, DeleteComment, MarkRead, Evict, Announce,
         JobFails, RefreshRelease, Tick
<1>. QED BY <1>1, <1>2 DEF Ids

(* A page and what is fresh on it are rows of the table. *)
LEMMA FreshAreIds ==
    ASSUME NotificationsTypeOK PROVE Fresh \subseteq Ids /\ Fresh \cap notified = {}
BY DEF NotificationsTypeOK, Fresh, Page, Mine, Ids

--------------------------------------------------------------------------------
(* Types.  The server's steps leave the agent alone, and the agent's the tables. *)
Place == {"rest", "me", "list", "show", "mark"}
CheckRecord == [at : Place, list : SUBSET Nat, cur : Nat]

Listed(r) ==
    /\ r \in CheckRecord
    /\ r.list \subseteq Ids
    /\ r.at \notin {"show", "mark"} => r.list = {}
    /\ r.at = "mark" => r.cur \in r.list /\ r.cur \in DOMAIN toasts

LEMMA RestingListed == Listed(Resting) /\ Resting.at = "rest" /\ Resting.list = {}
BY DEF Listed, Resting, CheckRecord, Place

LEMMA ShowingListed ==
    ASSUME NEW r \in CheckRecord, r.list \subseteq Ids
    PROVE  Listed(ShowingOrRest(r))
<1>1. CASE r.list = {}
  BY <1>1, RestingListed DEF ShowingOrRest
<1>2. CASE r.list # {}
  BY <1>2 DEF ShowingOrRest, Listed, CheckRecord, Place
<1>. QED BY <1>1, <1>2

LEMMA TypesAsListed ==
    ASSUME AgentTypes, NEW c \in Check
    PROVE  Listed(checks[c])
BY DEF AgentTypes, MonitorTypeOK, ListsKnown, Listed, CheckRecord, Place, CheckAt

(* A step of one check that leaves the tables and the histories alone. *)
LEMMA OneCheckTypes ==
    ASSUME NotificationsTypeOK, AgentTypes, NEW c \in Check, NEW r, Listed(r), SetCheck(c, r),
           UNCHANGED <<nextId, wanted, toasts, cut, crowd>>, started' \in BOOLEAN,
           notified' \subseteq DOMAIN toasts
    PROVE  AgentTypes'
<1>1. checks' \in [Check -> CheckRecord]
  BY DEF AgentTypes, MonitorTypeOK, Listed, SetCheck, CheckRecord, Place
<1>2. \A d \in Check : Listed(checks[d])
  BY TypesAsListed
<1>3. \A d \in Check : Listed(checks'[d])
  BY <1>2 DEF SetCheck, AgentTypes, MonitorTypeOK
<1>. QED BY <1>1, <1>3 DEF AgentTypes, MonitorTypeOK, ListsKnown, Tallies, Listed, CheckRecord,
                           Place, CheckAt, Ids

LEMMA BeginTypes ==
    ASSUME NotificationsTypeOK, AgentTypes, NEW c \in Check, Begin(c), started' \in BOOLEAN
    PROVE  AgentTypes'
<1>1. Running \cup {c} \subseteq Check /\ c \notin Running
  BY DEF Begin, Running
<1>2. Cardinality(Running) + 1 \in Nat /\ Cardinality(Running) + 1 <= Cardinality(Check)
  <2>1. IsFiniteSet(Running)
    BY <1>1, ChecksCounted
  <2>2. Cardinality(Running \cup {c}) = Cardinality(Running) + 1
    BY <1>1, <2>1, FS_AddElement
  <2>. QED BY <1>1, <2>2, ChecksCounted
<1>3. crowd' \in Nat /\ crowd' <= Cardinality(Check)
  BY <1>2 DEF Begin, AgentTypes, Tallies, MonitorTypeOK
<1>. DEFINE r == [Resting EXCEPT !.at = "me"]
<1>4. Listed(r)
  BY DEF Listed, Resting, CheckRecord, Place
<1>5. checks' = [checks EXCEPT ![c] = r]
  BY DEF Begin, SetCheck
<1>. HIDE DEF r
<1>6. checks' \in [Check -> CheckRecord]
  BY <1>4, <1>5 DEF AgentTypes, MonitorTypeOK, Listed, CheckRecord, Place
<1>7. \A d \in Check : Listed(checks'[d])
  BY <1>4, <1>5, TypesAsListed DEF AgentTypes, MonitorTypeOK
<1>8. UNCHANGED <<nextId, wanted, notified, toasts, cut>>
  BY DEF Begin, vars
<1>. QED BY <1>3, <1>6, <1>7, <1>8 DEF AgentTypes, MonitorTypeOK, ListsKnown, Tallies, Listed,
                                       CheckRecord, Place, CheckAt, Ids

LEMMA GetMeTypes ==
    ASSUME NotificationsTypeOK, AgentTypes, NEW c \in Check, GetMe(c)
    PROVE  AgentTypes'
<1>. DEFINE r == IF wanted THEN [checks[c] EXCEPT !.at = "list"] ELSE Resting
<1>1. Listed(r)
  BY TypesAsListed, RestingListed DEF Listed, CheckRecord, Place, GetMe, CheckAt
<1>. QED BY <1>1, OneCheckTypes DEF GetMe, vars, AgentTypes, MonitorTypeOK

LEMMA GetListTypes ==
    ASSUME NotificationsTypeOK, AgentTypes, NEW c \in Check, GetList(c)
    PROVE  AgentTypes'
<1>. DEFINE r == ShowingOrRest([checks[c] EXCEPT !.list = Fresh])
<1>1. Listed(r)
  <2>1. Fresh \subseteq Ids /\ Ids \subseteq Nat
    BY FreshAreIds DEF Ids
  <2>. QED BY <2>1, TypesAsListed, ShowingListed DEF Listed, CheckRecord
<1>. QED BY <1>1, OneCheckTypes DEF GetList, vars, AgentTypes, MonitorTypeOK

LEMMA MarkNotifiedTypes ==
    ASSUME NotificationsTypeOK, AgentTypes, NEW c \in Check, MarkNotified(c)
    PROVE  AgentTypes'
<1>. DEFINE r == ShowingOrRest([checks[c] EXCEPT !.list = @ \ {checks[c].cur}, !.cur = 0])
<1>1. Listed(r)
  <2>. DEFINE s == [checks[c] EXCEPT !.list = @ \ {checks[c].cur}, !.cur = 0]
  <2>1. s \in CheckRecord /\ s.list \subseteq Ids
    BY TypesAsListed DEF Listed, CheckRecord
  <2>. QED BY <2>1, ShowingListed
<1>2. notified' \subseteq DOMAIN toasts
  BY TypesAsListed DEF MarkNotified, Noted, Listed, CheckAt, AgentTypes, MonitorTypeOK
<1>. QED BY <1>1, <1>2, OneCheckTypes DEF MarkNotified, vars, AgentTypes, MonitorTypeOK

(* A toast of an id on a list. *)
LEMMA ShowDoes ==
    ASSUME NotificationsTypeOK, AgentTypes, NEW c \in Check, Show(c)
    PROVE  \E id \in checks[c].list :
             /\ id \in Ids
             /\ checks' = [checks EXCEPT ![c] = [checks[c] EXCEPT !.at = "mark", !.cur = id]]
             /\ toasts' = Counted(toasts, {id})
             /\ DOMAIN toasts' = DOMAIN toasts \cup {id}
             /\ \A i \in DOMAIN toasts' : toasts'[i] \in Nat
<1>1. PICK id \in checks[c].list :
             /\ checks' = [checks EXCEPT ![c] = [checks[c] EXCEPT !.at = "mark", !.cur = id]]
             /\ toasts' = Counted(toasts, {id})
  BY DEF Show, SetCheck
<1>2. id \in Ids
  BY DEF AgentTypes, ListsKnown
<1>3. \A i \in DOMAIN Counted(toasts, {id}) : Counted(toasts, {id})[i] \in Nat
  BY CountIsNat DEF Counted, AgentTypes, Tallies
<1>. QED BY <1>1, <1>2, <1>3 DEF Counted

LEMMA ShowTypes ==
    ASSUME NotificationsTypeOK, AgentTypes, NEW c \in Check, Show(c)
    PROVE  AgentTypes'
<1>1. PICK id \in checks[c].list :
             /\ id \in Ids
             /\ checks' = [checks EXCEPT ![c] = [checks[c] EXCEPT !.at = "mark", !.cur = id]]
             /\ DOMAIN toasts' = DOMAIN toasts \cup {id}
             /\ \A i \in DOMAIN toasts' : toasts'[i] \in Nat
  BY ShowDoes
<1>2. checks' \in [Check -> CheckRecord]
  BY <1>1, TypesAsListed DEF AgentTypes, MonitorTypeOK, Listed, CheckRecord, Place, Ids
<1>3. ASSUME NEW d \in Check PROVE Listed(checks[d])
  BY TypesAsListed
<1>4. UNCHANGED <<nextId, started, wanted, notified, cut, crowd>>
  BY DEF Show, vars
<1>5. ListsKnown'
  BY <1>1, <1>2, <1>3, <1>4 DEF ListsKnown, Listed, CheckAt, Ids, AgentTypes, MonitorTypeOK
<1>. QED BY <1>1, <1>2, <1>4, <1>5 DEF AgentTypes, MonitorTypeOK, Tallies, CheckRecord, Place, Ids

(* A check that ends without success. *)
CutShort(cs) ==
    /\ checks' = [c \in Check |-> IF c \in cs THEN Resting ELSE checks[c]]
    /\ DOMAIN cut' = DOMAIN cut \cup Unnoted(cs)
    /\ \A id \in DOMAIN cut' :
         cut'[id] = Count(cut, id) + Cardinality({c \in cs : c \in Marking(checks, id)})
    /\ UNCHANGED <<nextId, wanted, notified, toasts, crowd>>

LEMMA CheckFailsDoes ==
    ASSUME NotificationsTypeOK, AgentTypes, NEW c \in Check, CheckFails(c)
    PROVE  CutShort({c}) /\ UNCHANGED started
<1>1. checks' = [d \in Check |-> IF d \in {c} THEN Resting ELSE checks[d]]
  BY DEF CheckFails, SetCheck, AgentTypes, MonitorTypeOK
<1>2. cut' = Counted(cut, Unnoted({c}))
  BY DEF CheckFails, Cut
<1>3. ASSUME NEW id
      PROVE  Cardinality({d \in {c} : d \in Marking(checks, id)}) = IF id \in Unnoted({c}) THEN 1 ELSE 0
  <2>1. CASE id \in Unnoted({c})
    <3>1. {d \in {c} : d \in Marking(checks, id)} = {c}
      BY <2>1 DEF Unnoted, Marking, CheckAt
    <3>. QED BY <2>1, <3>1, FS_Singleton
  <2>2. CASE id \notin Unnoted({c})
    <3>1. {d \in {c} : d \in Marking(checks, id)} = {}
      BY <2>2 DEF Unnoted, Marking, CheckAt
    <3>. QED BY <2>2, <3>1, FS_EmptySet
  <2>. QED BY <2>1, <2>2
<1>. QED BY <1>1, <1>2, <1>3 DEF CutShort, Counted, CheckFails

LEMMA AgentExitsDoes ==
    ASSUME NotificationsTypeOK, AgentTypes, AgentExits
    PROVE  CutShort(Check) /\ started' = FALSE
<1>1. ASSUME NEW id
      PROVE  {c \in Check : c \in Marking(checks, id)} = {c \in Check : CheckAt(c, "mark") /\ checks[c].cur = id}
  BY DEF Marking, CheckAt
<1>. QED BY <1>1 DEF AgentExits, CutShort

LEMMA CutShortTypes ==
    ASSUME NotificationsTypeOK, AgentTypes, NEW cs \in SUBSET Check, CutShort(cs),
           started' \in BOOLEAN
    PROVE  AgentTypes'
<1>1. checks' \in [Check -> CheckRecord]
  BY RestingListed, TypesAsListed DEF CutShort, Listed
<1>2. \A d \in Check : Listed(checks'[d])
  BY RestingListed, TypesAsListed DEF CutShort
<1>3. Unnoted(cs) \subseteq Ids
  BY DEF Unnoted, AgentTypes, ListsKnown, CheckAt
<1>4. ASSUME NEW id \in DOMAIN cut' PROVE cut'[id] \in Nat
  <2>1. {c \in cs : c \in Marking(checks, id)} \subseteq Check
    OBVIOUS
  <2>2. Cardinality({c \in cs : c \in Marking(checks, id)}) \in Nat
    BY <2>1, ChecksCounted
  <2>3. Count(cut, id) \in Nat
    BY CountIsNat DEF AgentTypes, Tallies
  <2>. QED BY <2>2, <2>3 DEF CutShort
<1>. QED BY <1>1, <1>2, <1>3, <1>4
         DEF CutShort, AgentTypes, MonitorTypeOK, ListsKnown, Tallies, Listed, CheckRecord,
             Place, CheckAt, Ids

LEMMA AgentInit == MonitorInit => AgentTypes
<1>1. Cardinality(Check) \in Nat
  BY ChecksCounted
<1>. SUFFICES ASSUME MonitorInit PROVE AgentTypes
  OBVIOUS
<1>2. checks = [c \in Check |-> Resting] /\ \A c \in Check : Listed(checks[c])
  BY RestingListed DEF MonitorInit
<1>3. checks \in [Check -> CheckRecord]
  BY <1>2 DEF Listed
<1>4. DOMAIN toasts = {} /\ DOMAIN cut = {} /\ notified = {} /\ crowd = 0
  BY DEF MonitorInit
<1>5. started \in BOOLEAN /\ wanted \in BOOLEAN
  BY DEF MonitorInit
<1>. QED BY <1>1, <1>2, <1>3, <1>4, <1>5
         DEF AgentTypes, MonitorTypeOK, ListsKnown, Tallies, Listed, CheckAt, CheckRecord, Place

LEMMA AgentTypesStep ==
    ASSUME NotificationsTypeOK, AgentTypes, [MonitorNext]_monitorVars
    PROVE  NotificationsTypeOK' /\ AgentTypes'
<1>1. CASE ServerNext \/ UNCHANGED monitorVars
  <2>1. [Next]_vars /\ UNCHANGED <<wanted, agent>>
    BY <1>1 DEF ServerNext, monitorVars
  <2>2. NotificationsTypeOK' /\ Ids \subseteq Ids'
    BY <2>1, NextTypes, IdsGrow
  <2>. QED BY <2>1, <2>2 DEF agent, AgentTypes, MonitorTypeOK, ListsKnown, Tallies, CheckAt
<1>2. CASE ~(ServerNext \/ UNCHANGED monitorVars)
  <2>1. NotificationsTypeOK'
    <3>1. UNCHANGED <<now, comments, rows, nextId, slots, upkeep, told, jobs>>
      BY <1>2 DEF MonitorNext, MonitorStart, Elapsed, Begin, CheckStep, GetMe, GetList, Show,
                  MarkNotified, CheckFails, MonitorStop, AgentExits, Prefer, vars, budget
    <3>2. faults' \in {faults, faults + 1} /\ requests' \in {requests, requests + 1}
      BY <1>2 DEF MonitorNext, MonitorStart, Elapsed, Begin, CheckStep, GetMe, GetList, Show,
                  MarkNotified, CheckFails, MonitorStop, AgentExits, Prefer, Fault, vars, budget
    <3>. QED BY <3>1, <3>2 DEF comments, upkeep, NotificationsTypeOK, At
  <2>2. ASSUME NEW c \in Check, MonitorStart(c) \/ Elapsed(c) PROVE AgentTypes'
    BY <2>2, BeginTypes DEF MonitorStart, Elapsed
  <2>3. ASSUME NEW c \in Check, CheckStep(c) PROVE AgentTypes'
    BY <2>3, GetMeTypes, GetListTypes, ShowTypes, MarkNotifiedTypes DEF CheckStep
  <2>4. ASSUME NEW c \in Check, CheckFails(c) PROVE AgentTypes'
    BY <2>4, CheckFailsDoes, CutShortTypes DEF AgentTypes, MonitorTypeOK
  <2>5. CASE AgentExits
    <3>1. CutShort(Check) /\ started' \in BOOLEAN /\ Check \in SUBSET Check
      BY <2>5, AgentExitsDoes
    <3>. QED BY <2>1, <3>1, CutShortTypes
  <2>6. CASE MonitorStop \/ Prefer
    <3>1. UNCHANGED <<nextId, checks, notified, toasts, cut, crowd>>
      BY <2>6 DEF MonitorStop, Prefer, agent, vars
    <3>2. started' \in BOOLEAN /\ wanted' \in BOOLEAN
      BY <2>6 DEF MonitorStop, Prefer, agent, AgentTypes, MonitorTypeOK
    <3>3. ListsKnown' /\ Tallies'
      BY <3>1 DEF AgentTypes, ListsKnown, Tallies, CheckAt, Ids
    <3>4. MonitorTypeOK'
      BY <3>1, <3>2 DEF AgentTypes, MonitorTypeOK, Ids
    <3>. QED BY <2>1, <3>3, <3>4 DEF AgentTypes
  <2>. QED BY <1>2, <2>1, <2>2, <2>3, <2>4, <2>5, <2>6 DEF MonitorNext
<1>. QED BY <1>1, <1>2

--------------------------------------------------------------------------------
(* Excuses.  Numbers and sets they are about. *)
LEMMA Numbered ==
    ASSUME AgentTypes, NEW id
    PROVE  /\ crowd \in Nat /\ Count(toasts, id) \in Nat /\ Count(cut, id) \in Nat
           /\ Marking(checks, id) \subseteq Check /\ Holding(checks, id) \subseteq Check
           /\ Cardinality(Marking(checks, id)) \in Nat /\ Cardinality(Holding(checks, id)) \in Nat
<1>1. Marking(checks, id) \subseteq Check /\ Holding(checks, id) \subseteq Check
  BY DEF Marking, Holding
<1>2. Count(toasts, id) \in Nat /\ Count(cut, id) \in Nat
  BY CountIsNat DEF AgentTypes, Tallies
<1>. QED BY <1>1, <1>2, ChecksCounted DEF AgentTypes, Tallies

(* A check that shows is one that has its toast before it, or has just made it. *)
LEMMA ShowingRuns ==
    ASSUME AgentTypes, NEW id
    PROVE  Marking(checks, id) \cup Holding(checks, id) \subseteq Running /\ Marking(checks, id) \cap Holding(checks, id) = {}
BY DEF AgentTypes, ListsKnown, Marking, Holding, Running, CheckAt

(* What one check's step does to the checks of an id. *)
LEMMA OneCheckMoves ==
    ASSUME AgentTypes, NEW c \in Check, NEW r, checks' = [checks EXCEPT ![c] = r], NEW id
    PROVE  /\ Marking(checks', id) = (Marking(checks, id) \ {c}) \cup (IF r.at = "mark" /\ r.cur = id THEN {c} ELSE {})
           /\ Holding(checks', id) = (Holding(checks, id) \ {c})
                  \cup (IF id \in r.list /\ ~(r.at = "mark" /\ r.cur = id) THEN {c} ELSE {})
<1>1. \A d \in Check : checks'[d] = IF d = c THEN r ELSE checks[d]
  BY DEF AgentTypes, MonitorTypeOK
<1>. QED BY <1>1 DEF Marking, Holding

LEMMA OneCheckRuns ==
    ASSUME AgentTypes, NEW c \in Check, NEW r, checks' = [checks EXCEPT ![c] = r]
    PROVE  Running' = (Running \ {c}) \cup (IF r.at # "rest" THEN {c} ELSE {})
BY DEF AgentTypes, MonitorTypeOK, Running, CheckAt

(* A step by which fewer hold an id, and none gives up the note of it, keeps    *)
(* what is excused.                                                          *)
LEMMA EasingExcuses ==
    ASSUME AgentTypes, AgentTypes', Excuses, Crowded', crowd <= crowd',
           UNCHANGED <<toasts, cut>>, notified \subseteq notified',
           \A id \in Nat : Holding(checks', id) \subseteq Holding(checks, id),
           \A id \in Nat : id \notin notified' => Marking(checks, id) \subseteq Marking(checks', id)
    PROVE  Excuses'
<1>1. ASSUME NEW id \in Nat
      PROVE  /\ Count(toasts, id) \in Nat /\ Count(cut, id) \in Nat /\ crowd \in Nat
             /\ Cardinality(Holding(checks, id)) \in Nat /\ Cardinality(Marking(checks, id)) \in Nat
             /\ Holding(checks, id) \subseteq Check
  BY Numbered
<1>2. ASSUME NEW id \in Nat
      PROVE  /\ crowd' \in Nat
             /\ Cardinality(Holding(checks', id)) \in Nat /\ Cardinality(Marking(checks', id)) \in Nat
             /\ Marking(checks', id) \subseteq Check
  <2>1. Holding(checks', id) \subseteq Check /\ Marking(checks', id) \subseteq Check
    BY DEF Holding, Marking
  <2>. QED BY <2>1, ChecksCounted DEF AgentTypes, Tallies
<1>3. HeldExcused'
  <2>1. ASSUME NEW id \in Nat
        PROVE  Count(toasts', id) + Cardinality(Holding(checks', id)) <= crowd' + Count(cut', id)
    <3>1. Cardinality(Holding(checks', id)) <= Cardinality(Holding(checks, id))
      <4>1. Holding(checks', id) \in SUBSET Holding(checks, id) /\ Holding(checks, id) \in SUBSET Check
        BY <1>1
      <4>. QED BY <4>1, FewerChecks
    <3>2. Count(toasts', id) = Count(toasts, id) /\ Count(cut', id) = Count(cut, id)
      BY DEF Count
    <3>. QED BY <1>1, <1>2, <3>1, <3>2 DEF Excuses, HeldExcused
  <2>. QED BY <2>1 DEF HeldExcused
<1>4. UnnotedExcused'
  <2>1. ASSUME NEW id \in Nat, id \notin notified'
        PROVE  Count(toasts', id) <= Count(cut', id) + Cardinality(Marking(checks', id))
    <3>1. Cardinality(Marking(checks, id)) <= Cardinality(Marking(checks', id))
      <4>1. Marking(checks, id) \in SUBSET Marking(checks', id) /\ Marking(checks', id) \in SUBSET Check
        BY <1>2, <2>1
      <4>. QED BY <4>1, FewerChecks
    <3>2. Count(toasts', id) = Count(toasts, id) /\ Count(cut', id) = Count(cut, id)
      BY DEF Count
    <3>. QED BY <1>1, <1>2, <2>1, <3>1, <3>2 DEF Excuses, UnnotedExcused
  <2>. QED BY <2>1 DEF UnnotedExcused
<1>. QED BY <1>3, <1>4 DEF Excuses

LEMMA BeginExcuses ==
    ASSUME NotificationsTypeOK, AgentTypes, AgentTypes', Excuses, NEW c \in Check, Begin(c)
    PROVE  Excuses'
<1>. DEFINE r == [Resting EXCEPT !.at = "me"]
<1>1. checks' = [checks EXCEPT ![c] = r] /\ r.at = "me" /\ r.list = {}
  BY DEF Begin, SetCheck, Resting
<1>2. Running' = Running \cup {c} /\ c \notin Running
  <2>1. c \notin Running
    BY DEF Begin, Running
  <2>. HIDE DEF r
  <2>. QED BY <1>1, <2>1, OneCheckRuns
<1>3. Cardinality(Running') = Cardinality(Running) + 1 /\ Cardinality(Running) \in Nat
  <2>1. Running \in SUBSET Check
    BY DEF Running
  <2>. QED BY <1>2, <2>1, ChecksCounted, FS_AddElement
<1>4. Crowded' /\ crowd <= crowd'
  BY <1>3 DEF Begin, Crowded, AgentTypes, Tallies
<1>5. ASSUME NEW id
      PROVE  Holding(checks', id) \subseteq Holding(checks, id) /\ Marking(checks, id) \subseteq Marking(checks', id)
  <2>1. c \notin Marking(checks, id)
    BY DEF Marking, Begin, CheckAt
  <2>. HIDE DEF r
  <2>2. /\ Marking(checks', id) = (Marking(checks, id) \ {c})
                  \cup (IF r.at = "mark" /\ r.cur = id THEN {c} ELSE {})
        /\ Holding(checks', id) = (Holding(checks, id) \ {c})
                  \cup (IF id \in r.list /\ ~(r.at = "mark" /\ r.cur = id) THEN {c} ELSE {})
    BY <1>1, OneCheckMoves, Zenon
  <2>. QED BY <1>1, <2>1, <2>2
<1>6. UNCHANGED <<toasts, cut, notified>>
  BY DEF Begin
<1>. QED BY <1>4, <1>5, <1>6, EasingExcuses

(* A check that goes on without a toast. *)
LEMMA GoingOn ==
    ASSUME AgentTypes, AgentTypes', Excuses, NEW c \in Running, NEW r,
           checks' = [checks EXCEPT ![c] = r], r.list \subseteq checks[c].list,
           r.at = "mark" => checks[c].at = "mark" /\ r.cur = checks[c].cur,
           checks[c].at = "mark" => checks[c].cur \in notified' /\ checks[c].cur \notin r.list,
           UNCHANGED <<toasts, cut, crowd>>, notified \subseteq notified'
    PROVE  Excuses'
<1>1. c \in Check
  BY DEF Running
<1>2. Running' \subseteq Running
  <2>1. Running' = (Running \ {c}) \cup (IF r.at # "rest" THEN {c} ELSE {})
    BY <1>1, OneCheckRuns, Zenon
  <2>. QED BY <2>1
<1>3. Crowded'
  <2>1. Running \in SUBSET Check /\ Running' \in SUBSET Running /\ Running' \in SUBSET Check
    BY <1>2 DEF Running
  <2>2. Cardinality(Running') <= Cardinality(Running)
    BY <2>1, FewerChecks
  <2>3. Cardinality(Running') \in Nat /\ Cardinality(Running) \in Nat
    BY <2>1, ChecksCounted
  <2>. QED BY <2>2, <2>3 DEF Excuses, Crowded, AgentTypes, Tallies
<1>4. ASSUME NEW id
      PROVE  /\ Holding(checks', id) \subseteq Holding(checks, id)
             /\ id \notin notified' => Marking(checks, id) \subseteq Marking(checks', id)
  <2>1. c \in Marking(checks, id) => id \in notified' /\ id \notin r.list
    BY DEF Marking, CheckAt
  <2>2. id \in r.list /\ c \notin Marking(checks, id) => c \in Holding(checks, id)
    BY <1>1 DEF Holding
  <2>3. \A d \in Check : checks'[d] = IF d = c THEN r ELSE checks[d]
    BY <1>1 DEF AgentTypes, MonitorTypeOK
  <2>4. Marking(checks', id) \ {c} = Marking(checks, id) \ {c}
    BY <2>3 DEF Marking
  <2>5. Holding(checks', id) \ {c} = Holding(checks, id) \ {c}
    BY <2>3 DEF Marking, Holding
  <2>6. c \in Holding(checks', id) => id \in r.list /\ c \notin Marking(checks', id)
    BY <1>1, <2>3 DEF Holding
  <2>7. c \in Marking(checks', id) => c \in Marking(checks, id)
    BY <1>1, <2>3 DEF Marking
  <2>. QED BY <2>1, <2>2, <2>4, <2>5, <2>6, <2>7
<1>5. crowd <= crowd'
  BY DEF AgentTypes, Tallies
<1>. QED BY <1>3, <1>4, <1>5, EasingExcuses

LEMMA GetMeExcuses ==
    ASSUME AgentTypes, AgentTypes', Excuses, NEW c \in Check, GetMe(c)
    PROVE  Excuses'
<1>. DEFINE r == IF wanted THEN [checks[c] EXCEPT !.at = "list"] ELSE Resting
<1>1. c \in Running /\ checks[c].at = "me"
  BY DEF GetMe, CheckAt, Running
<1>2. r.list \subseteq checks[c].list /\ r.at # "mark"
  BY TypesAsListed DEF Resting, Listed, CheckRecord
<1>3. checks' = [checks EXCEPT ![c] = r] /\ UNCHANGED <<toasts, cut, crowd, notified>>
  BY DEF GetMe, SetCheck
<1>. HIDE DEF r
<1>. QED BY <1>1, <1>2, <1>3, GoingOn

LEMMA MarkNotifiedExcuses ==
    ASSUME AgentTypes, AgentTypes', Excuses, NEW c \in Check, MarkNotified(c)
    PROVE  Excuses'
<1>. DEFINE r == ShowingOrRest([checks[c] EXCEPT !.list = @ \ {checks[c].cur}, !.cur = 0])
<1>1. c \in Running /\ checks[c].at = "mark"
  BY DEF MarkNotified, CheckAt, Running
<1>2. r.list \subseteq checks[c].list \ {checks[c].cur} /\ r.at # "mark"
  BY TypesAsListed DEF ShowingOrRest, Resting, Listed, CheckRecord
<1>3. checks' = [checks EXCEPT ![c] = r] /\ UNCHANGED <<toasts, cut, crowd>>
  BY DEF MarkNotified, SetCheck
<1>4. notified \subseteq notified' /\ checks[c].cur \in notified'
  BY DEF MarkNotified, Noted
<1>. HIDE DEF r
<1>. QED BY <1>1, <1>2, <1>3, <1>4, GoingOn

(* Two groups of the checks that run. *)
LEMMA ApartChecks ==
    ASSUME NEW U \in SUBSET Check, NEW S \in SUBSET U, NEW T \in SUBSET U, S \cap T = {}
    PROVE  Cardinality(S) + Cardinality(T) <= Cardinality(U)
<1>1. S \in SUBSET Check /\ T \in SUBSET Check /\ S \cup T \in SUBSET U /\ S \cup T \in SUBSET Check
  OBVIOUS
<1>2. IsFiniteSet(S) /\ IsFiniteSet(T) /\ Cardinality(S) \in Nat /\ Cardinality(T) \in Nat
  BY <1>1, ChecksCounted
<1>3. Cardinality(S \cup T) = Cardinality(S) + Cardinality(T) - Cardinality(S \cap T)
  BY <1>2, FS_Union
<1>4. Cardinality(S \cap T) = 0
  BY FS_EmptySet
<1>5. Cardinality(S \cup T) <= Cardinality(U)
  BY <1>1, FewerChecks
<1>. QED BY <1>2, <1>3, <1>4, <1>5

(* The list is what is not noted: a toast of it made before was cut short, or    *)
(* is about to be noted by another check, and every such check runs.           *)
LEMMA GetListExcuses ==
    ASSUME NotificationsTypeOK, AgentTypes, AgentTypes', Excuses, NEW c \in Check, GetList(c)
    PROVE  Excuses'
<1>. DEFINE r == ShowingOrRest([checks[c] EXCEPT !.list = Fresh])
<1>1. checks[c].at = "list" /\ checks[c].list = {} /\ c \in Running
  BY DEF GetList, CheckAt, AgentTypes, ListsKnown, Running
<1>2. r.list = Fresh /\ r.at # "mark"
  BY TypesAsListed DEF ShowingOrRest, Resting, Listed, CheckRecord
<1>3. \A d \in Check : checks'[d] = IF d = c THEN r ELSE checks[d]
  BY DEF GetList, SetCheck, AgentTypes, MonitorTypeOK
<1>. HIDE DEF r
<1>4. Running' \subseteq Running
  BY <1>1, <1>3 DEF Running, CheckAt
<1>5. UNCHANGED <<toasts, cut, crowd, notified>>
  BY DEF GetList
<1>6. Crowded'
  <2>1. Running \in SUBSET Check /\ Running' \in SUBSET Running /\ Running' \in SUBSET Check
    BY <1>4 DEF Running
  <2>2. Cardinality(Running') <= Cardinality(Running)
    BY <2>1, FewerChecks
  <2>3. Cardinality(Running') \in Nat /\ Cardinality(Running) \in Nat
    BY <2>1, ChecksCounted
  <2>. QED BY <1>5, <2>2, <2>3 DEF Excuses, Crowded, AgentTypes, Tallies
<1>7. ASSUME NEW id PROVE Marking(checks', id) = Marking(checks, id)
  BY <1>1, <1>2, <1>3 DEF Marking
<1>8. ASSUME NEW id \in Nat
      PROVE  Count(toasts, id) + Cardinality(Holding(checks', id)) <= crowd + Count(cut, id)
  <2>1. CASE id \notin Fresh
    <3>1. Holding(checks', id) = Holding(checks, id)
      BY <1>1, <1>2, <1>3, <1>7, <2>1 DEF Holding
    <3>. QED BY <3>1 DEF Excuses, HeldExcused
  <2>2. CASE id \in Fresh
    <3>. DEFINE S == Holding(checks', id)
                T == Marking(checks, id)
    <3>1. S \subseteq Holding(checks, id) \cup {c} /\ S \cap T = {}
      BY <1>3, <1>7 DEF Holding
    <3>2. S \in SUBSET Running /\ T \in SUBSET Running /\ Running \in SUBSET Check
      <4>1. Marking(checks, id) \cup Holding(checks, id) \subseteq Running
        BY ShowingRuns
      <4>. QED BY <1>1, <3>1, <4>1 DEF Running
    <3>3. S \in SUBSET Check /\ T \in SUBSET Check
      BY <3>2
    <3>4. Cardinality(S) + Cardinality(T) <= Cardinality(Running)
      BY <3>1, <3>2, ApartChecks
    <3>5. Cardinality(S) \in Nat /\ Cardinality(T) \in Nat /\ Cardinality(Running) \in Nat
      BY <3>2, <3>3, ChecksCounted
    <3>6. Count(toasts, id) <= Count(cut, id) + Cardinality(T)
      BY <2>2, FreshAreIds DEF Excuses, UnnotedExcused
    <3>. HIDE DEF S, T
    <3>7. Count(toasts, id) + Cardinality(S) <= crowd + Count(cut, id)
      BY <3>4, <3>5, <3>6, Numbered DEF Excuses, Crowded
    <3>. QED BY <3>7 DEF S
  <2>. QED BY <2>1, <2>2
<1>9. HeldExcused'
  BY <1>5, <1>8 DEF HeldExcused
<1>10. UnnotedExcused'
  BY <1>5, <1>7 DEF Excuses, UnnotedExcused
<1>. QED BY <1>6, <1>9, <1>10 DEF Excuses

(* A toast: one less to come, one more to note. *)
LEMMA ShowExcuses ==
    ASSUME NotificationsTypeOK, AgentTypes, AgentTypes', Excuses, NEW c \in Check, Show(c)
    PROVE  Excuses'
<1>1. PICK id \in checks[c].list :
             /\ checks' = [checks EXCEPT ![c] = [checks[c] EXCEPT !.at = "mark", !.cur = id]]
             /\ toasts' = Counted(toasts, {id})
  BY ShowDoes
<1>2. checks[c].at = "show" /\ c \in Running
  BY DEF Show, CheckAt, Running
<1>3. \A d \in Check : d # c => checks'[d] = checks[d]
  BY <1>1 DEF AgentTypes, MonitorTypeOK
<1>4. checks'[c].at = "mark" /\ checks'[c].cur = id /\ checks'[c].list = checks[c].list
  BY <1>1, TypesAsListed DEF AgentTypes, MonitorTypeOK, Listed, CheckRecord
<1>5. Running' = Running
  BY <1>2, <1>3, <1>4 DEF Running, CheckAt
<1>6. UNCHANGED <<cut, crowd, notified>>
  BY DEF Show
<1>7. ASSUME NEW j \in Nat, j # id
      PROVE  /\ Marking(checks', j) = Marking(checks, j) /\ Holding(checks', j) = Holding(checks, j)
             /\ Count(toasts', j) = Count(toasts, j)
  <2>1. Marking(checks', j) = Marking(checks, j)
    BY <1>2, <1>3, <1>4, <1>7 DEF Marking
  <2>2. Holding(checks', j) = Holding(checks, j)
    BY <1>3, <1>4, <2>1 DEF Holding
  <2>3. Count(toasts', j) = Count(toasts, j)
    BY <1>1, <1>7, CountedAdds, Numbered
  <2>. QED BY <2>1, <2>2, <2>3
<1>8. /\ Cardinality(Marking(checks', id)) = Cardinality(Marking(checks, id)) + 1
      /\ Cardinality(Holding(checks', id)) = Cardinality(Holding(checks, id)) - 1
      /\ Count(toasts', id) = Count(toasts, id) + 1
  <2>1. Marking(checks', id) = Marking(checks, id) \cup {c} /\ c \notin Marking(checks, id)
    BY <1>2, <1>3, <1>4 DEF Marking
  <2>2. c \in Holding(checks, id)
    BY <1>2 DEF Holding, Marking
  <2>3. Holding(checks', id) = Holding(checks, id) \ {c}
    BY <1>3, <1>4, <2>1 DEF Holding
  <2>4. IsFiniteSet(Marking(checks, id)) /\ IsFiniteSet(Holding(checks, id))
    BY Numbered, ChecksCounted
  <2>5. Cardinality(Marking(checks', id)) = Cardinality(Marking(checks, id)) + 1
    BY <2>1, <2>4, FS_AddElement
  <2>6. Cardinality(Holding(checks', id)) = Cardinality(Holding(checks, id)) - 1
    BY <2>2, <2>3, <2>4, FS_RemoveElement
  <2>7. Count(toasts', id) = Count(toasts, id) + 1
    BY <1>1, CountedAdds
  <2>. QED BY <2>5, <2>6, <2>7
<1>9. HeldExcused'
  <2>1. ASSUME NEW j \in Nat
        PROVE  Count(toasts', j) + Cardinality(Holding(checks', j)) <= crowd + Count(cut, j)
    <3>1. Count(toasts, j) + Cardinality(Holding(checks, j)) <= crowd + Count(cut, j)
      BY DEF Excuses, HeldExcused
    <3>2. CASE j = id
      BY <1>8, <3>1, <3>2, Numbered
    <3>3. CASE j # id
      BY <1>7, <3>1, <3>3
    <3>. QED BY <3>2, <3>3
  <2>. QED BY <1>6, <2>1 DEF HeldExcused
<1>10. UnnotedExcused'
  <2>1. ASSUME NEW j \in Nat, j \notin notified
        PROVE  Count(toasts', j) <= Count(cut, j) + Cardinality(Marking(checks', j))
    <3>1. Count(toasts, j) <= Count(cut, j) + Cardinality(Marking(checks, j))
      BY <2>1 DEF Excuses, UnnotedExcused
    <3>2. CASE j = id
      BY <1>8, <3>1, <3>2, Numbered
    <3>3. CASE j # id
      BY <1>7, <3>1, <3>3
    <3>. QED BY <3>2, <3>3
  <2>. QED BY <1>6, <2>1 DEF UnnotedExcused
<1>. QED BY <1>5, <1>6, <1>9, <1>10 DEF Excuses, Crowded

(* A toast that was not noted is one that was cut. *)
LEMMA CutShortExcuses ==
    ASSUME NotificationsTypeOK, AgentTypes, AgentTypes', Excuses,
           NEW cs \in SUBSET Check, CutShort(cs)
    PROVE  Excuses'
<1>1. \A d \in Check : checks'[d] = IF d \in cs THEN Resting ELSE checks[d]
  BY DEF CutShort
<1>2. Crowded'
  <2>1. Running \in SUBSET Check /\ Running' \in SUBSET Running /\ Running' \in SUBSET Check
    BY <1>1, RestingListed DEF Running, CheckAt
  <2>2. Cardinality(Running') <= Cardinality(Running)
    BY <2>1, FewerChecks
  <2>3. Cardinality(Running') \in Nat /\ Cardinality(Running) \in Nat
    BY <2>1, ChecksCounted
  <2>. QED BY <2>2, <2>3 DEF Excuses, Crowded, AgentTypes, Tallies, CutShort
<1>3. ASSUME NEW id \in Nat
      PROVE  /\ Count(toasts', id) = Count(toasts, id)
             /\ Count(cut', id) \in Nat
             /\ Count(cut', id) + Cardinality(Marking(checks', id))
                  = Count(cut, id) + Cardinality(Marking(checks, id))
             /\ Count(cut, id) <= Count(cut', id)
             /\ Cardinality(Holding(checks', id)) \in Nat
             /\ Cardinality(Marking(checks', id)) \in Nat
             /\ Cardinality(Holding(checks', id)) <= Cardinality(Holding(checks, id))
  <2>. DEFINE lost == {c \in cs : c \in Marking(checks, id)}
  <2>1. Marking(checks', id) = Marking(checks, id) \ lost /\ lost \subseteq Marking(checks, id)
    BY <1>1, RestingListed DEF Marking
  <2>2. Holding(checks', id) \subseteq Holding(checks, id)
    BY <1>1, RestingListed DEF Holding, Marking
  <2>3. /\ Marking(checks, id) \in SUBSET Check /\ lost \in SUBSET Check
        /\ Marking(checks', id) \in SUBSET Check
        /\ Holding(checks, id) \in SUBSET Check /\ Holding(checks', id) \in SUBSET Check
    BY DEF Marking, Holding
  <2>4. /\ IsFiniteSet(lost) /\ IsFiniteSet(Marking(checks', id))
        /\ Cardinality(lost) \in Nat /\ Cardinality(Marking(checks', id)) \in Nat
        /\ Cardinality(Holding(checks', id)) \in Nat
    BY <2>3, ChecksCounted
  <2>5. Cardinality(Marking(checks, id)) = Cardinality(Marking(checks', id)) + Cardinality(lost)
    <3>1. /\ Marking(checks', id) \cup lost = Marking(checks, id)
          /\ Marking(checks', id) \cap lost = {}
      BY <2>1
    <3>2. Cardinality(Marking(checks', id) \cup lost)
            = Cardinality(Marking(checks', id)) + Cardinality(lost)
                - Cardinality(Marking(checks', id) \cap lost)
      BY <2>4, FS_Union
    <3>3. Cardinality(Marking(checks', id) \cap lost) = 0
      BY <3>1, FS_EmptySet
    <3>4. Cardinality(Marking(checks, id)) = Cardinality(Marking(checks', id) \cup lost)
      BY <3>1, Zenon
    <3>. HIDE DEF lost
    <3>. QED BY <2>4, <3>2, <3>3, <3>4
  <2>6. Cardinality(Holding(checks', id)) <= Cardinality(Holding(checks, id))
    <3>1. Holding(checks', id) \in SUBSET Holding(checks, id)
      BY <2>2
    <3>. QED BY <2>3, <3>1, FewerChecks
  <2>7. Count(cut', id) = Count(cut, id) + Cardinality(lost)
    <3>1. CASE id \in DOMAIN cut'
      BY <3>1 DEF CutShort, Count
    <3>2. CASE id \notin DOMAIN cut'
      <4>1. id \notin DOMAIN cut /\ id \notin Unnoted(cs)
        BY <3>2 DEF CutShort
      <4>2. lost = {}
        BY <4>1 DEF Unnoted, Marking, CheckAt
      <4>. HIDE DEF lost
      <4>. QED BY <3>2, <4>1, <4>2, FS_EmptySet DEF Count
    <3>. QED BY <3>1, <3>2
  <2>8. Count(toasts', id) = Count(toasts, id)
    BY DEF CutShort
  <2>. HIDE DEF lost
  <2>. QED BY <2>4, <2>5, <2>6, <2>7, <2>8, Numbered
<1>4. HeldExcused'
  <2>1. ASSUME NEW id \in Nat
        PROVE  Count(toasts', id) + Cardinality(Holding(checks', id)) <= crowd + Count(cut', id)
    BY <1>3, Numbered DEF Excuses, HeldExcused
  <2>. QED BY <2>1 DEF HeldExcused, CutShort
<1>5. UnnotedExcused'
  <2>1. ASSUME NEW id \in Nat, id \notin notified
        PROVE  Count(toasts', id) <= Count(cut', id) + Cardinality(Marking(checks', id))
    BY <1>3, <2>1, Numbered DEF Excuses, UnnotedExcused
  <2>. QED BY <2>1 DEF UnnotedExcused, CutShort
<1>. QED BY <1>2, <1>4, <1>5 DEF Excuses

LEMMA ExcusesInit == MonitorInit => Excuses
<1>. SUFFICES ASSUME MonitorInit PROVE Excuses
  OBVIOUS
<1>1. \A c \in Check : checks[c] = Resting
  BY DEF MonitorInit
<1>2. Running = {} /\ \A id : Holding(checks, id) = {} /\ Marking(checks, id) = {}
  BY <1>1, RestingListed DEF Running, CheckAt, Holding, Marking
<1>3. crowd = 0 /\ \A id : Count(toasts, id) = 0 /\ Count(cut, id) = 0
  BY DEF MonitorInit, Count
<1>. QED BY <1>2, <1>3, FS_EmptySet DEF Excuses, Crowded, HeldExcused, UnnotedExcused

LEMMA ExcusesStep ==
    ASSUME NotificationsTypeOK, AgentTypes, AgentTypes', Excuses, [MonitorNext]_monitorVars
    PROVE  Excuses'
<1>1. CASE UNCHANGED <<checks, notified, toasts, cut, crowd>>
  BY <1>1 DEF Excuses, Crowded, Running, CheckAt, HeldExcused, UnnotedExcused
<1>2. CASE ServerNext \/ MonitorStop \/ Prefer \/ UNCHANGED monitorVars
  BY <1>1, <1>2 DEF ServerNext, MonitorStop, Prefer, monitorVars, agent
<1>3. ASSUME NEW c \in Check, MonitorStart(c) \/ Elapsed(c) PROVE Excuses'
  BY <1>3, BeginExcuses DEF MonitorStart, Elapsed
<1>4. ASSUME NEW c \in Check, CheckStep(c) PROVE Excuses'
  BY <1>4, GetMeExcuses, GetListExcuses, ShowExcuses, MarkNotifiedExcuses DEF CheckStep
<1>5. ASSUME NEW c \in Check, CheckFails(c) PROVE Excuses'
  <2>1. CutShort({c}) /\ {c} \in SUBSET Check
    BY <1>5, CheckFailsDoes
  <2>. QED BY <2>1, CutShortExcuses
<1>6. CASE AgentExits
  <2>1. CutShort(Check) /\ Check \in SUBSET Check
    BY <1>6, AgentExitsDoes
  <2>. QED BY <2>1, CutShortExcuses
<1>. QED BY <1>2, <1>3, <1>4, <1>5, <1>6 DEF MonitorNext

--------------------------------------------------------------------------------
LEMMA MonitorHolds == MonitorSpec => []MonitorInv
<1>1. MonitorInit => MonitorInv
  BY InitTypes, AgentInit, ExcusesInit DEF MonitorInit, MonitorInv
<1>2. MonitorInv /\ [MonitorNext]_monitorVars => MonitorInv'
  BY AgentTypesStep, ExcusesStep DEF MonitorInv
<1>. QED BY <1>1, <1>2, PTL DEF MonitorSpec

(* The agent's variables have their types whatever the server does, a check     *)
(* never lists a row that was not inserted, and what SQLite notes as shown was  *)
(* shown.                                                                    *)
THEOREM MonitorTypes == MonitorSpec => []MonitorTypeOK
BY MonitorHolds, PTL DEF MonitorInv, AgentTypes

(* A notification is shown again only by checks that overlap, or after a check  *)
(* that ended between its toast and the note of it, for any number of checks,   *)
(* rows and failures.                                                        *)
THEOREM ToastsRepeatOnlyExcused == MonitorSpec => []ToastsAreExcused
<1>1. MonitorInv => ToastsAreExcused
  <2>. SUFFICES ASSUME MonitorInv, NEW id \in DOMAIN toasts
                PROVE  toasts[id] <= crowd + Count(cut, id)
    BY DEF ToastsAreExcused
  <2>1. id \in Nat /\ Count(toasts, id) = toasts[id]
    BY DEF MonitorInv, AgentTypes, MonitorTypeOK, Ids, Count
  <2>2. Count(toasts, id) + Cardinality(Holding(checks, id)) <= crowd + Count(cut, id)
    BY <2>1 DEF MonitorInv, Excuses, HeldExcused
  <2>. QED BY <2>1, <2>2, Numbered DEF MonitorInv
<1>. QED BY <1>1, MonitorHolds, PTL

================================================================================
