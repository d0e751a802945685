------------------------ MODULE VelocityLimiterProofs ------------------------
(****************************************************************************)
(* The limiter's promises for any interval, penalty and idle timeout within *)
(* LimiterAssumption, any number of users and any clock.                    *)
(*                                                                          *)
(* The properties speak of what was granted and announced, the code decides *)
(* from what the map still holds.  Remembered relates the two: an entry is  *)
(* at least as strict as the history, an evicted one may only be forgotten  *)
(* once the history no longer restrains the user.                           *)
(****************************************************************************)
EXTENDS VelocityLimiter, TLAPS

(* At time n, a user last granted at g and told to wait until t may go ahead. *)
Free(n, g, t) == n >= t /\ (g # Never => n - g >= MinInterval)

(* At time n, entry e is as strict as that history, and no stricter. *)
Faithful(e, n, g, t) ==
    /\ t <= e.penaltyUntil \/ t <= n
    /\ e.penaltyUntil <= t
    /\ e.lastRequest <= n
    /\ g # Never => g <= e.lastRequest
    /\ \/ g # Never /\ g = e.lastRequest
       \/ t = e.penaltyUntil /\ e.penaltyUntil >= e.lastRequest + MinInterval

Remembered == \A u \in User : IF Known(u)
                              THEN Faithful(entries[u], now, granted[u], told[u])
                              ELSE Free(now, granted[u], told[u])

IndInv == TypeOK /\ Remembered

--------------------------------------------------------------------------------

LEMMA PowersPositive == \A n \in 0 .. 16 : PowerOfTwo[n + 1] \in Nat \ {0}
<1>1. PowerOfTwo \in [1 .. 17 -> Nat \ {0}]
  BY DEF PowerOfTwo
<1> QED
  BY <1>1

LEMMA ShiftBounds == ASSUME NEW v \in Nat PROVE ShiftOf(v) \in 0 .. 16
  BY DEF ShiftOf, AtMost, maxShift

(* A penalty is never shorter than the interval nor longer than the cap. *)
LEMMA PenaltyBounds ==
  ASSUME NEW v \in Nat
  PROVE  penaltyFor(v) \in Nat /\ penaltyFor(v) >= MinInterval /\ penaltyFor(v) <= MaxPenalty
<1> DEFINE n == Shifted(ShiftOf(v))
<1>1. n \in Nat \ {0}
  BY PowersPositive, ShiftBounds DEF Shifted
<1>2. penaltyFor(v) = IF MinInterval * n > MaxPenalty THEN MaxPenalty
                      ELSE MinInterval * n
  BY DEF penaltyFor, AtMost
<1> HIDE DEF n
<1>3. MinInterval \in Nat /\ MaxPenalty \in Nat /\ MinInterval <= MaxPenalty
  BY LimiterAssumption
<1>4. MinInterval * n \in Nat /\ MinInterval * n >= MinInterval
  BY <1>1, <1>3
<1> QED
  BY <1>2, <1>3, <1>4

LEMMA IndInvInit == Init => IndInv
  BY LimiterAssumption
     DEF Init, IndInv, TypeOK, Time, Remembered, Known, Free, Never

LEMMA IndInvStep == IndInv /\ [Next]_vars => IndInv'
<1> SUFFICES ASSUME IndInv, [Next]_vars PROVE IndInv'
  OBVIOUS
<1> DEFINE Stored(u, e) ==
      /\ DOMAIN entries' = DOMAIN entries \cup {u}
      /\ entries'[u] = e
      /\ \A v \in DOMAIN entries : v # u => entries'[v] = entries[v]
<1>1. ASSUME NEW u \in User, Refuse(u) PROVE IndInv'
  <2> DEFINE violations == entries[u].violations + 1
             until == now + penaltyFor(violations)
             e == [lastRequest |-> now, penaltyUntil |-> until,
                   violations |-> violations]
  <2>1. /\ u \in DOMAIN entries /\ Store(u, e) /\ now' = now
        /\ granted' = granted /\ told' = [told EXCEPT ![u] = until]
    BY <1>1 DEF Refuse, Known
  <2>2. entries[u] \in Entry /\ violations \in 1 .. MaxViolations
    BY <1>1, <2>1, LimiterAssumption DEF IndInv, TypeOK, Entry, Refuse
  <2>3. until \in 0 .. (MaxTime + MaxPenalty) /\ until >= now + MinInterval
    <3>1. violations \in Nat
      BY <2>2, LimiterAssumption
    <3>2. /\ penaltyFor(violations) \in Nat
          /\ penaltyFor(violations) >= MinInterval
          /\ penaltyFor(violations) <= MaxPenalty
      BY <3>1, PenaltyBounds
    <3> QED
      BY <3>2, LimiterAssumption DEF IndInv, TypeOK, Time
  <2> HIDE DEF violations, until
  <2>4. Stored(u, e)
    BY <2>1 DEF Store
  <2>5. e \in Entry
    BY <2>2, <2>3 DEF Entry, IndInv, TypeOK
  <2> HIDE DEF e
  <2>6. TypeOK'
    BY <2>1, <2>3, <2>4, <2>5 DEF IndInv, TypeOK
  <2>7. e.lastRequest = now /\ e.penaltyUntil = until
    BY DEF e
  <2>8. Faithful(e, now', granted'[u], told'[u])
    BY <2>1, <2>2, <2>3, <2>7, LimiterAssumption
       DEF IndInv, TypeOK, Time, Entry, Remembered, Known, Faithful, Never
  <2>9. \A v \in User : v # u => told'[v] = told[v]
    BY <2>1 DEF IndInv, TypeOK
  <2>10. ASSUME NEW v \in User, v # u
         PROVE  IF v \in DOMAIN entries'
                THEN Faithful(entries'[v], now', granted'[v], told'[v])
                ELSE Free(now', granted'[v], told'[v])
    BY <2>1, <2>4, <2>9, <2>10 DEF IndInv, Remembered, Known, Faithful, Free
  <2> QED
    BY <2>4, <2>6, <2>8, <2>10 DEF IndInv, Remembered, Known
<1>2. ASSUME NEW u \in User, Grant(u) PROVE IndInv'
  <2> DEFINE e == IF Known(u)
                  THEN [entries[u] EXCEPT
                          !.lastRequest = now,
                          !.violations = Forgiven(entries[u].violations)]
                  ELSE [lastRequest |-> now, penaltyUntil |-> 0, violations |-> 0]
  <2>1. /\ Known(u) => ~TooSoon(entries[u])
        /\ Store(u, e) /\ now' = now
        /\ told' = told /\ granted' = [granted EXCEPT ![u] = now]
    BY <1>2 DEF Grant
  <2>2. Known(u) => entries[u] \in Entry
    BY DEF IndInv, TypeOK, Known
  <2>3. e \in Entry /\ e.lastRequest = now
        /\ e.penaltyUntil = IF Known(u) THEN entries[u].penaltyUntil ELSE 0
    <3>1. CASE Known(u)
      <4>1. Forgiven(entries[u].violations) \in 0 .. MaxViolations
        BY <2>2, <3>1, LimiterAssumption DEF Entry, Forgiven
      <4>2. now \in Time
        BY DEF IndInv, TypeOK
      <4> QED
        BY <2>2, <3>1, <4>1, <4>2 DEF Entry
    <3>2. CASE ~Known(u)
      <4>1. now \in Time /\ 0 \in 0 .. (MaxTime + MaxPenalty) /\ 0 \in 0 .. MaxViolations
        BY LimiterAssumption DEF IndInv, TypeOK
      <4> QED
        BY <3>2, <4>1 DEF Entry
    <3> QED
      BY <3>1, <3>2
  <2> HIDE DEF e
  <2>4. Stored(u, e)
    BY <2>1 DEF Store
  <2>5. TypeOK'
    BY <2>1, <2>3, <2>4 DEF IndInv, TypeOK
  <2>6. told[u] <= now
    BY <2>1, <2>2 DEF IndInv, TypeOK, Time, Entry, Remembered, Known, TooSoon,
                      Faithful, Free
  <2>7. e.penaltyUntil <= told[u]
    BY <2>2, <2>3 DEF IndInv, TypeOK, Remembered, Known, Faithful
  <2>8. Faithful(e, now', granted'[u], told'[u])
    BY <2>1, <2>3, <2>6, <2>7, LimiterAssumption
       DEF IndInv, TypeOK, Time, Faithful, Never
  <2>9. \A v \in User : v # u => granted'[v] = granted[v]
    BY <2>1 DEF IndInv, TypeOK
  <2>10. ASSUME NEW v \in User, v # u
         PROVE  IF v \in DOMAIN entries'
                THEN Faithful(entries'[v], now', granted'[v], told'[v])
                ELSE Free(now', granted'[v], told'[v])
    BY <2>1, <2>4, <2>9, <2>10 DEF IndInv, Remembered, Known, Faithful, Free
  <2> QED
    BY <2>4, <2>5, <2>8, <2>10 DEF IndInv, Remembered, Known
<1>3. CASE Cleanup
  <2>1. /\ now' = now /\ granted' = granted /\ told' = told
        /\ DOMAIN entries' = {v \in DOMAIN entries : ~Idle(entries[v])}
        /\ \A v \in DOMAIN entries' : entries'[v] = entries[v]
    BY <1>3 DEF Cleanup
  <2>2. TypeOK'
    BY <2>1 DEF IndInv, TypeOK
  <2>3. ASSUME NEW v \in User, v \in DOMAIN entries, Idle(entries[v])
        PROVE  Free(now, granted[v], told[v])
    BY <2>3, LimiterAssumption
       DEF IndInv, TypeOK, Time, Entry, Remembered, Known, Faithful, Free, Idle,
           Never
  <2>4. ASSUME NEW v \in User
        PROVE  IF v \in DOMAIN entries'
               THEN Faithful(entries'[v], now', granted'[v], told'[v])
               ELSE Free(now', granted'[v], told'[v])
    BY <2>1, <2>3 DEF IndInv, Remembered, Known, Faithful, Free
  <2> QED
    BY <2>2, <2>4 DEF IndInv, Remembered, Known
<1>4. CASE Tick
  <2>1. now \in Nat /\ now' = now + 1 /\ now' \in Time
        /\ UNCHANGED <<entries, granted, told>>
    BY <1>4, LimiterAssumption DEF Tick, IndInv, TypeOK, Time
  <2>2. TypeOK'
    BY <2>1 DEF IndInv, TypeOK
  <2>3. ASSUME NEW v \in User, v \in DOMAIN entries
        PROVE  Faithful(entries'[v], now', granted'[v], told'[v])
    BY <2>1, <2>3 DEF IndInv, TypeOK, Entry, Time, Remembered, Known, Faithful
  <2>4. ASSUME NEW v \in User, v \notin DOMAIN entries
        PROVE  Free(now', granted'[v], told'[v])
    BY <2>1, <2>4, LimiterAssumption
       DEF IndInv, TypeOK, Time, Never, Remembered, Known, Free
  <2> QED
    BY <2>1, <2>2, <2>3, <2>4 DEF IndInv, Remembered, Known
<1>5. CASE UNCHANGED vars
  BY <1>5 DEF vars, IndInv, TypeOK, Remembered, Known, Faithful, Free
<1> QED
  BY <1>1, <1>2, <1>3, <1>4, <1>5 DEF Next

THEOREM LimiterInvariant == Spec => []IndInv
  BY IndInvInit, IndInvStep, PTL DEF Spec

(* The types of the limiter's state, for every value of the constants. *)
THEOREM LimiterTypes == Spec => []TypeOK
<1>1. IndInv => TypeOK
  BY DEF IndInv
<1> QED
  BY <1>1, LimiterInvariant, PTL

(* Two granted requests of a user are minInterval apart, evictions included. *)
THEOREM SpacingHolds == Spec => GrantsAreSpaced
<1>1. IndInv /\ [Next]_vars =>
        [\A u \in User :
           (Grant(u) /\ granted[u] # Never) => now - granted[u] >= MinInterval]_vars
  <2> SUFFICES ASSUME IndInv, NEW u \in User, Grant(u), granted[u] # Never
               PROVE  now - granted[u] >= MinInterval
    OBVIOUS
  <2>1. CASE Known(u)
    BY <2>1, LimiterAssumption
       DEF IndInv, TypeOK, Entry, Time, Never, Remembered, Known, Faithful,
           Grant, TooSoon
  <2>2. CASE ~Known(u)
    BY <2>2 DEF IndInv, Remembered, Known, Free
  <2> QED
    BY <2>1, <2>2
<1> QED
  BY <1>1, LimiterInvariant, PTL DEF Spec, GrantsAreSpaced

(* No announced cooldown is cut short, evictions included. *)
THEOREM CooldownHolds == Spec => CooldownIsKept
<1>1. IndInv /\ [Next]_vars => [\A u \in User : Grant(u) => now >= told[u]]_vars
  <2> SUFFICES ASSUME IndInv, NEW u \in User, Grant(u) PROVE now >= told[u]
    OBVIOUS
  <2>1. CASE Known(u)
    BY <2>1 DEF IndInv, TypeOK, Entry, Time, Remembered, Known, Faithful, Grant,
                TooSoon
  <2>2. CASE ~Known(u)
    BY <2>2 DEF IndInv, Remembered, Known, Free
  <2> QED
    BY <2>1, <2>2
<1> QED
  BY <1>1, LimiterInvariant, PTL DEF Spec, CooldownIsKept

(* A client that waits as long as it is told is never refused. *)
THEOREM PatienceIsServed == Spec => RefusalIsDeserved
<1>1. IndInv /\ [Next]_vars =>
        [\A u \in User : Refuse(u) =>
           \/ now < told[u]
           \/ granted[u] # Never /\ now - granted[u] < MinInterval]_vars
  <2> SUFFICES ASSUME IndInv, NEW u \in User, Refuse(u), now >= told[u]
               PROVE  granted[u] # Never /\ now - granted[u] < MinInterval
    BY DEF IndInv, TypeOK, Time
  <2> QED
    BY LimiterAssumption
       DEF IndInv, TypeOK, Entry, Time, Remembered, Known, Faithful, Refuse,
           TooSoon
<1> QED
  BY <1>1, LimiterInvariant, PTL DEF Spec, RefusalIsDeserved

--------------------------------------------------------------------------------
(* Escalation. *)

LEMMA PowersDouble == \A n \in 1 .. 16 : PowerOfTwo[n + 1] = 2 * PowerOfTwo[n]
<1>1. ASSUME NEW n \in 1 .. 16
      PROVE  \/ n = 1 \/ n = 2 \/ n = 3 \/ n = 4 \/ n = 5 \/ n = 6 \/ n = 7 \/ n = 8
             \/ n = 9 \/ n = 10 \/ n = 11 \/ n = 12 \/ n = 13 \/ n = 14 \/ n = 15 \/ n = 16
  OBVIOUS
<1> QED
  BY <1>1 DEF PowerOfTwo

LEMMA PenaltyDoubles ==
  ASSUME NEW v \in Nat \ {0}
  PROVE  penaltyFor(v + 1) = AtMost(2 * penaltyFor(v), MaxPenalty)
<1>1. MinInterval \in Nat /\ MaxPenalty \in Nat /\ MinInterval <= MaxPenalty
  BY LimiterAssumption
<1>2. CASE v <= 16
  <2> DEFINE n == PowerOfTwo[v]
  <2>1. Shifted(ShiftOf(v)) = n /\ Shifted(ShiftOf(v + 1)) = 2 * n
    BY <1>2, PowersDouble DEF Shifted, ShiftOf, AtMost, maxShift
  <2>2. n \in Nat
    <3>1. v - 1 \in 0 .. 16
      BY <1>2
    <3> QED
      BY <3>1, PowersPositive
  <2> HIDE DEF n
  <2> DEFINE m == MinInterval * n
  <2>3. m \in Nat /\ MinInterval * (2 * n) = 2 * m
    BY <1>1, <2>2
  <2>4. penaltyFor(v) = AtMost(m, MaxPenalty) /\ penaltyFor(v + 1) = AtMost(2 * m, MaxPenalty)
    BY <2>1, <2>3 DEF penaltyFor
  <2> HIDE DEF m
  <2> QED
    BY <1>1, <2>3, <2>4 DEF AtMost
<1>3. CASE v > 16
  <2>1. Shifted(ShiftOf(v)) = 65536 /\ Shifted(ShiftOf(v + 1)) = 65536
    BY <1>3 DEF Shifted, ShiftOf, AtMost, maxShift, PowerOfTwo
  <2>2. penaltyFor(v) = MaxPenalty /\ penaltyFor(v + 1) = MaxPenalty
    BY <1>1, <2>1, LimiterAssumption DEF penaltyFor, AtMost
  <2> QED
    BY <1>1, <2>2 DEF AtMost
<1> QED
  BY <1>2, <1>3

(* A cooldown that runs is the penalty of the violations counted, from the    *)
(* last request.                                                             *)
Escalated == \A u \in DOMAIN entries : now < entries[u].penaltyUntil =>
                 /\ entries[u].violations > 0
                 /\ entries[u].penaltyUntil =
                      entries[u].lastRequest + penaltyFor(entries[u].violations)

LEMMA EscalatedStep == IndInv /\ Escalated /\ [Next]_vars => Escalated'
<1> SUFFICES ASSUME IndInv, Escalated, [Next]_vars PROVE Escalated'
  OBVIOUS
<1> USE DEF Escalated
<1>1. ASSUME NEW u \in User, Refuse(u) PROVE Escalated'
  <2> DEFINE violations == entries[u].violations + 1
  <2>1. /\ now' = now
        /\ DOMAIN entries' = DOMAIN entries \cup {u}
        /\ entries'[u] = [lastRequest |-> now, penaltyUntil |-> now + penaltyFor(violations),
                          violations |-> violations]
        /\ \A v \in DOMAIN entries : v # u => entries'[v] = entries[v]
    BY <1>1 DEF Refuse, Store
  <2>2. violations > 0
    BY <1>1 DEF Refuse, Known, IndInv, TypeOK, Entry
  <2> HIDE DEF violations
  <2> QED
    BY <2>1, <2>2
<1>2. ASSUME NEW u \in User, Grant(u) PROVE Escalated'
  <2>1. now' = now /\ DOMAIN entries' = DOMAIN entries \cup {u}
        /\ \A v \in DOMAIN entries : v # u => entries'[v] = entries[v]
    BY <1>2 DEF Grant, Store
  <2>2. ~(now < entries'[u].penaltyUntil)
    <3>1. CASE Known(u)
      <4>1. entries'[u].penaltyUntil = entries[u].penaltyUntil
        BY <1>2, <3>1 DEF Grant, Store, Known, IndInv, TypeOK, Entry
      <4> QED
        BY <1>2, <3>1, <4>1 DEF Grant, TooSoon
    <3>2. CASE ~Known(u)
      BY <1>2, <3>2 DEF Grant, Store, IndInv, TypeOK, Time
    <3> QED
      BY <3>1, <3>2
  <2> QED
    BY <2>1, <2>2
<1>3. CASE Cleanup
  BY <1>3 DEF Cleanup
<1>4. CASE Tick
  BY <1>4 DEF Tick, IndInv, TypeOK, Time, Entry
<1>5. CASE UNCHANGED vars
  BY <1>5 DEF vars
<1> QED
  BY <1>1, <1>2, <1>3, <1>4, <1>5 DEF Next

(* Each further request before the cooldown is over doubles it, up to the cap *)
(* (velocity.go:12-14), for every interval that sixteen doublings take there.  *)
THEOREM EscalationHolds == Spec => EscalationDoubles
<1>1. Init => Escalated
  BY DEF Init, Escalated
<1>2. IndInv /\ Escalated /\ [Next]_vars => Escalated'
  BY EscalatedStep
<1>3. IndInv /\ Escalated /\ [Next]_vars =>
        [\A u \in User : (Refuse(u) /\ now < told[u]) =>
           told'[u] - now = AtMost(2 * (told[u] - entries[u].lastRequest), MaxPenalty)]_vars
  <2> SUFFICES ASSUME IndInv, Escalated, NEW u \in User, Refuse(u), now < told[u]
               PROVE  told'[u] - now =
                        AtMost(2 * (told[u] - entries[u].lastRequest), MaxPenalty)
    OBVIOUS
  <2> DEFINE v == entries[u].violations
  <2>1. /\ u \in DOMAIN entries /\ entries[u] \in Entry /\ now \in Nat
        /\ told[u] = entries[u].penaltyUntil
    BY LimiterAssumption DEF Refuse, Known, IndInv, TypeOK, Time, Entry, Remembered, Faithful
  <2>2. v \in Nat \ {0} /\ told[u] = entries[u].lastRequest + penaltyFor(v)
    BY <2>1 DEF Escalated, Entry
  <2>3. told'[u] = now + penaltyFor(v + 1)
    BY DEF Refuse, IndInv, TypeOK
  <2>4. penaltyFor(v) \in Nat /\ penaltyFor(v + 1) \in Nat /\ entries[u].lastRequest \in Nat
    BY <2>1, <2>2, PenaltyBounds DEF Entry, Time
  <2>5. penaltyFor(v + 1) = AtMost(2 * penaltyFor(v), MaxPenalty)
    BY <2>2, PenaltyDoubles
  <2> HIDE DEF v
  <2>6. /\ told'[u] - now = penaltyFor(v + 1)
        /\ told[u] - entries[u].lastRequest = penaltyFor(v)
    BY <2>1, <2>2, <2>3, <2>4
  <2> QED
    BY <2>5, <2>6
<1> QED
  BY <1>1, <1>2, <1>3, LimiterInvariant, PTL DEF Spec, EscalationDoubles

================================================================================
