---------------------------- MODULE VelocityLimiter ----------------------------
(****************************************************************************)
(* The API's per-user write limiter: a minimum interval between requests,   *)
(* with a cooldown that doubles for who does not wait, and a background     *)
(* cleanup that forgets idle users.  Allow runs under a mutex, so each of   *)
(* its outcomes is one action.  One process lifetime: the map is not saved. *)
(****************************************************************************)
EXTENDS Integers, Sequences

CONSTANTS
    User,           \* keys of the limiter
    MinInterval,    \* minInterval
    MaxPenalty,     \* maxPenalty
    IdleTimeout,    \* cleanupLoop's idleTimeout
    MaxTime,        \* bound: the clock stops here
    MaxViolations   \* bound on the violations of one entry

(* Of the two limiters of the API, 20 s up to 5 min and 20 min up to 24 h,   *)
(* both are within these; idleTimeout is one hour.                           *)
ASSUME LimiterAssumption ==
    /\ MinInterval \in Nat \ {0}
    /\ MaxPenalty \in Nat /\ MaxPenalty >= MinInterval
    /\ MaxPenalty <= MinInterval * 65536
    /\ IdleTimeout \in Nat /\ IdleTimeout >= MinInterval
    /\ MaxTime \in Nat /\ MaxViolations \in Nat

VARIABLES
    now,            \* the clock
    entries,        \* the map: per user with an entry, its velocityEntry
    granted,        \* history: time of the user's last granted request, or Never
    told            \* history: when the wait last announced to the user is over

vars == <<now, entries, granted, told>>

Never == -1
Time == 0 .. MaxTime
Entry == [lastRequest : Time, penaltyUntil : 0 .. (MaxTime + MaxPenalty),
          violations : 0 .. MaxViolations]

Init == /\ now = 0
        /\ entries = [u \in {} |-> 0]
        /\ granted = [u \in User |-> Never]
        /\ told = [u \in User |-> 0]

--------------------------------------------------------------------------------

maxShift == 16

(* 1 << n for n in 0 .. maxShift. *)
PowerOfTwo == <<1, 2, 4, 8, 16, 32, 64, 128, 256, 512, 1024, 2048, 4096, 8192,
                16384, 32768, 65536>>
Shifted(n) == PowerOfTwo[n + 1]

AtMost(a, b) == IF a > b THEN b ELSE a

(* Mutant: the second violation costs no more than the first. *)
ShiftOfLate(violations) == AtMost(IF violations < 3 THEN 0 ELSE violations - 2, maxShift)

ShiftOf(violations) == AtMost(IF violations < 1 THEN 0 ELSE violations - 1, maxShift)

(* Mutant: the penalty grows beyond maxPenalty. *)
PenaltyForUncapped(violations) == MinInterval * Shifted(ShiftOf(violations))

(* penaltyFor: minInterval doubled violations - 1 times, up to maxPenalty. *)
penaltyFor(violations) == AtMost(MinInterval * Shifted(ShiftOf(violations)), MaxPenalty)

(* Mutant: only the cooldown is looked at, not the interval. *)
TooSoonPenaltyOnly(e) == now < e.penaltyUntil

TooSoon(e) == now < e.penaltyUntil \/ now - e.lastRequest < MinInterval

Known(u) == u \in DOMAIN entries

Store(u, e) == entries' = [v \in DOMAIN entries \cup {u} |->
                              IF v = u THEN e ELSE entries[v]]

(* Mutant: the new cooldown starts when the old one is over, and the client  *)
(* is told of the new one only.                                              *)
RefuseExtending(u) ==
    /\ Known(u) /\ TooSoon(entries[u])
    /\ entries[u].violations < MaxViolations
    /\ LET violations == entries[u].violations + 1
           penalty == penaltyFor(violations)
       IN  /\ Store(u, [lastRequest |-> now,
                        penaltyUntil |-> entries[u].penaltyUntil + penalty,
                        violations |-> violations])
           /\ told' = [told EXCEPT ![u] = now + penalty]
    /\ UNCHANGED <<now, granted>>

(* Allow returns false, and for how long to wait. *)
Refuse(u) ==
    /\ Known(u) /\ TooSoon(entries[u])
    /\ entries[u].violations < MaxViolations
    /\ LET violations == entries[u].violations + 1
           until == now + penaltyFor(violations)
       IN  /\ Store(u, [lastRequest |-> now, penaltyUntil |-> until,
                        violations |-> violations])
           /\ told' = [told EXCEPT ![u] = until]
    /\ UNCHANGED <<now, granted>>

Forgiven(violations) == IF violations > 0 THEN violations - 1 ELSE 0

(* Allow returns true. *)
Grant(u) ==
    /\ Known(u) => ~TooSoon(entries[u])
    /\ Store(u, IF Known(u)
                THEN [entries[u] EXCEPT
                        !.lastRequest = now,
                        !.violations = Forgiven(entries[u].violations)]
                ELSE [lastRequest |-> now, penaltyUntil |-> 0, violations |-> 0])
    /\ granted' = [granted EXCEPT ![u] = now]
    /\ UNCHANGED <<now, told>>

(* Mutant: idleness alone evicts, whatever the cooldown. *)
IdleOnly(e) == now - e.lastRequest > IdleTimeout

Idle(e) == now > e.penaltyUntil /\ now - e.lastRequest > IdleTimeout

(* One sweep of cleanupLoop, under the mutex; the ticker may fire any time. *)
Cleanup ==
    /\ entries' = [u \in {v \in DOMAIN entries : ~Idle(entries[v])} |-> entries[u]]
    /\ UNCHANGED <<now, granted, told>>

Tick == /\ now < MaxTime
        /\ now' = now + 1
        /\ UNCHANGED <<entries, granted, told>>

Next == \/ \E u \in User : Refuse(u) \/ Grant(u)
        \/ Cleanup
        \/ Tick

Spec == Init /\ [][Next]_vars

--------------------------------------------------------------------------------
(* Properties. *)

TypeOK ==
    /\ now \in Time
    /\ DOMAIN entries \subseteq User
    /\ \A u \in DOMAIN entries : entries[u] \in Entry
    /\ granted \in [User -> Time \cup {Never}]
    /\ told \in [User -> 0 .. (MaxTime + MaxPenalty)]

(* Two requests granted to one user are at least minInterval apart, also if  *)
(* the cleanup evicted the user's entry in between (velocity.go:10-19).      *)
GrantsAreSpaced ==
    [][\A u \in User :
         (Grant(u) /\ granted[u] # Never) => now - granted[u] >= MinInterval]_vars

(* Nothing is granted to a user before the wait announced with the last      *)
(* refusal is over; evicting the entry does not shorten it.                  *)
CooldownIsKept == [][\A u \in User : Grant(u) => now >= told[u]]_vars

(* Who waits as told is served: a refused request came before the announced  *)
(* time, or within minInterval of a granted one.                             *)
RefusalIsDeserved ==
    [][\A u \in User : Refuse(u) =>
         \/ now < told[u]
         \/ granted[u] # Never /\ now - granted[u] < MinInterval]_vars

(* "Each further request made before the cooldown expires doubles it, up to  *)
(* maxPenalty" (velocity.go:12-14).                                          *)
EscalationDoubles ==
    [][\A u \in User : (Refuse(u) /\ now < told[u]) =>
         told'[u] - now = AtMost(2 * (told[u] - entries[u].lastRequest), MaxPenalty)]_vars

================================================================================
