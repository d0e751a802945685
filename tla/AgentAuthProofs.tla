--------------------------- MODULE AgentAuthProofs ---------------------------
(* Proofs of the safety properties of AgentAuth, for all durations, waits and *)
(* bounds.                                                                   *)
EXTENDS AgentAuth, TLAPS

USE AuthAssumption DEF Token, Thread, StartupEnded, Checking, Awake, session, announced, workers,
                      counters, history

--------------------------------------------------------------------------------
(* Who is at work when: the start-up check is over before the refresh loop    *)
(* first asks, and nothing lives in memory while the program does not run.    *)
Turns ==
    /\ startup.at # "ended" => running
    /\ startup.at # "ended" \/ ~running => refresh.due = Interval /\ refresh.request = None
    /\ startup.at = "asked" => startup.token # None
    /\ refresh.request # None => running /\ refresh.due = 0
    /\ ~running => ~isAuth /\ client = None

Young(token) == token = None \/ token.age = 0

(* The client's token, while a request lasts, is the one it was sent with or  *)
(* newer; and the older it is, the sooner the refresh loop wakes.             *)
Fresh ==
    /\ \A token \in {store, client, startup.token} : token # None => token.age <= Session + 1
    /\ startup.at = "begin" /\ isAuth => Young(store)
    /\ startup.at = "asked" =>
         (client = startup.token \/ Young(client)) /\ (isAuth => Young(client))
    /\ refresh.request # None => client = refresh.request.token \/ Young(client)
    /\ isAuth /\ client # None => client.age + refresh.due <= RenewAge + Interval + lost

(* CredentialsAgree between any two steps: at the start the client has no     *)
(* token yet, and none is signed in while the stored one is checked.          *)
Agree ==
    ~overtaken =>
        /\ store # None => store.login = logins
        /\ running /\ startup.at # "begin" => store = client
        /\ running /\ startup.at # "asked" => (isAuth <=> client # None)
        /\ startup.at = "begin" /\ isAuth => store = client
        /\ startup.at = "asked" => IF isAuth THEN client # None
                                             ELSE client \in {None, startup.token}

(* Whoever is signed out has no loop, or the announcement is on its way, or *)
(* a stop came before it: then no loop ever runs again.                       *)
Loops ==
    /\ changed["startup"] # FALSE /\ changed["pipe"] # FALSE
    /\ changed["refresh"] # TRUE /\ changed["drain"] # TRUE
    /\ ~isAuth /\ ~cancelled =>
         \/ loops = 0 /\ \A th \in Thread : changed[th] = None
         \/ \E th \in Thread : changed[th] = FALSE

(* Unless announcements crossed, the timer runs as IsAuthenticated says, or    *)
(* the one announcement under way will see to it.                            *)
Told ==
    ~crossed =>
        /\ (\A th \in Thread : changed[th] = None) => timer = isAuth
        /\ \A th \in Thread : changed[th] # None =>
              /\ changed[th] = isAuth
              /\ \A other \in Thread \ {th} : changed[other] = None

--------------------------------------------------------------------------------
(* A wait after a failed check is no longer than the interval (RefreshBackoff). *)
LEMMA WaitIsShort ==
    ASSUME NEW failures \in Nat
    PROVE  Wait(failures) \in 0..Interval
BY DEF AuthAssumption, Wait

(* The API renews a token for the same sign-in, as of today (heartbeat). *)
LEMMA RenewedToken ==
    ASSUME NEW token \in Token
    PROVE  /\ Renewed(token) \in Token /\ Renewed(token) # None
           /\ Renewed(token).login = token.login /\ Renewed(token).age = 0
BY DEF Renewed, AuthAssumption

(* A day later a token is still a token. *)
LEMMA AgedIsToken ==
    ASSUME NEW token \in Token \cup {None}
    PROVE  Aged(token) \in Token \cup {None}
BY DEF Aged, Older, AuthAssumption

(* A day makes a token a day older, up to the day after its last. *)
LEMMA AgedToken ==
    ASSUME NEW token \in Token \cup {None}
    PROVE  /\ Aged(token) = None <=> token = None
           /\ token # None => /\ Aged(token).login = token.login
                              /\ Aged(token).age <= token.age + 1
                              /\ token.age <= Session + 1 => Aged(token).age <= Session + 1
<1>1. CASE token = None
  BY <1>1 DEF Aged
<1>2. CASE token \in Token
  <2>1. Older(token) \in Token /\ Older(token) # None
    <3>1. CASE token.age > Session
      BY <1>2, <3>1 DEF Older, AuthAssumption
    <3>2. CASE ~(token.age > Session)
      BY <1>2, <3>2 DEF Older, AuthAssumption
    <3>. QED BY <3>1, <3>2
  <2>. QED BY <1>2, <2>1 DEF Aged, Older, AuthAssumption
<1>. QED BY <1>1, <1>2

(* What SetAuthenticated assigns has its type. *)
LEMMA AnnouncedTypes ==
    ASSUME TypeOK, NEW th \in Thread, NEW value \in BOOLEAN, SetAuthenticated(th, value)
    PROVE  /\ isAuth' \in BOOLEAN /\ crossed' \in BOOLEAN
           /\ changed' \in [Thread -> BOOLEAN \cup {None}]
<1>1. isAuth' \in BOOLEAN
  BY Zenon DEF SetAuthenticated
<1>2. crossed' \in BOOLEAN
  BY Zenon DEF SetAuthenticated, Cross
<1>3. changed' = [changed EXCEPT ![th] = value] /\ changed \in [Thread -> BOOLEAN \cup {None}]
  BY DEF SetAuthenticated, TypeOK
<1>. QED BY <1>1, <1>2, <1>3

--------------------------------------------------------------------------------
(* Every step keeps the types. *)
LEMMA TypesKept ==
    ASSUME TypeOK, [Next]_vars
    PROVE  TypeOK'
<1> USE DEF TypeOK, Requests
<1>i. Interval \in Nat /\ Interval \in 0..Interval
  BY DEF AuthAssumption
<1>1. CASE Start
  BY <1>1 DEF Start
<1>2. CASE NoToken
  BY <1>2 DEF NoToken
<1>3. CASE CheckToken
  BY <1>3 DEF CheckToken
<1>4. CASE StartupRenewed
  <2>1. SetAuthenticated("startup", TRUE)
    BY <1>4 DEF StartupRenewed
  <2>. QED BY <1>4, <2>1, AnnouncedTypes DEF StartupRenewed, Renewed, Renews, Accepts, Save, AppliedAtStart
<1>5. CASE StartupValid
  <2>1. SetAuthenticated("startup", TRUE)
    BY <1>5 DEF StartupValid
  <2>. QED BY <1>5, <2>1, AnnouncedTypes DEF StartupValid, AppliedAtStart
<1>6. CASE StartupServerError
  <2>1. SetAuthenticated("startup", TRUE)
    BY <1>6 DEF StartupServerError
  <2>2. revoked' \in Nat /\ logins' \in Nat /\ faults' \in Nat /\ stops' \in Nat
    BY <1>6 DEF StartupServerError, Fault
  <2>3. overtaken' \in BOOLEAN
    BY <1>6, Zenon DEF StartupServerError, AppliedAtStart
  <2>4. /\ startup' = [at |-> "ended", token |-> None] /\ lost' \in Nat
        /\ UNCHANGED <<running, store, client, refresh, drain, tray, loops, cancelled, timer>>
    BY <1>6 DEF StartupServerError, AuthAssumption
  <2>. QED BY <2>1, <2>2, <2>3, <2>4, AnnouncedTypes
<1>7. CASE StartupRejected
  BY <1>7 DEF StartupRejected, Rejects, Fault, Forget, AppliedAtStart
<1>8. CASE RefreshSkipped
  BY <1>8, <1>i DEF RefreshSkipped
<1>9. CASE RefreshAsks
  BY <1>9 DEF RefreshAsks, Request
<1>10. CASE RefreshRenewed
  BY <1>10, <1>i DEF RefreshRenewed, Renewed, Renews, Accepts, Save, Applied, WakesIn
<1>11. CASE RefreshValid
  BY <1>11, <1>i DEF RefreshValid, WakesIn
<1>12. CASE RefreshServerError
  BY <1>12, <1>i DEF RefreshServerError, Fault, WakesIn
<1>13. CASE RefreshRejected
  <2>1. SetAuthenticated("refresh", FALSE)
    BY <1>13 DEF RefreshRejected
  <2>2. revoked' \in Nat /\ logins' \in Nat /\ faults' \in Nat /\ stops' \in Nat
    BY <1>13 DEF RefreshRejected, Rejects, Fault
  <2>3. overtaken' \in BOOLEAN
    BY <1>13, Zenon DEF RefreshRejected, Applied
  <2>. QED BY <1>13, <1>i, <2>1, <2>2, <2>3, AnnouncedTypes DEF RefreshRejected, Forget, WakesIn
<1>14. CASE RefreshFails
  <2>1. Wait(refresh.failures) \in 0..Interval
    BY WaitIsShort, AuthAssumption
  <2>. QED BY <1>14, <2>1, AuthAssumption DEF RefreshFails, WakesIn, Fault, AuthAssumption
<1>15. CASE OnYurnikUrl
  <2>1. [login |-> logins + 1, age |-> 0] \in Token
    OBVIOUS
  <2>2. SetAuthenticated("pipe", TRUE)
    BY <1>15 DEF OnYurnikUrl
  <2>. QED BY <1>15, <2>1, <2>2, AnnouncedTypes DEF OnYurnikUrl, Save
<1>16. CASE DrainPosts
  BY <1>16 DEF DrainPosts, Request
<1>17. CASE DrainAnswered
  BY <1>17 DEF DrainAnswered
<1>18. CASE DrainRejected
  <2>1. SetAuthenticated("drain", FALSE)
    BY <1>18 DEF DrainRejected
  <2>2. revoked' \in Nat /\ logins' \in Nat /\ faults' \in Nat /\ stops' \in Nat
    BY <1>18 DEF DrainRejected, Rejects, Fault
  <2>3. overtaken' \in BOOLEAN
    BY <1>18, Zenon DEF DrainRejected, Applied
  <2>. QED BY <1>18, <2>1, <2>2, <2>3, AnnouncedTypes DEF DrainRejected, Forget
<1>19. CASE SignOut
  <2>1. /\ isAuth' \in BOOLEAN /\ tray' \in BOOLEAN /\ overtaken' \in BOOLEAN
        /\ cancelled' \in BOOLEAN /\ timer' \in BOOLEAN /\ timer' = tray'
    BY <1>19, Zenon DEF SignOut, StopWorkers
  <2>2. crossed' \in BOOLEAN
    BY <1>19, Zenon DEF SignOut, Cross
  <2>. QED BY <1>19, <2>1, <2>2 DEF SignOut, Forget, StopWorkers
<1>20. CASE Quit
  <2>1. /\ running' \in BOOLEAN /\ isAuth' \in BOOLEAN /\ tray' \in BOOLEAN
        /\ cancelled' \in BOOLEAN /\ timer' \in BOOLEAN /\ timer' = tray'
        /\ crossed' \in BOOLEAN
    BY <1>20, Zenon DEF Quit
  <2>. QED BY <1>20, <1>i, <2>1 DEF Quit
<1>21. CASE AccountDeleted
  BY <1>21 DEF AccountDeleted
<1>22. CASE NextDay
  <2>1. store' \in Token \cup {None} /\ client' \in Token \cup {None}
    BY <1>22, AgedIsToken, AuthAssumption DEF NextDay, AuthAssumption
  <2>2. refresh' \in [due : 0..Interval, failures : Nat, request : Requests \cup {None}]
    <3>1. CASE running
      <4>1. refresh.due > 0 /\ refresh' = [refresh EXCEPT !.due = refresh.due - 1]
        BY <1>22, <3>1, Zenon DEF NextDay
      <4>2. refresh.due \in 0..Interval
        OBVIOUS
      <4>3. refresh.due - 1 \in 0..Interval
        BY <4>1, <4>2, <1>i
      <4>. QED BY <4>1, <4>3
    <3>2. CASE ~running
      BY <1>22, <3>2 DEF NextDay
    <3>. QED BY <3>1, <3>2
  <2>. QED BY <1>22, <2>1, <2>2 DEF NextDay
<1>23. CASE \E th \in Thread : OnAuthStateChanged(th)
  <2> SUFFICES ASSUME NEW th \in Thread, OnAuthStateChanged(th) PROVE TypeOK'
    BY <1>23
  <2>1. changed' \in [Thread -> BOOLEAN \cup {None}]
    BY DEF OnAuthStateChanged
  <2>2. tray' \in BOOLEAN
    BY DEF OnAuthStateChanged
  <2>3. /\ loops' \in Nat /\ cancelled' \in BOOLEAN /\ (cancelled' => loops' = 0)
        /\ timer' \in BOOLEAN /\ timer' = tray'
    <3>1. CASE changed[th] = TRUE
      <4>1. tray' = TRUE /\ StartWorkers
        BY <3>1 DEF OnAuthStateChanged
      <4>2. timer' = TRUE /\ cancelled' = cancelled
        BY <4>1 DEF StartWorkers
      <4>3. loops' \in Nat /\ (cancelled => loops' = 0)
        BY <4>1 DEF StartWorkers
      <4>. QED BY <4>1, <4>2, <4>3
    <3>2. CASE changed[th] = FALSE
      <4>1. tray' = FALSE /\ StopWorkers
        BY <3>2 DEF OnAuthStateChanged
      <4>. QED BY <4>1 DEF StopWorkers
    <3>. QED BY <3>1, <3>2 DEF OnAuthStateChanged
  <2>. QED BY <2>1, <2>2, <2>3 DEF OnAuthStateChanged
<1>24. CASE UNCHANGED vars
  BY <1>24 DEF vars
<1>. QED
  BY <1>1, <1>2, <1>3, <1>4, <1>5, <1>6, <1>7, <1>8, <1>9, <1>10, <1>11, <1>12,
     <1>13, <1>14, <1>15, <1>16, <1>17, <1>18, <1>19, <1>20, <1>21, <1>22, <1>23, <1>24
     DEF Next, InitialiseAsync, RefreshLoopAsync, DrainAsync

(* Every step keeps the turns of the start-up check and the refresh loop. *)
LEMMA TurnsKept ==
    ASSUME TypeOK, Turns, [Next]_vars
    PROVE  Turns'
<1> USE DEF TypeOK, Requests, Turns
<1>1. CASE Start
  BY <1>1 DEF Start
<1>2. CASE NoToken
  BY <1>2 DEF NoToken
<1>3. CASE CheckToken
  BY <1>3 DEF CheckToken
<1>4. CASE StartupRenewed
  BY <1>4 DEF StartupRenewed, Save, Renewed, SetAuthenticated, AppliedAtStart
<1>5. CASE StartupValid
  BY <1>5 DEF StartupValid, SetAuthenticated, AppliedAtStart
<1>6. CASE StartupServerError
  BY <1>6 DEF StartupServerError, SetAuthenticated, AppliedAtStart
<1>7. CASE StartupRejected
  BY <1>7 DEF StartupRejected, Forget, AppliedAtStart
<1>8. CASE RefreshSkipped
  BY <1>8 DEF RefreshSkipped
<1>9. CASE RefreshAsks
  BY <1>9 DEF RefreshAsks, Request
<1>10. CASE RefreshRenewed
  BY <1>10 DEF RefreshRenewed, Save, Renewed, WakesIn, Applied
<1>11. CASE RefreshValid
  BY <1>11 DEF RefreshValid, WakesIn
<1>12. CASE RefreshServerError
  BY <1>12 DEF RefreshServerError, WakesIn
<1>13. CASE RefreshRejected
  BY <1>13 DEF RefreshRejected, Forget, WakesIn, SetAuthenticated, Applied
<1>14. CASE RefreshFails
  BY <1>14 DEF RefreshFails, WakesIn
<1>15. CASE OnYurnikUrl
  BY <1>15 DEF OnYurnikUrl, Save, SetAuthenticated
<1>16. CASE DrainPosts
  BY <1>16 DEF DrainPosts
<1>17. CASE DrainAnswered
  BY <1>17 DEF DrainAnswered
<1>18. CASE DrainRejected
  BY <1>18 DEF DrainRejected, Forget, SetAuthenticated, Applied
<1>19. CASE SignOut
  BY <1>19 DEF SignOut, Forget, StopWorkers
<1>20. CASE Quit
  BY <1>20 DEF Quit
<1>21. CASE AccountDeleted
  BY <1>21 DEF AccountDeleted
<1>22. CASE NextDay
  BY <1>22 DEF NextDay, Quiet, Aged
<1>23. CASE \E th \in Thread : OnAuthStateChanged(th)
  BY <1>23 DEF OnAuthStateChanged
<1>24. CASE UNCHANGED vars
  BY <1>24 DEF vars
<1>. QED
  BY <1>1, <1>2, <1>3, <1>4, <1>5, <1>6, <1>7, <1>8, <1>9, <1>10, <1>11, <1>12,
     <1>13, <1>14, <1>15, <1>16, <1>17, <1>18, <1>19, <1>20, <1>21, <1>22, <1>23, <1>24
     DEF Next, InitialiseAsync, RefreshLoopAsync, DrainAsync

(* Every step keeps tokens as young as the refresh loop makes them. *)
LEMMA FreshKept ==
    ASSUME TypeOK, Turns, Fresh, [Next]_vars
    PROVE  Fresh'
<1> USE DEF TypeOK, Requests, Turns, Fresh, Young
<1>1. CASE Start
  BY <1>1 DEF Start
<1>2. CASE NoToken
  BY <1>2 DEF NoToken
<1>3. CASE CheckToken
  BY <1>3 DEF CheckToken
<1>4. CASE StartupRenewed
  <2>1. startup.token \in Token
    BY <1>4 DEF StartupRenewed, Renews, Accepts
  <2>. QED BY <1>4, <2>1, RenewedToken DEF StartupRenewed, Save, SetAuthenticated, AppliedAtStart
<1>5. CASE StartupValid
  BY <1>5 DEF StartupValid, Accepts, Renews, SetAuthenticated, AppliedAtStart
<1>6. CASE StartupServerError
  BY <1>6 DEF StartupServerError, Fault, SetAuthenticated, AppliedAtStart
<1>7. CASE StartupRejected
  BY <1>7 DEF StartupRejected, Forget, AppliedAtStart
<1>8. CASE RefreshSkipped
  BY <1>8 DEF RefreshSkipped
<1>9. CASE RefreshAsks
  BY <1>9 DEF RefreshAsks, Request
<1>10. CASE RefreshRenewed
  <2>1. refresh.request.token \in Token
    BY <1>10 DEF RefreshRenewed, Renews, Accepts
  <2>. QED BY <1>10, <2>1, RenewedToken DEF RefreshRenewed, Save, WakesIn, Applied
<1>11. CASE RefreshValid
  BY <1>11 DEF RefreshValid, WakesIn, Accepts, Renews
<1>12. CASE RefreshServerError
  <2>1. /\ refresh' = [due |-> Interval, failures |-> 0, request |-> None]
        /\ lost' = lost + Interval /\ refresh.due = 0
        /\ UNCHANGED <<store, client, isAuth, startup>>
    BY <1>12 DEF RefreshServerError, WakesIn
  <2>. QED BY <2>1
<1>13. CASE RefreshRejected
  BY <1>13 DEF RefreshRejected, Forget, WakesIn, SetAuthenticated, Applied
<1>14. CASE RefreshFails
  <2>1. Wait(refresh.failures) \in 0..Interval
    BY WaitIsShort
  <2>. QED BY <1>14, <2>1 DEF RefreshFails, WakesIn, AuthAssumption
<1>15. CASE OnYurnikUrl
  BY <1>15 DEF OnYurnikUrl, Save, SetAuthenticated
<1>16. CASE DrainPosts
  BY <1>16 DEF DrainPosts
<1>17. CASE DrainAnswered
  BY <1>17 DEF DrainAnswered
<1>18. CASE DrainRejected
  BY <1>18 DEF DrainRejected, Forget, SetAuthenticated, Applied
<1>19. CASE SignOut
  BY <1>19 DEF SignOut, Forget, StopWorkers
<1>20. CASE Quit
  BY <1>20 DEF Quit
<1>21. CASE AccountDeleted
  BY <1>21 DEF AccountDeleted
<1>22. CASE NextDay
  <2>1. CASE running
    <3>1. refresh.due > 0 /\ refresh' = [refresh EXCEPT !.due = refresh.due - 1]
      BY <1>22, <2>1, Zenon DEF NextDay
    <3>2. refresh'.due = refresh.due - 1 /\ refresh'.request = refresh.request
      BY <3>1
    <3>3. /\ client' # None => client # None /\ client'.age \in Nat /\ client'.age <= client.age + 1
          /\ isAuth' = isAuth /\ lost' = lost
      BY <1>22, AgedToken, AgedIsToken, AuthAssumption DEF NextDay, AuthAssumption
    <3>4. isAuth' /\ client' # None => client'.age + refresh'.due <= RenewAge + Interval + lost'
      BY <3>2, <3>3 DEF AuthAssumption
    <3>. QED BY <1>22, <3>2, <3>4, AgedToken DEF NextDay, Quiet
  <2>2. CASE ~running
    BY <1>22, <2>2, AgedToken DEF NextDay, Quiet
  <2>. QED BY <2>1, <2>2
<1>23. CASE \E th \in Thread : OnAuthStateChanged(th)
  BY <1>23 DEF OnAuthStateChanged
<1>24. CASE UNCHANGED vars
  BY <1>24 DEF vars
<1>. QED
  BY <1>1, <1>2, <1>3, <1>4, <1>5, <1>6, <1>7, <1>8, <1>9, <1>10, <1>11, <1>12,
     <1>13, <1>14, <1>15, <1>16, <1>17, <1>18, <1>19, <1>20, <1>21, <1>22, <1>23, <1>24
     DEF Next, InitialiseAsync, RefreshLoopAsync, DrainAsync

(* Every step keeps store, client and IsAuthenticated together. *)
LEMMA AgreeKept ==
    ASSUME TypeOK, Turns, Agree, [Next]_vars
    PROVE  Agree'
<1> USE DEF TypeOK, Requests, Turns, Agree
<1>1. CASE Start
  BY <1>1 DEF Start
<1>2. CASE NoToken
  BY <1>2 DEF NoToken
<1>3. CASE CheckToken
  BY <1>3 DEF CheckToken
<1>4. CASE StartupRenewed
  <2>1. startup.token \in Token
    BY <1>4 DEF StartupRenewed, Renews, Accepts
  <2>. QED BY <1>4, <2>1, RenewedToken DEF StartupRenewed, Save, SetAuthenticated, AppliedAtStart
<1>5. CASE StartupValid
  BY <1>5 DEF StartupValid, Accepts, Renews, SetAuthenticated, AppliedAtStart
<1>6. CASE StartupServerError
  BY <1>6 DEF StartupServerError, Fault, SetAuthenticated, AppliedAtStart
<1>7. CASE StartupRejected
  BY <1>7 DEF StartupRejected, Forget, AppliedAtStart
<1>8. CASE RefreshSkipped
  BY <1>8 DEF RefreshSkipped
<1>9. CASE RefreshAsks
  BY <1>9 DEF RefreshAsks, Request
<1>10. CASE RefreshRenewed
  <2>1. refresh.request.token \in Token
    BY <1>10 DEF RefreshRenewed, Renews, Accepts
  <2>. QED BY <1>10, <2>1, RenewedToken DEF RefreshRenewed, Save, WakesIn, Applied
<1>11. CASE RefreshValid
  BY <1>11 DEF RefreshValid, WakesIn, Accepts, Renews
<1>12. CASE RefreshServerError
  BY <1>12 DEF RefreshServerError, Fault, WakesIn
<1>13. CASE RefreshRejected
  BY <1>13 DEF RefreshRejected, Forget, WakesIn, SetAuthenticated, Applied
<1>14. CASE RefreshFails
  BY <1>14 DEF RefreshFails, Fault, WakesIn
<1>15. CASE OnYurnikUrl
  BY <1>15 DEF OnYurnikUrl, Save, SetAuthenticated
<1>16. CASE DrainPosts
  BY <1>16 DEF DrainPosts
<1>17. CASE DrainAnswered
  BY <1>17 DEF DrainAnswered
<1>18. CASE DrainRejected
  BY <1>18 DEF DrainRejected, Forget, SetAuthenticated, Applied
<1>19. CASE SignOut
  BY <1>19 DEF SignOut, Forget, StopWorkers
<1>20. CASE Quit
  BY <1>20 DEF Quit
<1>21. CASE AccountDeleted
  BY <1>21 DEF AccountDeleted
<1>22. CASE NextDay
  BY <1>22, AgedToken DEF NextDay, Quiet
<1>23. CASE \E th \in Thread : OnAuthStateChanged(th)
  BY <1>23 DEF OnAuthStateChanged
<1>24. CASE UNCHANGED vars
  BY <1>24 DEF vars
<1>. QED
  BY <1>1, <1>2, <1>3, <1>4, <1>5, <1>6, <1>7, <1>8, <1>9, <1>10, <1>11, <1>12,
     <1>13, <1>14, <1>15, <1>16, <1>17, <1>18, <1>19, <1>20, <1>21, <1>22, <1>23, <1>24
     DEF Next, InitialiseAsync, RefreshLoopAsync, DrainAsync

(* Every step leaves no loop for nobody, or a stop on its way. *)
LEMMA LoopsKept ==
    ASSUME TypeOK, Turns, Loops, [Next]_vars
    PROVE  Loops'
<1> USE DEF TypeOK, Turns, Loops
<1>1. CASE Start
  BY <1>1 DEF Start
<1>2. CASE NoToken
  BY <1>2 DEF NoToken
<1>3. CASE CheckToken
  BY <1>3 DEF CheckToken
<1>4. CASE StartupRenewed
  BY <1>4 DEF StartupRenewed, SetAuthenticated
<1>5. CASE StartupValid
  BY <1>5 DEF StartupValid, SetAuthenticated
<1>6. CASE StartupServerError
  BY <1>6 DEF StartupServerError, SetAuthenticated
<1>7. CASE StartupRejected
  BY <1>7 DEF StartupRejected
<1>8. CASE RefreshSkipped
  BY <1>8 DEF RefreshSkipped
<1>9. CASE RefreshAsks
  BY <1>9 DEF RefreshAsks, Request
<1>10. CASE RefreshRenewed
  BY <1>10 DEF RefreshRenewed
<1>11. CASE RefreshValid
  BY <1>11 DEF RefreshValid
<1>12. CASE RefreshServerError
  BY <1>12 DEF RefreshServerError
<1>13. CASE RefreshRejected
  BY <1>13 DEF RefreshRejected, SetAuthenticated
<1>14. CASE RefreshFails
  BY <1>14 DEF RefreshFails
<1>15. CASE OnYurnikUrl
  BY <1>15 DEF OnYurnikUrl, SetAuthenticated
<1>16. CASE DrainPosts
  BY <1>16 DEF DrainPosts
<1>17. CASE DrainAnswered
  BY <1>17 DEF DrainAnswered
<1>18. CASE DrainRejected
  BY <1>18 DEF DrainRejected, SetAuthenticated
<1>19. CASE SignOut
  BY <1>19 DEF SignOut, StopWorkers
<1>20. CASE Quit
  BY <1>20 DEF Quit
<1>21. CASE AccountDeleted
  BY <1>21 DEF AccountDeleted
<1>22. CASE NextDay
  BY <1>22 DEF NextDay, Quiet, Aged
<1>23. CASE \E th \in Thread : OnAuthStateChanged(th)
  <2> SUFFICES ASSUME NEW th \in Thread, OnAuthStateChanged(th) PROVE Loops'
    BY <1>23
  <2>1. CASE changed[th]
    BY <2>1 DEF OnAuthStateChanged, StartWorkers
  <2>2. CASE ~changed[th]
    BY <2>2 DEF OnAuthStateChanged, StopWorkers
  <2>. QED BY <2>1, <2>2
<1>24. CASE UNCHANGED vars
  BY <1>24 DEF vars
<1>. QED
  BY <1>1, <1>2, <1>3, <1>4, <1>5, <1>6, <1>7, <1>8, <1>9, <1>10, <1>11, <1>12,
     <1>13, <1>14, <1>15, <1>16, <1>17, <1>18, <1>19, <1>20, <1>21, <1>22, <1>23, <1>24
     DEF Next, InitialiseAsync, RefreshLoopAsync, DrainAsync

(* Every step leaves the timer as IsAuthenticated says, or an announcement on  *)
(* its way that will, unless it crosses another.                             *)
LEMMA ToldKept ==
    ASSUME TypeOK, Told, [Next]_vars
    PROVE  Told'
<1>1. ASSUME UNCHANGED <<isAuth, announced, timer>>
      PROVE  Told'
  BY <1>1 DEF Told
<1>2. ASSUME NEW th \in Thread, NEW value \in BOOLEAN, SetAuthenticated(th, value)
      PROVE  Told'
  <2>1. /\ isAuth' = value /\ changed' = [changed EXCEPT ![th] = value]
        /\ ~crossed' => \A other \in Thread : changed[other] = None
    BY <1>2 DEF SetAuthenticated, Cross
  <2>2. changed'[th] = value /\ \A other \in Thread \ {th} : changed'[other] = changed[other]
    BY <2>1 DEF TypeOK
  <2>3. value # None
    BY DEF AuthAssumption
  <2>. QED BY <2>1, <2>2, <2>3 DEF Told
<1>3. ASSUME NEW th \in Thread, OnAuthStateChanged(th)
      PROVE  Told'
  <2>1. changed' = [changed EXCEPT ![th] = None] /\ isAuth' = isAuth /\ crossed' = crossed
    BY <1>3 DEF OnAuthStateChanged
  <2>2. changed'[th] = None /\ \A other \in Thread \ {th} : changed'[other] = changed[other]
    BY <2>1 DEF TypeOK
  <2>3. timer' = changed[th]
    <3>1. CASE changed[th] = TRUE
      BY <1>3, <3>1 DEF OnAuthStateChanged, StartWorkers
    <3>2. CASE changed[th] = FALSE
      BY <1>3, <3>2 DEF OnAuthStateChanged, StopWorkers
    <3>. QED BY <1>3, <3>1, <3>2 DEF OnAuthStateChanged, TypeOK
  <2>4. changed[th] # None
    BY <1>3 DEF OnAuthStateChanged
  <2>. QED BY <2>1, <2>2, <2>3, <2>4 DEF Told
<1>4. CASE SignOut
  BY <1>4 DEF SignOut, StopWorkers, Cross, Told
<1>5. CASE Quit
  BY <1>5 DEF Quit, Told
<1>6. CASE \/ StartupRenewed \/ StartupValid \/ StartupServerError
           \/ OnYurnikUrl \/ RefreshRejected \/ DrainRejected
  BY <1>6, <1>2 DEF StartupRenewed, StartupValid, StartupServerError, OnYurnikUrl,
                    RefreshRejected, DrainRejected
<1>7. CASE \/ Start \/ NoToken \/ CheckToken \/ StartupRejected \/ RefreshSkipped
           \/ RefreshAsks \/ RefreshRenewed \/ RefreshValid \/ RefreshServerError
           \/ RefreshFails \/ DrainPosts \/ DrainAnswered \/ AccountDeleted \/ NextDay
           \/ UNCHANGED vars
  BY <1>7, <1>1 DEF Start, NoToken, CheckToken, StartupRejected, RefreshSkipped, RefreshAsks,
                    RefreshRenewed, RefreshValid, RefreshServerError, RefreshFails, DrainPosts,
                    DrainAnswered, AccountDeleted, NextDay, vars
<1>. QED
  BY <1>3, <1>4, <1>5, <1>6, <1>7 DEF Next, InitialiseAsync, RefreshLoopAsync, DrainAsync

--------------------------------------------------------------------------------
(* The agent's variables keep their types; no loop of the monitor, processor  *)
(* or watcher, whichever start it is of, outlives the stop; and the           *)
(* notification timer runs as the tray was last told (StartWorkers and        *)
(* StopWorkers in TrayApp.cs).                                               *)
THEOREM AuthTypes == Spec => []TypeOK
<1>1. Init => TypeOK
  <2> SUFFICES ASSUME Init PROVE TypeOK
    OBVIOUS
  <2>1. /\ running \in BOOLEAN /\ isAuth \in BOOLEAN /\ tray \in BOOLEAN
        /\ cancelled \in BOOLEAN /\ timer \in BOOLEAN /\ timer = tray
        /\ crossed \in BOOLEAN /\ overtaken \in BOOLEAN
    BY Zenon DEF Init
  <2>2. Interval \in Nat /\ Interval \in 0..Interval
    BY DEF AuthAssumption
  <2>. QED BY <2>1, <2>2 DEF Init, TypeOK
<1>2. TypeOK /\ [Next]_vars => TypeOK'
  BY TypesKept
<1>. QED BY <1>1, <1>2, PTL DEF Spec

(* The turns, as an invariant. *)
LEMMA TurnsHold == Spec => []Turns
<1>1. Init => Turns
  BY DEF Init, Turns
<1>2. TypeOK /\ Turns /\ [Next]_vars => Turns'
  BY TurnsKept
<1>. QED BY <1>1, <1>2, AuthTypes, PTL DEF Spec

(* Whatever the durations, a signed-in agent's token is never older than the  *)
(* age of renewal, the interval of the refresh loop and the delays by failed  *)
(* checks together (RefreshLoopAsync in AuthManager.cs).                      *)
THEOREM TokenStaysFresh == Spec => []TokenIsFresh
<1>1. Init => Fresh
  BY DEF Init, Fresh
<1>2. TypeOK /\ Turns /\ Fresh /\ [Next]_vars => Fresh'
  BY FreshKept
<1>3. TypeOK /\ Fresh => TokenIsFresh
  BY DEF TypeOK, Fresh, TokenIsFresh, AuthAssumption
<1>. QED BY <1>1, <1>2, <1>3, AuthTypes, TurnsHold, PTL DEF Spec

(* Store, HTTP client and IsAuthenticated agree whenever the agent is quiet,  *)
(* for any number of sign-ins, failures, sign-outs and restarts, unless an    *)
(* answer overtaken by a sign-in or sign-out was applied (AuthManager.cs).    *)
THEOREM CredentialsStayTogether == Spec => []CredentialsAgree
<1>1. Init => Agree
  BY DEF Init, Agree
<1>2. TypeOK /\ Turns /\ Agree /\ [Next]_vars => Agree'
  BY AgreeKept
<1>3. TypeOK /\ Agree => CredentialsAgree
  BY DEF TypeOK, Agree, CredentialsAgree, Quiet
<1>. QED BY <1>1, <1>2, <1>3, AuthTypes, TurnsHold, PTL DEF Spec

(* No loop is left running for nobody, in whatever order the announcements    *)
(* reach the tray; and the notification timer, which a start can set off      *)
(* again after a stop, runs exactly while somebody is signed in, unless        *)
(* announcements crossed (OnAuthStateChanged in TrayApp.cs).                  *)
THEOREM WorkersNeedSignIn == Spec => []LoopsNeedSignIn
<1>1. Init => Loops
  BY DEF Init, Loops, AuthAssumption
<1>2. TypeOK /\ Turns /\ Loops /\ [Next]_vars => Loops'
  BY LoopsKept
<1>3. Init => Told
  BY DEF Init, Told
<1>4. TypeOK /\ Told /\ [Next]_vars => Told'
  BY ToldKept
<1>5. TypeOK /\ Loops /\ Told => LoopsNeedSignIn
  <2> SUFFICES ASSUME TypeOK, Loops, Told, Quiet
               PROVE  (loops > 0 => isAuth) /\ (crossed \/ timer = isAuth)
    BY DEF LoopsNeedSignIn
  <2>1. ASSUME loops > 0, ~isAuth PROVE FALSE
    <3>1. ~cancelled /\ loops # 0
      BY <2>1 DEF TypeOK
    <3>2. \E th \in Thread : changed[th] = FALSE
      BY <2>1, <3>1, Zenon DEF Loops
    <3>. QED BY <3>2, Zenon DEF Quiet, AuthAssumption
  <2>2. crossed \/ timer = isAuth
    BY DEF Quiet, Told
  <2>. QED BY <2>1, <2>2
<1>. QED BY <1>1, <1>2, <1>3, <1>4, <1>5, AuthTypes, TurnsHold, PTL DEF Spec
================================================================================
