------------------------------ MODULE SignInPage ------------------------------
(****************************************************************************)
(* Signing in (auth/handler.go and store.go; AgentAuth.tsx, AuthComplete.tsx, *)
(* Home.tsx): tabs of one browser, opened by the user or by the agent, go to  *)
(* the provider and come back.  They share the cookies; each has its own      *)
(* sessionStorage, which remembers that it was the agent that asked.          *)
(****************************************************************************)
EXTENDS WebClient

CONSTANT Tab        \* tabs of one browser

ASSUME SignInAssumption == None \notin {"agent", "site"}

VARIABLES
    uTabs,          \* each tab: the page it is at, the page to go on to (auth_next),
                    \* the state it took to the provider, the one it asks a session
                    \* for; history: who asked to sign in, where it landed, whether
                    \* a sign-in of the agent ended without landing
    uCookie,        \* the cookie auth_state: a state or None
    uStates,        \* the server's store: "unused", "begun", "known" or "gone"
    uSession,       \* the browser has a session cookie
    uSuspended      \* the player is suspended

uVars == <<uTabs, uCookie, uStates, uSession, uSuspended>>

SignInInit ==
    /\ uTabs = [t \in Tab |-> [at |-> "new", next |-> None, state |-> None, sent |-> None,
                               asked |-> None, landed |-> None, left |-> FALSE]]
    /\ uCookie = None
    /\ uStates = [n \in 1..MaxClicks |-> "unused"]
    /\ uSession = FALSE
    /\ uSuspended = FALSE

--------------------------------------------------------------------------------
(* The pages of the site, and those the agent and the provider lead to.      *)

(* What the site shows of getCurrentPlayer when it is loaded. *)
FrontPage == CASE ~uSession -> "guest" [] uSession /\ uSuspended -> "suspended"
               [] OTHER -> "player"

MoveTab(t, tab) == uTabs' = [uTabs EXCEPT ![t] = tab]

(* A tab whose sign-in comes to nothing. *)
GivenUp(t, at) == [uTabs[t] EXCEPT !.at = at, !.left = @ \/ uTabs[t].asked = "agent"]

OpenSite(t) ==
    /\ uTabs[t].at = "new"
    /\ MoveTab(t, [uTabs[t] EXCEPT !.at = FrontPage])
    /\ UNCHANGED <<uCookie, uStates, uSession, uSuspended, budget>>

(* StartLoginFlow of the agent. *)
OpenAgent(t) ==
    /\ uTabs[t].at = "new"
    /\ MoveTab(t, [uTabs[t] EXCEPT !.at = "agent"])
    /\ UNCHANGED <<uCookie, uStates, uSession, uSuspended, budget>>

(* The tab is focused, or its address opened again. *)
Refocus(t) ==
    /\ uTabs[t].at \in {"guest", "player", "suspended", "failed", "connected"}
    /\ MoveTab(t, [uTabs[t] EXCEPT !.at = FrontPage])
    /\ UNCHANGED <<uCookie, uStates, uSession, uSuspended, budget>>

(* initAuth: a state of its own, in the store and in the cookie. *)
InitAuth(t, tab) ==
    /\ Click
    /\ MoveTab(t, [tab EXCEPT !.at = "provider", !.state = clicks + 1, !.landed = None])
    /\ uCookie' = clicks + 1
    /\ uStates' = [uStates EXCEPT ![clicks + 1] = "begun"]
    /\ UNCHANGED <<uSession, uSuspended>>

(* signIn, from a button of the site. *)
SignIn(t) ==
    /\ uTabs[t].at = "guest"
    /\ InitAuth(t, [uTabs[t] EXCEPT !.asked = "site"])

(* Mutant: nobody remembers that the agent asked. *)
AgentForgotten(t) ==
    /\ uTabs[t].at = "agent" /\ ~uSession
    /\ InitAuth(t, [uTabs[t] EXCEPT !.asked = "agent"])

(* getAgentToken without a session. *)
AgentRefused(t) ==
    /\ uTabs[t].at = "agent" /\ ~uSession
    /\ InitAuth(t, [uTabs[t] EXCEPT !.asked = "agent", !.next = "agent"])

TokenGranted(t) ==
    /\ uTabs[t].at = "agent" /\ uSession
    /\ MoveTab(t, [uTabs[t] EXCEPT !.at = "connected"])
    /\ UNCHANGED <<uCookie, uStates, uSession, uSuspended, budget>>

TokenFails(t) ==
    /\ uTabs[t].at = "agent" /\ Fault
    /\ MoveTab(t, [uTabs[t] EXCEPT !.at = "failed"])
    /\ UNCHANGED <<uCookie, uStates, uSession, uSuspended>>

(* The user goes back to the page that asked, or to the site. *)
GoBack(t) ==
    /\ uTabs[t].at = "provider"
    /\ \/ MoveTab(t, GivenUp(t, FrontPage))
       \/ uTabs[t].asked = "agent" /\ MoveTab(t, GivenUp(t, "agent"))
    /\ UNCHANGED <<uCookie, uStates, uSession, uSuspended, budget>>

--------------------------------------------------------------------------------
(* callback.                                                                 *)

Denied(t) ==
    /\ uTabs[t].at = "provider"
    /\ MoveTab(t, GivenUp(t, FrontPage))
    /\ UNCHANGED <<uCookie, uStates, uSession, uSuspended, budget>>

(* The cookie is the one of the tab that left for the provider last. *)
Valid(t) == uCookie = uTabs[t].state /\ uStates[uTabs[t].state] # "gone"

Approved(t) ==
    /\ uTabs[t].at = "provider" /\ Valid(t)
    /\ MoveTab(t, [uTabs[t] EXCEPT !.at = "complete"])
    /\ uStates' = [uStates EXCEPT ![uTabs[t].state] = "known"]
    /\ UNCHANGED <<uCookie, uSession, uSuspended, budget>>

(* State mismatch, unknown or expired; or the provider fails us. *)
CallbackFails(t) ==
    /\ uTabs[t].at = "provider"
    /\ \/ ~Valid(t) /\ UNCHANGED budget
       \/ Fault
    /\ MoveTab(t, GivenUp(t, "failed"))
    /\ UNCHANGED <<uCookie, uStates, uSession, uSuspended>>

--------------------------------------------------------------------------------
(* AuthComplete and session.                                                 *)

(* completeSignIn: the request takes the cookie of this moment. *)
AskSession(t) ==
    /\ uTabs[t].at = "complete"
    /\ MoveTab(t, [uTabs[t] EXCEPT !.at = "asking", !.sent = uCookie])
    /\ UNCHANGED <<uCookie, uStates, uSession, uSuspended, budget>>

Known(n) == n # None /\ uStates[n] = "known"

(* The handler has found the state, and has not removed it yet. *)
SessionFound(t) ==
    /\ uTabs[t].at = "asking" /\ Known(uTabs[t].sent) /\ ~uSuspended
    /\ MoveTab(t, [uTabs[t] EXCEPT !.at = "found"])
    /\ UNCHANGED <<uCookie, uStates, uSession, uSuspended, budget>>

SessionIssued(t) ==
    /\ uTabs[t].at = "found"
    /\ MoveTab(t, [uTabs[t] EXCEPT !.at = "issued"])
    /\ uStates' = [uStates EXCEPT ![uTabs[t].sent] = "gone"]
    /\ UNCHANGED <<uCookie, uSession, uSuspended, budget>>

(* No such state, suspended, a failure, or an answer that is lost: the front   *)
(* page, with an error.                                                      *)
SessionRefused(t) ==
    /\ \/ /\ uTabs[t].at = "asking" /\ UNCHANGED budget
          /\ ~Known(uTabs[t].sent) \/ uSuspended
       \/ uTabs[t].at \in {"asking", "found", "issued"} /\ Fault
    /\ MoveTab(t, GivenUp(t, FrontPage))
    /\ UNCHANGED <<uCookie, uStates, uSession, uSuspended>>

(* The answer sets one cookie and clears the other, whatever is in it by now;  *)
(* the page goes on to auth_next or to the front page.                       *)
Landed(t) ==
    /\ uTabs[t].at = "issued"
    /\ uSession' = TRUE
    /\ uCookie' = None
    /\ LET toAgent == uTabs[t].next = "agent"
       IN  MoveTab(t, [uTabs[t] EXCEPT !.next = None,
                         !.at = CASE toAgent -> "agent"
                                  [] ~toAgent /\ uSuspended -> "suspended"
                                  [] OTHER -> "player",
                         !.landed = IF toAgent THEN "agent" ELSE "site"])
    /\ UNCHANGED <<uStates, uSuspended, budget>>

--------------------------------------------------------------------------------
(* What happens meanwhile.                                                   *)

(* Ten minutes, for the entry and for its cookie. *)
StateExpires(n) ==
    /\ uStates[n] \in {"begun", "known"}
    /\ uStates' = [uStates EXCEPT ![n] = "gone"]
    /\ uCookie' = IF uCookie = n THEN None ELSE uCookie
    /\ UNCHANGED <<uTabs, uSession, uSuspended, budget>>

(* signOut, or a session that expires. *)
SessionEnds ==
    /\ uSession /\ Click
    /\ uSession' = FALSE
    /\ UNCHANGED <<uTabs, uCookie, uStates, uSuspended>>

SuspendPlayer ==
    /\ ~uSuspended /\ Click
    /\ uSuspended' = TRUE
    /\ UNCHANGED <<uTabs, uCookie, uStates, uSession>>

SignInNext ==
    \/ \E t \in Tab : \/ OpenSite(t) \/ OpenAgent(t) \/ Refocus(t)
                      \/ SignIn(t) \/ AgentRefused(t) \/ TokenGranted(t) \/ TokenFails(t)
                      \/ GoBack(t) \/ Denied(t) \/ Approved(t) \/ CallbackFails(t)
                      \/ AskSession(t) \/ SessionFound(t) \/ SessionIssued(t)
                      \/ SessionRefused(t) \/ Landed(t)
    \/ \E n \in 1..MaxClicks : StateExpires(n)
    \/ SessionEnds \/ SuspendPlayer

--------------------------------------------------------------------------------
(* A tab that has signed in goes on to what asked for it, the agent or the    *)
(* site, whatever its other sign-ins and those of other tabs did to the       *)
(* cookies they share; unless an earlier one of the agent's in that tab ended *)
(* without landing, whose auth_next is still there (AuthComplete.tsx).       *)
SignInReturns ==
    \A t \in Tab : (uTabs[t].landed # None /\ ~uTabs[t].left) =>
        uTabs[t].landed = uTabs[t].asked
================================================================================
