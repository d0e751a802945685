------------------------------- MODULE InboxPage -------------------------------
(****************************************************************************)
(* The journeys page (Journeys.tsx): the cards of the pending journeys, each *)
(* confirmed with a form, discarded, or excluded for good; a form to add a   *)
(* journey by hand; and the history both end in.  The agent records another  *)
(* pending journey while the page is open.  Filling in or leaving a form    *)
(* is free, other clicks count.                                              *)
(****************************************************************************)
EXTENDS WebClient

CONSTANT Card       \* pending journeys, numbers from 1; the first has a game and is
                    \* there from the start

ASSUME CardAssumption ==
    /\ Card \subseteq Nat \ {0} /\ 1 \in Card
    /\ \A S \in SUBSET Card : None # S

VARIABLES
    signed,         \* the player is signed in
    watched,        \* the query followed besides the cards': "count" or "history",
                    \* which nothing else on the page depends on
    iStore,         \* the server: pending journeys, how many are confirmed and added
    iQuery,         \* the queries: pending, count (of the side bar), history
    iCards,         \* each card's view and form
    iForm,          \* the form to add: None, or whether it is ready
    iForms,         \* forms opened so far
    iWrites,        \* mutations in flight
    iCooling,       \* cards, and 0 for the form, whose button waits for Retry-After
    iHint,          \* the hint on the agent is shown
    iPrompt,        \* the prompt to sign in is open
    iMissed         \* history: queries the server has not worked on since a change
                    \* that was not followed by their invalidation

iUi   == <<iCards, iForm, iForms, iCooling, iHint, iPrompt>>
iVars == <<signed, watched, iStore, iQuery, iUi, iWrites, iMissed>>

Collapsed == [at |-> "collapsed", ready |-> FALSE]

InboxInit ==
    /\ iStore = [pending |-> {1}, seen |-> {1}, confirmed |-> 0, added |-> 0]
    /\ iQuery = [name \in {"pending", watched} |->
                   IF name = "count" /\ ~signed THEN NotAsked ELSE NewQuery]
    /\ iCards = [c \in Card |-> Collapsed]
    /\ iForm = None
    /\ iForms = 0
    /\ iWrites = {}
    /\ iCooling = {}
    /\ iHint = TRUE
    /\ iPrompt = FALSE
    /\ iMissed = {}

--------------------------------------------------------------------------------
(* The queries: getPendingJourneys, getPendingJourneysCount, getUserJourneys. *)

InboxQueries == {"pending", watched}

InboxAnswer(name) ==
    CASE name = "pending" -> iStore.pending
      [] name = "count"   -> Cardinality(iStore.pending)
      [] name = "history" -> iStore.confirmed + iStore.added

SetInbox(name, q) == iQuery' = [iQuery EXCEPT ![name] = q]

(* By timer or on focus; the side bar counts for a player only, and polls     *)
(* once it has an answer.                                                    *)
InboxRefetch(name) ==
    /\ name = "count" => signed
    /\ SetInbox(name, Refetched(iQuery[name]))
    /\ UNCHANGED <<signed, watched, iStore, iUi, iWrites, iMissed, budget>>

InboxServe(name) ==
    /\ IsAsked(iQuery[name])
    /\ SetInbox(name, IF signed THEN Served(iQuery[name], InboxAnswer(name))
                      ELSE Lost(iQuery[name]))
    /\ iMissed' = iMissed \ {name}
    /\ UNCHANGED <<signed, watched, iStore, iUi, iWrites, budget>>

(* A card is keyed by its journey: one that stays keeps its form. *)
InboxArrive(name) ==
    /\ IsServed(iQuery[name])
    /\ SetInbox(name, Arrived(iQuery[name]))
    /\ iCards' = IF name # "pending" THEN iCards
                 ELSE [c \in Card |-> IF c \in iQuery.pending.answer THEN iCards[c]
                                      ELSE Collapsed]
    /\ UNCHANGED <<signed, watched, iStore, iForm, iForms, iCooling, iHint, iPrompt, iWrites,
                   iMissed, budget>>

InboxQueryFails(name) ==
    /\ InFlight(iQuery[name]) /\ Fault
    /\ SetInbox(name, Lost(iQuery[name]))
    /\ iMissed' = iMissed \cup {name}
    /\ UNCHANGED <<signed, watched, iStore, iUi, iWrites>>

(* The agent's session is over. *)
AgentRecords(c) ==
    /\ signed /\ c \notin iStore.seen /\ Click
    /\ iStore' = [iStore EXCEPT !.pending = @ \cup {c}, !.seen = @ \cup {c}]
    /\ UNCHANGED <<signed, watched, iQuery, iUi, iWrites, iMissed>>

--------------------------------------------------------------------------------
(* The cards.                                                                *)

CardShown(c) == iQuery.pending.data # None /\ c \in iQuery.pending.data

SetCard(c, card) ==
    /\ iCards' = [iCards EXCEPT ![c] = card]
    /\ UNCHANGED <<signed, watched, iStore, iQuery, iForm, iForms, iCooling, iHint, iPrompt, iWrites,
                   iMissed>>

(* openConfirm, with the game detected or looking for one: the form is ready  *)
(* when it has a game and a duration it can read, as the session's is.       *)
OpenConfirm(c, searchMode) ==
    /\ CardShown(c) /\ iCards[c].at = "collapsed" /\ Click
    /\ SetCard(c, [at |-> "confirming", ready |-> c = 1 /\ ~searchMode])

OpenExclude(c) ==
    /\ CardShown(c) /\ iCards[c].at = "collapsed" /\ Click
    /\ SetCard(c, [Collapsed EXCEPT !.at = "excluding"])

(* Cancel, of either. *)
CollapseCard(c) ==
    /\ CardShown(c) /\ iCards[c].at # "collapsed" /\ Click
    /\ SetCard(c, Collapsed)

(* A game is picked, the duration is spoiled or mended. *)
FillCard(c) ==
    /\ CardShown(c) /\ iCards[c].at = "confirming" /\ UNCHANGED budget
    /\ SetCard(c, [iCards[c] EXCEPT !.ready = ~@])

SendInbox(op, arg) ==
    /\ Click
    /\ iWrites' = iWrites \cup {Sent(op, arg)}
    /\ UNCHANGED <<signed, watched, iStore, iQuery, iUi, iMissed>>

(* Publish: the mutation is the card's, and outlives the form. *)
SubmitConfirm(c) ==
    /\ CardShown(c) /\ iCards[c].at = "confirming" /\ iCards[c].ready
    /\ ~\E w \in iWrites : w.op = "confirm" /\ w.arg = c
    /\ c \notin iCooling
    /\ SendInbox("confirm", c)

(* Discard, and the second button of the exclusion: neither waits. *)
Dismiss(c) ==
    /\ CardShown(c) /\ iCards[c].at = "collapsed"
    /\ SendInbox("dismiss", c)

Exclude(c) ==
    /\ CardShown(c) /\ iCards[c].at = "excluding"
    /\ SendInbox("exclude", c)

--------------------------------------------------------------------------------
(* The form to add a journey, the hint, the prompt.  One more form may be     *)
(* opened with every click, when the history is the query that is watched.   *)

AddButton ==
    /\ iForm = None /\ ~iPrompt
    /\ iForms < clicks /\ watched = "history" /\ UNCHANGED budget
    /\ IF signed
       THEN /\ iForm' = [ready |-> FALSE]
            /\ iForms' = iForms + 1
            /\ UNCHANGED iPrompt
       ELSE iPrompt' = TRUE /\ UNCHANGED <<iForm, iForms>>
    /\ UNCHANGED <<signed, watched, iStore, iQuery, iCards, iCooling, iHint, iWrites, iMissed>>

FillForm ==
    /\ iForm # None
    /\ iForm' = [ready |-> ~iForm.ready]
    /\ UNCHANGED <<signed, watched, iStore, iQuery, iCards, iForms, iCooling, iHint, iPrompt, iWrites,
                   iMissed, budget>>

CancelForm ==
    /\ iForm # None
    /\ iForm' = None
    /\ iCooling' = iCooling \ {0}
    /\ UNCHANGED <<signed, watched, iStore, iQuery, iCards, iForms, iHint, iPrompt, iWrites,
                   iMissed, budget>>

(* Mutant: the button does not wait. *)
SubmitTwice ==
    /\ iForm # None /\ iForm.ready
    /\ Click
    /\ iWrites' = iWrites \cup {Sent("add", iForms)}
    /\ UNCHANGED <<signed, watched, iStore, iQuery, iUi, iMissed>>

(* handleSubmit: the form waits for its own request, not for that of a form   *)
(* that was cancelled.                                                       *)
SubmitForm ==
    /\ iForm # None /\ iForm.ready
    /\ ~\E w \in iWrites : w.op = "add" /\ w.arg = iForms
    /\ 0 \notin iCooling
    /\ SendInbox("add", iForms)

DismissHint ==
    /\ iHint /\ Click /\ iHint' = FALSE
    /\ UNCHANGED <<signed, watched, iStore, iQuery, iCards, iForm, iForms, iCooling, iPrompt, iWrites,
                   iMissed>>

ClosePrompt ==
    /\ iPrompt /\ iPrompt' = FALSE
    /\ UNCHANGED <<signed, watched, iStore, iQuery, iCards, iForm, iForms, iCooling, iHint, iWrites,
                   iMissed, budget>>

--------------------------------------------------------------------------------
(* The mutations.  A card whose journey is gone is refused.                  *)

Refusable(w) == w.op # "add" /\ w.arg \notin iStore.pending

InboxWrite(w) ==
    /\ w.at = "sent" /\ ~Refusable(w)
    /\ iStore' = [iStore EXCEPT
                    !.pending = IF w.op = "add" THEN @ ELSE @ \ {w.arg},
                    !.confirmed = IF w.op = "confirm" THEN @ + 1 ELSE @,
                    !.added = IF w.op = "add" THEN @ + 1 ELSE @]
    /\ iWrites' = Replace(iWrites, w, Done(w))
    /\ UNCHANGED <<signed, watched, iQuery, iUi, iMissed, budget>>

(* What onSuccess invalidates, and what the onError of a confirmation does. *)
Invalidates(op) ==
    CASE op = "add"     -> {"history"} \cap InboxQueries
      [] op = "confirm" -> InboxQueries
      [] OTHER          -> {"pending", "count"} \cap InboxQueries

InvalidateInbox(names) ==
    /\ iQuery' = [n \in InboxQueries |-> IF n \in names THEN Invalidated(iQuery[n])
                                         ELSE iQuery[n]]
    /\ iMissed' = iMissed \cup {n \in names : iQuery[n].data = None /\ InFlight(iQuery[n])}

(* Any form is closed by the success of any. *)
InboxWritten(w) ==
    /\ w.at = "done"
    /\ iWrites' = iWrites \ {w}
    /\ InvalidateInbox(Invalidates(w.op))
    /\ iForm' = IF w.op = "add" THEN None ELSE iForm
    /\ UNCHANGED <<signed, watched, iStore, iCards, iForms, iCooling, iHint, iPrompt, budget>>

(* Mutant: a confirmation that fails is left at that. *)
ErrorsIgnored(w) == {}

(* The queries the onError of w invalidates. *)
OnInboxError(w) == IF w.op = "confirm" THEN {"pending"} ELSE {}

(* Refused, or lost on the way there or back. *)
InboxWriteFails(w) ==
    /\ \/ Fault
       \/ w.at = "sent" /\ Refusable(w) /\ UNCHANGED budget
    /\ iWrites' = iWrites \ {w}
    /\ LET names == OnInboxError(w)
           missed == IF w.op = "confirm" THEN {watched} ELSE InboxQueries
       IN  /\ iQuery' = [n \in InboxQueries |-> IF n \in names THEN Invalidated(iQuery[n])
                                                ELSE iQuery[n]]
           /\ iMissed' = iMissed \cup IF w.at = "done" THEN missed ELSE {}
    /\ UNCHANGED <<signed, watched, iStore, iUi>>

(* 429, for a form that is still there. *)
InboxTooMany(w) ==
    /\ w.at = "sent" /\ w.op \in {"add", "confirm"} /\ Fault
    /\ iWrites' = iWrites \ {w}
    /\ iCooling' = iCooling \cup CASE w.op = "confirm" -> {w.arg}
                                   [] w.op = "add" /\ iForm # None /\ w.arg = iForms -> {0}
                                   [] OTHER -> {}
    /\ UNCHANGED <<signed, watched, iStore, iQuery, iCards, iForm, iForms, iHint, iPrompt, iMissed>>

InboxCooled(c) ==
    /\ c \in iCooling
    /\ iCooling' = iCooling \ {c}
    /\ UNCHANGED <<signed, watched, iStore, iQuery, iCards, iForm, iForms, iHint, iPrompt, iWrites,
                   iMissed, budget>>

InboxNext ==
    \/ \E name \in InboxQueries : \/ InboxRefetch(name) \/ InboxServe(name)
                                  \/ InboxArrive(name) \/ InboxQueryFails(name)
    \/ \E c \in Card :
         \/ AgentRecords(c)
         \/ \E searchMode \in BOOLEAN : OpenConfirm(c, searchMode)
         \/ OpenExclude(c) \/ CollapseCard(c) \/ FillCard(c)
         \/ SubmitConfirm(c) \/ Dismiss(c) \/ Exclude(c)
    \/ AddButton \/ FillForm \/ CancelForm \/ SubmitForm
    \/ DismissHint \/ ClosePrompt
    \/ \E w \in iWrites : \/ InboxWrite(w) \/ InboxWritten(w)
                          \/ InboxWriteFails(w) \/ InboxTooMany(w)
    \/ \E c \in Card \cup {0} : InboxCooled(c)

--------------------------------------------------------------------------------
(* When every request is answered, no card and no count stands for a pending  *)
(* journey that is gone, and the history counts every journey; also after a  *)
(* confirmation whose answer was lost, whose card goes.  Only a query whose   *)
(* first answer was under way when it was invalidated, that failed, or that   *)
(* a lost answer should have invalidated may be behind (the onSuccess and     *)
(* onError callbacks of Journeys.tsx).                                       *)
InboxShowsSaved ==
    (iWrites = {} /\ \A name \in InboxQueries : ~InFlight(iQuery[name])) =>
        /\ (signed /\ "pending" \notin iMissed) => iQuery.pending.data \subseteq iStore.pending
        /\ (signed /\ watched = "count" /\ watched \notin iMissed) =>
             iQuery.count.data <= Cardinality(iStore.pending)
        /\ (signed /\ watched = "history" /\ watched \notin iMissed) =>
             iQuery.history.data = iStore.confirmed + iStore.added

(* A form that is filled in once adds one journey, however often its button   *)
(* is clicked and whatever is cancelled meanwhile, unless a request fails:    *)
(* a form kept open to retry adds again what was added (addMutation).        *)
FormsAddOnce == faults = 0 => iStore.added <= iForms
================================================================================
