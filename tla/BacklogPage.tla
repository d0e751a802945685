----------------------------- MODULE BacklogPage -----------------------------
(****************************************************************************)
(* The backlog page (Backlog.tsx, RollModal.tsx): a list of games the player *)
(* adds to, removes from and reorders by dragging, and a dialog that rolls   *)
(* one of them.  A drag is shown at once, by writing the query's data, and   *)
(* sent; the server takes an order only of exactly the games it has.  The    *)
(* player may use a second tab at the same time.                            *)
(****************************************************************************)
EXTENDS WebClient

Seqs == INSTANCE SequencesExt

CONSTANT Game       \* games are numbers; the odd ones match the genre filter

ASSUME BacklogAssumption == {1, 2} \subseteq Game /\ None \notin Seq(Game)

VARIABLES
    bStore,         \* the server's list, in order
    bQuery,         \* the query for it
    bWrites,        \* adds, removals and reorders in flight
    bRemoving,      \* the row whose remove button is disabled, or None
    bFiltered,      \* a filter is chosen
    bRoll,          \* the roll dialog: None, or the index shown and whether settled
    bCrashed,       \* rendering failed; the error boundary has replaced the page
    bRaced          \* history: a reorder overlapped another request, something was
                    \* sent before the first answer, another request than a
                    \* reorder failed, or the second tab changed the list

bVars == <<bStore, bQuery, bWrites, bRemoving, bFiltered, bRoll, bCrashed, bRaced>>

BacklogInit ==
    /\ bStore = <<1, 2>>
    /\ bQuery = NewQuery
    /\ bWrites = {}
    /\ bRemoving = None
    /\ bFiltered = FALSE
    /\ bRoll = None
    /\ bCrashed = FALSE
    /\ bRaced = FALSE

Listed(s) == {s[i] : i \in DOMAIN s}

Entries == IF bQuery.data = None THEN <<>> ELSE bQuery.data

(* The filtered list is what is shown and rolled. *)
ShownOf(entries) == IF bFiltered THEN SelectSeq(entries, LAMBDA g : g % 2 = 1) ELSE entries

(* RollModal renders entries[shownIndex] before its effect can react to a     *)
(* shorter list; with no entry at all the dialog is not rendered.            *)
RollsOutside(entries) ==
    /\ bRoll # None
    /\ ShownOf(entries) # <<>>
    /\ bRoll.index > Len(ShownOf(entries))

--------------------------------------------------------------------------------
(* On focus. *)
BacklogRefetch ==
    /\ bQuery' = Refetched(bQuery)
    /\ bRaced' = (bRaced \/ Pending(bWrites, "reorder"))
    /\ UNCHANGED <<bStore, bWrites, bRemoving, bFiltered, bRoll, bCrashed, budget>>

BacklogServe ==
    /\ IsAsked(bQuery)
    /\ bQuery' = Served(bQuery, bStore)
    /\ UNCHANGED <<bStore, bWrites, bRemoving, bFiltered, bRoll, bCrashed, bRaced, budget>>

(* A list of another length starts the roll again. *)
BacklogArrive ==
    /\ IsServed(bQuery)
    /\ bQuery' = Arrived(bQuery)
    /\ LET list == ShownOf(bQuery.answer)
       IN  /\ bCrashed' = RollsOutside(bQuery.answer)
           /\ bRoll' = IF bRoll = None \/ Len(list) = Len(ShownOf(Entries)) THEN bRoll
                       ELSE [index |-> IF list = <<>> THEN 1 ELSE bRoll.index,
                             settled |-> FALSE]
    /\ UNCHANGED <<bStore, bWrites, bRemoving, bFiltered, bRaced, budget>>

BacklogQueryFails ==
    /\ InFlight(bQuery) /\ Fault
    /\ bQuery' = Lost(bQuery)
    /\ bRaced' = TRUE
    /\ UNCHANGED <<bStore, bWrites, bRemoving, bFiltered, bRoll, bCrashed>>

--------------------------------------------------------------------------------
(* Adding, removing, dragging; the roll dialog, when open, covers the page.   *)

SendBacklog(op, arg) ==
    /\ bRoll = None /\ Click
    /\ bWrites' = bWrites \cup {Sent(op, arg)}
    /\ bRaced' = \/ bRaced
                 \/ op = "reorder" /\ (bWrites # {} \/ InFlight(bQuery))
                 \/ Pending(bWrites, "reorder")
                 \/ bQuery.data = None

(* handleSelect. *)
AddGame(g) ==
    /\ SendBacklog("add", g)
    /\ UNCHANGED <<bStore, bQuery, bRemoving, bFiltered, bRoll, bCrashed>>

(* The trash of a shown row, disabled while it is the last one clicked. *)
RemoveGame(g) ==
    /\ g \in Listed(ShownOf(Entries)) /\ bRemoving # g
    /\ SendBacklog("remove", g)
    /\ bRemoving' = g
    /\ UNCHANGED <<bStore, bQuery, bFiltered, bRoll, bCrashed>>

(* arrayMove. *)
Moved(s, i, j) == Seqs!InsertAt(Seqs!RemoveAt(s, i), j, s[i])

(* handleDragEnd, in the unfiltered list only. *)
Drag(i, j) ==
    /\ ~bFiltered /\ {i, j} \subseteq DOMAIN Entries /\ i # j
    /\ LET order == Moved(Entries, i, j)
       IN  /\ bQuery' = Written(bQuery, order)
           /\ SendBacklog("reorder", order)
    /\ UNCHANGED <<bStore, bRemoving, bFiltered, bRoll, bCrashed>>

(* A game is listed once at most. *)
Without(s, g) ==
    IF g \in Listed(s) THEN Seqs!RemoveAt(s, CHOOSE i \in DOMAIN s : s[i] = g) ELSE s

(* AddBacklogEntry, RemoveBacklogEntry, ReorderBacklogEntries. *)
Applied(w) ==
    CASE w.op = "add"     -> IF w.arg \in Listed(bStore) THEN bStore ELSE Append(bStore, w.arg)
      [] w.op = "remove"  -> Without(bStore, w.arg)
      [] w.op = "reorder" -> IF Listed(w.arg) = Listed(bStore) THEN w.arg ELSE bStore

Mismatch(w) == w.op = "reorder" /\ Listed(w.arg) # Listed(bStore)

BacklogWrite(w) ==
    /\ w.at = "sent"
    /\ bStore' = Applied(w)
    /\ bWrites' = Replace(bWrites, w, IF Mismatch(w) THEN [w EXCEPT !.at = "refused"] ELSE Done(w))
    /\ UNCHANGED <<bQuery, bRemoving, bFiltered, bRoll, bCrashed, bRaced, budget>>

Settle(w) ==
    /\ bWrites' = bWrites \ {w}
    /\ bRemoving' = IF w.op = "remove" /\ bRemoving = w.arg THEN None ELSE bRemoving

(* onSuccess: an add or a removal is fetched, a reorder is believed. *)
BacklogWritten(w) ==
    /\ w.at = "done"
    /\ Settle(w)
    /\ bQuery' = IF w.op = "reorder" THEN bQuery ELSE Invalidated(bQuery)
    /\ UNCHANGED <<bStore, bFiltered, bRoll, bCrashed, bRaced, budget>>

(* Mutant: a reorder that failed stays on the screen. *)
ErrorIgnored(w) == bQuery

(* onError: a reorder that failed is taken back by fetching the list. *)
OnError(w) == IF w.op = "reorder" THEN Invalidated(bQuery) ELSE bQuery

BacklogRefused(w) ==
    /\ w.at = "refused"
    /\ Settle(w)
    /\ bQuery' = OnError(w)
    /\ UNCHANGED <<bStore, bFiltered, bRoll, bCrashed, bRaced, budget>>

(* The request or its answer is lost. *)
BacklogWriteFails(w) ==
    /\ Fault
    /\ Settle(w)
    /\ bQuery' = OnError(w)
    /\ bRaced' = (bRaced \/ w.op # "reorder")
    /\ UNCHANGED <<bStore, bFiltered, bRoll, bCrashed>>

(* The second tab adds or removes a game.  It is no race for a reorder that   *)
(* the server has not seen: that one is refused and the list fetched.        *)
SecondTab(g) ==
    /\ Click
    /\ bStore' = IF g \in Listed(bStore) THEN Without(bStore, g)
                 ELSE Append(bStore, g)
    /\ bRaced' = (bRaced \/ ~\E w \in bWrites : w.op = "reorder" /\ w.at = "sent")
    /\ UNCHANGED <<bQuery, bWrites, bRemoving, bFiltered, bRoll, bCrashed>>

--------------------------------------------------------------------------------
(* Filter and roll. *)

(* FilterDropdown. *)
ChooseFilter ==
    /\ bRoll = None /\ Entries # <<>> /\ Click
    /\ bFiltered' = ~bFiltered
    /\ UNCHANGED <<bStore, bQuery, bWrites, bRemoving, bRoll, bCrashed, bRaced>>

OpenRoll ==
    /\ bRoll = None /\ Entries # <<>> /\ Click
    /\ bRoll' = [index |-> 1, settled |-> FALSE]
    /\ UNCHANGED <<bStore, bQuery, bWrites, bRemoving, bFiltered, bCrashed, bRaced>>

(* The interval shows a random entry, the last one for good. *)
RollTick(i) ==
    /\ bRoll # None /\ ~bRoll.settled
    /\ bRoll' \in [index : {i}, settled : BOOLEAN]
    /\ UNCHANGED <<bStore, bQuery, bWrites, bRemoving, bFiltered, bCrashed, bRaced, budget>>

RollAgain ==
    /\ bRoll # None /\ bRoll.settled /\ Len(ShownOf(Entries)) > 1
    /\ Click
    /\ bRoll' = [bRoll EXCEPT !.settled = FALSE]
    /\ UNCHANGED <<bStore, bQuery, bWrites, bRemoving, bFiltered, bCrashed, bRaced>>

CloseRoll ==
    /\ bRoll # None
    /\ bRoll' = None
    /\ UNCHANGED <<bStore, bQuery, bWrites, bRemoving, bFiltered, bCrashed, bRaced, budget>>

BacklogNext ==
    /\ ~bCrashed
    /\ \/ BacklogRefetch \/ BacklogServe \/ BacklogArrive \/ BacklogQueryFails
       \/ \E g \in Game : AddGame(g) \/ RemoveGame(g) \/ SecondTab(g)
       \/ \E i, j \in DOMAIN Entries : Drag(i, j)
       \/ \E w \in bWrites : \/ BacklogWrite(w) \/ BacklogWritten(w)
                             \/ BacklogRefused(w) \/ BacklogWriteFails(w)
       \/ ChooseFilter \/ OpenRoll \/ RollAgain \/ CloseRoll
       \/ \E i \in DOMAIN ShownOf(Entries) : RollTick(i)

--------------------------------------------------------------------------------
(* When every request is answered the page shows the order the server keeps:  *)
(* a reorder that was refused, because the second tab changed the list, or   *)
(* that failed, is taken back.  Except after a drag while another request    *)
(* was in flight, which nothing orders, and after an addition before the     *)
(* list was there, whose invalidation restarts no request (Backlog.tsx).     *)
BacklogShowsOrder ==
    (bWrites = {} /\ ~InFlight(bQuery) /\ ~bRaced /\ ~bCrashed) => Entries = bStore
================================================================================
