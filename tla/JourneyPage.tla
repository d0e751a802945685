----------------------------- MODULE JourneyPage -----------------------------
(****************************************************************************)
(* The page of one journey (JourneyDetail.tsx): the journey, refetched every *)
(* thirty seconds, its comments, copied into a list of the page's own that  *)
(* a post appends to and a deletion filters, the Follow buttons of its owner *)
(* and of the other players, and the forms to edit and delete it.           *)
(*                                                                          *)
(* Comments are shown oldest first, in pages of PageSize.  The journey is a  *)
(* version number: an edit makes the next one.                              *)
(****************************************************************************)
EXTENDS WebClient

VARIABLES
    role,           \* "guest", "visitor" (signed in) or "owner"
    jStore,         \* the server: the journey's version, its comments, whether
                    \* the visitor follows the owner and another player
    jQuery,         \* the page's queries: journey, comments, follow
    jList,          \* the comments shown, and the cursor of the next page
    jMore,          \* the Load more request in flight, or None
    jForm,          \* the comment typed, and the open confirmations and editor
    jFollowing,     \* the other player's button
    jWrites,        \* mutations in flight
    cooldown,       \* seconds until the next comment may be posted
    jLeft,          \* the journey is deleted and the page left
    jPosted,        \* history: texts sent and not typed over since
    jOverlap        \* history: a row's Follow button was clicked while it waited,
                    \* or the owner's before its query was first answered

jLists   == <<jList, jMore>>
jUi      == <<jForm, jFollowing, cooldown>>
jHistory == <<jPosted, jOverlap>>
jVars    == <<role, jStore, jQuery, jLists, jUi, jWrites, jLeft, jHistory>>

JourneyInit ==
    /\ jStore = [version |-> 1, comments |-> <<1, 2, 3>>, next |-> 4,
                 texts |-> {}, owner |-> FALSE, player |-> FALSE]
    /\ jQuery = [journey |-> NewQuery, comments |-> NewQuery,
                 follow |-> IF role = "owner" THEN NotAsked ELSE NewQuery]
    /\ jList = [rows |-> <<>>, cursor |-> None]
    /\ jMore = None
    /\ jForm = [text |-> 0, comment |-> None, journey |-> FALSE, editing |-> FALSE]
    /\ jFollowing = FALSE
    /\ jWrites = {}
    /\ cooldown = 0
    /\ jLeft = FALSE
    /\ jPosted = {}
    /\ jOverlap = FALSE

--------------------------------------------------------------------------------
(* The queries. *)

After(cursor) ==
    LET comments == jStore.comments
        before   == {i \in DOMAIN comments : cursor # None /\ comments[i] <= cursor}
    IN  SubSeq(comments, Cardinality(before) + 1, Len(comments))

(* The endpoint of getComments: the rows after the cursor, oldest first. *)
GetComments(cursor) ==
    LET rest == After(cursor)
        cut  == Len(rest) > PageSize
    IN  [rows   |-> IF cut THEN SubSeq(rest, 1, PageSize) ELSE rest,
         cursor |-> IF cut THEN rest[PageSize] ELSE None]

(* getJourney, getComments and getIsFollowing, as the server answers them now. *)
Answer(name) ==
    CASE name = "journey"  -> jStore.version
      [] name = "comments" -> GetComments(None)
      [] name = "follow"   -> jStore.owner

Names == {"journey", "comments", "follow"}

SetQuery(name, q) == jQuery' = [jQuery EXCEPT ![name] = q]

(* Mutant: the page is fetched once. *)
JourneyRefetchOnce(name) ==
    /\ jQuery[name].data = None
    /\ SetQuery(name, Refetched(jQuery[name]))
    /\ UNCHANGED <<role, jStore, jLists, jUi, jWrites, jLeft, jHistory, budget>>

(* refetchInterval of the journey and its comments, focus for all of them. *)
JourneyRefetch(name) ==
    /\ name = "follow" => role # "owner"
    /\ SetQuery(name, Refetched(jQuery[name]))
    /\ UNCHANGED <<role, jStore, jLists, jUi, jWrites, jLeft, jHistory, budget>>

JourneyServe(name) ==
    /\ IsAsked(jQuery[name])
    /\ SetQuery(name, Served(jQuery[name], Answer(name)))
    /\ UNCHANGED <<role, jStore, jLists, jUi, jWrites, jLeft, jHistory, budget>>

(* The effect on commentsPage copies the first page over the list. *)
JourneyArrive(name) ==
    /\ IsServed(jQuery[name])
    /\ SetQuery(name, Arrived(jQuery[name]))
    /\ jList' = IF name = "comments" THEN jQuery[name].answer ELSE jList
    /\ UNCHANGED <<role, jStore, jMore, jUi, jWrites, jLeft, jHistory, budget>>

JourneyQueryFails(name) ==
    /\ InFlight(jQuery[name]) /\ Fault
    /\ SetQuery(name, Lost(jQuery[name]))
    /\ UNCHANGED <<role, jStore, jLists, jUi, jWrites, jLeft, jHistory>>

LoadMoreComments ==
    /\ jMore = None /\ jList.cursor # None
    /\ jMore' = [after |-> jList.cursor, reply |-> None]
    /\ UNCHANGED <<role, jStore, jQuery, jList, jUi, jWrites, jLeft, jHistory, budget>>

ServeMoreComments ==
    /\ jMore # None /\ jMore.reply = None
    /\ jMore' = [jMore EXCEPT !.reply = GetComments(jMore.after)]
    /\ UNCHANGED <<role, jStore, jQuery, jList, jUi, jWrites, jLeft, jHistory, budget>>

MoreCommentsArrive ==
    /\ jMore # None /\ jMore.reply # None
    /\ jList' = [rows |-> jList.rows \o jMore.reply.rows, cursor |-> jMore.reply.cursor]
    /\ jMore' = None
    /\ UNCHANGED <<role, jStore, jQuery, jUi, jWrites, jLeft, jHistory, budget>>

MoreCommentsFail ==
    /\ jMore # None /\ Fault
    /\ jMore' = None
    /\ UNCHANGED <<role, jStore, jQuery, jList, jUi, jWrites, jLeft, jHistory>>

--------------------------------------------------------------------------------
(* The user.  A guest is shown a sign-in prompt instead.                      *)

SignedIn == role # "guest"
JourneyShown == jQuery.journey.data # None

Send(op, arg) == jWrites' = jWrites \cup {Sent(op, arg)}

(* Every edit of the box is a new text; 0 is the empty one. *)
TypeComment ==
    /\ JourneyShown /\ Click
    /\ jForm' = [jForm EXCEPT !.text = clicks + 1]
    /\ jPosted' = {}
    /\ UNCHANGED <<role, jStore, jQuery, jLists, jFollowing, jWrites, cooldown, jLeft,
                   jOverlap>>

(* Mutant: the box is emptied when the comment is sent. *)
PostCommentEmptying ==
    /\ JourneyShown /\ SignedIn
    /\ jForm.text # 0 /\ ~Pending(jWrites, "post") /\ cooldown = 0
    /\ Click
    /\ Send("post", jForm.text)
    /\ jPosted' = jPosted \cup {jForm.text}
    /\ jForm' = [jForm EXCEPT !.text = 0]
    /\ UNCHANGED <<role, jStore, jQuery, jLists, jFollowing, cooldown, jLeft, jOverlap>>

PostComment ==
    /\ JourneyShown /\ SignedIn
    /\ jForm.text # 0 /\ ~Pending(jWrites, "post") /\ cooldown = 0
    /\ Click
    /\ Send("post", jForm.text)
    /\ jPosted' = jPosted \cup {jForm.text}
    /\ UNCHANGED <<role, jStore, jQuery, jLists, jUi, jLeft, jOverlap>>

(* CommentRow: the trash of a comment of one's own, then Cancel or Delete. *)
ConfirmComment(c) ==
    /\ JourneyShown /\ SignedIn /\ Click
    /\ c \in {jList.rows[i] : i \in DOMAIN jList.rows} \cup {None}
    /\ jForm' = [jForm EXCEPT !.comment = c]
    /\ UNCHANGED <<role, jStore, jQuery, jLists, jFollowing, jWrites, cooldown, jLeft,
                   jHistory>>

DeleteComment ==
    /\ jForm.comment # None /\ Click
    /\ jForm' = [jForm EXCEPT !.comment = None]
    /\ Send("deleteComment", jForm.comment)
    /\ UNCHANGED <<role, jStore, jQuery, jLists, jFollowing, cooldown, jLeft, jHistory>>

(* The owner's Follow button asks for the opposite of what the query shows.   *)
FollowOwner ==
    /\ JourneyShown /\ role = "visitor" /\ Click
    /\ Send("follow", jQuery.follow.data # TRUE)
    /\ jOverlap' = (jOverlap \/ jQuery.follow.data = None)
    /\ UNCHANGED <<role, jStore, jQuery, jLists, jUi, jLeft, jPosted>>

(* JourneyPlayerRow's asks for the opposite of its own state. *)
FollowPlayer ==
    /\ JourneyShown /\ SignedIn /\ Click
    /\ Send("followPlayer", ~jFollowing)
    /\ jOverlap' = (jOverlap \/ Pending(jWrites, "followPlayer"))
    /\ UNCHANGED <<role, jStore, jQuery, jLists, jUi, jLeft, jPosted>>

(* The trash of one's own journey, and its Cancel. *)
ConfirmJourney ==
    /\ JourneyShown /\ role = "owner" /\ Click
    /\ jForm' = [jForm EXCEPT !.journey = ~@]
    /\ UNCHANGED <<role, jStore, jQuery, jLists, jFollowing, jWrites, cooldown, jLeft,
                   jHistory>>

DeleteJourney ==
    /\ jForm.journey /\ Click
    /\ jForm' = [jForm EXCEPT !.journey = FALSE]
    /\ Send("deleteJourney", None)
    /\ UNCHANGED <<role, jStore, jQuery, jLists, jFollowing, cooldown, jLeft, jHistory>>

(* The pencil, and the form's Cancel. *)
EditJourney ==
    /\ JourneyShown /\ role = "owner" /\ Click
    /\ jForm' = [jForm EXCEPT !.editing = ~@]
    /\ UNCHANGED <<role, jStore, jQuery, jLists, jFollowing, jWrites, cooldown, jLeft,
                   jHistory>>

(* JourneyForm's submit. *)
SaveJourney ==
    /\ jForm.editing /\ ~Pending(jWrites, "update") /\ Click
    /\ Send("update", None)
    /\ UNCHANGED <<role, jStore, jQuery, jLists, jUi, jLeft, jHistory>>

--------------------------------------------------------------------------------
(* The mutations, on the server and back. *)

Stored(w) ==
    CASE w.op = "post" ->
           [jStore EXCEPT !.comments = Append(@, jStore.next), !.next = @ + 1,
                          !.texts = @ \cup {w.arg}]
      [] w.op = "deleteComment" ->
           [jStore EXCEPT !.comments = SelectSeq(@, LAMBDA c : c # w.arg)]
      [] w.op = "follow"        -> [jStore EXCEPT !.owner = w.arg]
      [] w.op = "followPlayer"  -> [jStore EXCEPT !.player = w.arg]
      [] w.op = "update"        -> [jStore EXCEPT !.version = @ + 1]
      [] w.op = "deleteJourney" -> jStore

(* The answer to a post carries the new comment. *)
JourneyWrite(w) ==
    /\ w.at = "sent"
    /\ jStore' = Stored(w)
    /\ jWrites' = Replace(jWrites, w,
                     IF w.op = "post" THEN [Done(w) EXCEPT !.arg = jStore.next] ELSE Done(w))
    /\ UNCHANGED <<role, jQuery, jLists, jUi, jLeft, jHistory, budget>>

(* Mutant: a follow or an update is not followed by a refetch. *)
NothingInvalidated(w) == jQuery

(* The queries each onSuccess invalidates; "journey" is a prefix of the       *)
(* comments' key.                                                            *)
InvalidatedBy(w) ==
    CASE w.op = "follow" -> [jQuery EXCEPT !.follow = Invalidated(@)]
      [] w.op = "update" -> [jQuery EXCEPT !.journey = Invalidated(@),
                                           !.comments = Invalidated(@)]
      [] OTHER -> jQuery

(* onSuccess. *)
JourneyWritten(w) ==
    /\ w.at = "done"
    /\ jWrites' = jWrites \ {w}
    /\ jQuery' = InvalidatedBy(w)
    /\ jList' = CASE w.op = "post" -> [jList EXCEPT !.rows = Append(@, w.arg)]
                  [] w.op = "deleteComment" ->
                       [jList EXCEPT !.rows = SelectSeq(@, LAMBDA c : c # w.arg)]
                  [] OTHER -> jList
    /\ jForm' = CASE w.op = "post"   -> [jForm EXCEPT !.text = 0]
                  [] w.op = "update" -> [jForm EXCEPT !.editing = FALSE]
                  [] OTHER -> jForm
    /\ jFollowing' = IF w.op = "followPlayer" THEN w.arg ELSE jFollowing
    /\ jLeft' = (w.op = "deleteJourney")
    /\ UNCHANGED <<role, jStore, jMore, cooldown, jHistory, budget>>

(* The request or its answer is lost. *)
JourneyWriteFails(w) ==
    /\ Fault
    /\ jWrites' = jWrites \ {w}
    /\ UNCHANGED <<role, jStore, jQuery, jLists, jUi, jLeft, jHistory>>

(* 429: the button waits for Retry-After.  A header that is missing is 0. *)
TooManyComments(w, seconds) ==
    /\ w.at = "sent" /\ w.op = "post" /\ Fault
    /\ jWrites' = jWrites \ {w}
    /\ cooldown' = seconds
    /\ UNCHANGED <<role, jStore, jQuery, jLists, jForm, jFollowing, jLeft, jHistory>>

(* useCooldown. *)
CooldownTick ==
    /\ cooldown > 0
    /\ cooldown' = cooldown - 1
    /\ UNCHANGED <<role, jStore, jQuery, jLists, jForm, jFollowing, jWrites, jLeft,
                   jHistory, budget>>

JourneyNext ==
    /\ ~jLeft
    /\ \/ \E name \in Names : \/ JourneyRefetch(name) \/ JourneyServe(name)
                              \/ JourneyArrive(name) \/ JourneyQueryFails(name)
       \/ LoadMoreComments \/ ServeMoreComments \/ MoreCommentsArrive \/ MoreCommentsFail
       \/ TypeComment \/ PostComment
       \/ \E c \in {1, 4, None} : ConfirmComment(c)
       \/ DeleteComment \/ FollowOwner \/ FollowPlayer
       \/ ConfirmJourney \/ DeleteJourney \/ EditJourney \/ SaveJourney
       \/ \E w \in jWrites : \/ JourneyWrite(w) \/ JourneyWritten(w) \/ JourneyWriteFails(w)
                             \/ \E s \in {0, 1} : TooManyComments(w, s)
       \/ CooldownTick

--------------------------------------------------------------------------------
JourneyQuiet == jWrites = {} /\ \A name \in Names : ~InFlight(jQuery[name])

(* Once every request is answered and none has failed, the page shows the     *)
(* journey as it was last saved and the Follow buttons as the server has     *)
(* them, although refetches and mutations overlap; except for a row's button *)
(* clicked again while it waited, and the owner's clicked before its query   *)
(* was answered, which an invalidation does not restart (the onSuccess       *)
(* callbacks of JourneyDetail.tsx).                                          *)
JourneyShowsSaved ==
    (JourneyQuiet /\ faults = 0 /\ ~jLeft) =>
        /\ jQuery.journey.data = jStore.version
        /\ (role # "owner" /\ ~jOverlap) => jQuery.follow.data = jStore.owner
        /\ ~jOverlap => jFollowing = jStore.player

(* A comment that was sent is stored, on its way or still in the box, however *)
(* its request ends, until the user types another (onSuccess and onError of  *)
(* postCommentMutation).                                                     *)
CommentsAreKept ==
    \A text \in jPosted :
        \/ text \in jStore.texts
        \/ jForm.text = text

(* A comment doubled by a refetch that overtook its post, or back after its   *)
(* deletion, goes away: again and again the list is the beginning of the     *)
(* server's (refetchInterval of the comments).                               *)
CommentsHeal ==
    []<>(\/ jLeft
         \/ /\ Len(jList.rows) <= Len(jStore.comments)
            /\ \A i \in DOMAIN jList.rows : jList.rows[i] = jStore.comments[i])
================================================================================
