----------------------------- MODULE WebSavedProofs -----------------------------
(****************************************************************************)
(* Proofs about the pages of the web app: what a page waits for is on its     *)
(* way, and once its requests are answered it shows what the server keeps;    *)
(* for any number of clicks, failures, games, cards, notifications and tabs.  *)
(*                                                                          *)
(* PagesShowSaved speaks of pages at rest, and is not inductive.  For each    *)
(* page, its ...Fetched says what holds on the way there: as long as no       *)
(* change is done on the server that its onSuccess has still to invalidate    *)
(* (Settling), a query at rest, and an answer that is under way, are the      *)
(* server's (Current); and what is changed was shown, so that the             *)
(* invalidation restarts the query.  ...Sound are the shapes this rests on.   *)
(****************************************************************************)
EXTENDS WebPagesProofs, WebListsProofs

--------------------------------------------------------------------------------
(* A query whose data and answers come from V. *)
QueryState == {"none", "asked", "served"}

Fetches(q, V) ==
    /\ DOMAIN q = QueryField /\ q.req \in QueryState
    /\ q.data = None \/ q.data \in V
    /\ IsServed(q) => q.answer \in V

(* At rest it shows v, and v is what is on its way. *)
Current(q, v) ==
    /\ ~InFlight(q) => q.data = v
    /\ IsServed(q) => q.answer = v

(* At rest it shows one of F, and one of F is what is on its way. *)
Fits(q, F) ==
    /\ ~InFlight(q) => q.data \in F
    /\ IsServed(q) => q.answer \in F

(* Writes of one of the kinds ops, and those of them that the server has done. *)
Writing(writes, ops) == \E w \in writes : w.op \in ops
Settling(writes, ops) == \E w \in writes : w.op \in ops /\ w.at = "done"

BudgetKept == clicks \in 0 .. MaxClicks /\ faults \in 0 .. MaxFaults

(* What becomes of a query for v, short of a failure. *)
Fetching(q, r, v) ==
    \/ r = Refetched(q)
    \/ r = Served(q, v)
    \/ IsServed(q) /\ r = Arrived(q)

LEMMA FetchingKeeps ==
    ASSUME NEW q, NEW V, Fetches(q, V), None \notin V, NEW v \in V, NEW r, Fetching(q, r, v)
    PROVE  /\ Fetches(r, V)
           /\ Current(q, v) => Current(r, v)
           /\ q.data # None => r.data # None
<1>. USE DEF Fetches, Current, IsServed, InFlight, QueryField, QueryState
<1>1. CASE r = Refetched(q)
  BY <1>1 DEF Refetched
<1>2. CASE r = Served(q, v)
  BY <1>2 DEF Served
<1>3. CASE IsServed(q) /\ r = Arrived(q)
  BY <1>3 DEF Arrived
<1>. QED
  <2>. HIDE DEF Fetches, Current, IsServed, InFlight
  <2>. QED BY <1>1, <1>2, <1>3 DEF Fetching

(* The same of what fits. *)
LEMMA FetchingFits ==
    ASSUME NEW q, DOMAIN q = QueryField, NEW F, NEW v \in F, NEW r, Fetching(q, r, v)
    PROVE  /\ Fits(q, F) => Fits(r, F)
           /\ r = Served(q, v) => Fits(r, F)
<1>. USE DEF Fits, IsServed, InFlight, QueryField
<1>1. CASE r = Refetched(q)
  BY <1>1 DEF Refetched, Served
<1>2. CASE r = Served(q, v)
  BY <1>2 DEF Served
<1>3. CASE IsServed(q) /\ r = Arrived(q)
  BY <1>3 DEF Arrived, Served
<1>. QED
  <2>. HIDE DEF Fits, IsServed, InFlight
  <2>. QED BY <1>1, <1>2, <1>3 DEF Fetching

LEMMA LosingKeeps ==
    ASSUME NEW q, NEW V, Fetches(q, V)
    PROVE  Fetches(Lost(q), V) /\ Lost(q).data = q.data
BY DEF Fetches, Lost, IsServed, QueryField, QueryState

(* An invalidation asks again for what was fetched before. *)
LEMMA InvalidatingAsks ==
    ASSUME NEW q, NEW V, Fetches(q, V)
    PROVE  /\ Fetches(Invalidated(q), V) /\ Invalidated(q).data = q.data
           /\ \A v : Current(q, v) => Current(Invalidated(q), v)
           /\ q.data # None => \A v : Current(Invalidated(q), v)
BY DEF Fetches, Invalidated, Current, IsServed, InFlight, QueryField, QueryState

LEMMA InvalidatingFits ==
    ASSUME NEW q, DOMAIN q = QueryField, NEW F
    PROVE  q.data # None \/ ~InFlight(q) \/ Fits(q, F) => Fits(Invalidated(q), F)
BY DEF Invalidated, Fits, IsServed, InFlight, QueryField

(* A write that begins, and one that the server has done. *)
LEMMA SentIsWrite ==
    ASSUME NEW op, NEW arg
    PROVE  /\ DOMAIN Sent(op, arg) = WriteField /\ Sent(op, arg).op = op
           /\ Sent(op, arg).arg = arg /\ Sent(op, arg).at = "sent"
BY DEF Sent, WriteField

(* What is done about one write changes nothing about writes of other kinds. *)
LEMMA WriteBegins ==
    ASSUME NEW writes, NEW op, NEW arg, NEW ops
    PROVE  /\ Settling(writes \cup {Sent(op, arg)}, ops) <=> Settling(writes, ops)
           /\ Writing(writes \cup {Sent(op, arg)}, ops) <=> (op \in ops \/ Writing(writes, ops))
BY SentIsWrite DEF Settling, Writing

LEMMA WriteIsServed ==
    ASSUME NEW writes, NEW w \in writes, w.at # "done", NEW v, v.op = w.op, NEW ops
    PROVE  /\ Writing(Replace(writes, w, v), ops) <=> Writing(writes, ops)
           /\ w.op \in ops /\ v.at = "done" => Settling(Replace(writes, w, v), ops)
           /\ w.op \notin ops => (Settling(Replace(writes, w, v), ops) <=> Settling(writes, ops))
BY DEF Settling, Writing, Replace

LEMMA WriteIsOver ==
    ASSUME NEW writes, NEW w, NEW ops
    PROVE  /\ Settling(writes \ {w}, ops) => Settling(writes, ops)
           /\ Writing(writes \ {w}, ops) => Writing(writes, ops)
           /\ w.op \notin ops =>
                /\ Settling(writes, ops) => Settling(writes \ {w}, ops)
                /\ Writing(writes, ops) => Writing(writes \ {w}, ops)
           /\ w.at # "done" => (Settling(writes, ops) => Settling(writes \ {w}, ops))
BY DEF Settling, Writing

--------------------------------------------------------------------------------
(* The budget: every step is a click, a failure, or neither. *)
Spends == Click \/ Fault \/ UNCHANGED budget

LEMMA JourneySpends ==
    ASSUME JourneyNext PROVE Spends
BY DEF Spends, JourneyNext, JourneyRefetch, JourneyServe, JourneyArrive, JourneyQueryFails,
       LoadMoreComments, ServeMoreComments, MoreCommentsArrive, MoreCommentsFail, TypeComment,
       PostComment, ConfirmComment, DeleteComment, FollowOwner, FollowPlayer, ConfirmJourney,
       DeleteJourney, EditJourney, SaveJourney, JourneyWrite, JourneyWritten,
       JourneyWriteFails, TooManyComments, CooldownTick

LEMMA BacklogSpends ==
    ASSUME BacklogNext PROVE Spends
BY DEF Spends, BacklogNext, BacklogRefetch, BacklogServe, BacklogArrive, BacklogQueryFails,
       AddGame, RemoveGame, SecondTab, Drag, SendBacklog, BacklogWrite, BacklogWritten,
       BacklogRefused, BacklogWriteFails, ChooseFilter, OpenRoll, RollAgain, CloseRoll, RollTick

LEMMA SettingsSpend ==
    ASSUME SettingsNext PROVE Spends
BY DEF Spends, SettingsNext, SettingsRefetch, SettingsServe, SettingsArrive,
       SettingsQueryFails, Toggle, ConfirmRow, CancelRow, RemoveRow, TypeInclusion, EditHint,
       AddInclusion, CancelEdit, PickGame, AskSignOut, AskDelete, TypeHandle, CancelAccount,
       SignOut, DeleteAccount, SettingsWrite, SettingsWritten, SettingsRefused,
       SettingsWriteFails, SendSetting

LEMMA InboxSpends ==
    ASSUME InboxNext PROVE Spends
BY DEF Spends, InboxNext, InboxRefetch, InboxServe, InboxArrive, InboxQueryFails, AgentRecords,
       OpenConfirm, OpenExclude, CollapseCard, FillCard, SubmitConfirm, Dismiss, Exclude,
       SendInbox, AddButton, FillForm, CancelForm, SubmitForm, DismissHint, ClosePrompt,
       InboxWrite, InboxWritten, InboxWriteFails, InboxTooMany, InboxCooled

LEMMA NotificationsSpend ==
    ASSUME NotificationsNext PROVE Spends
BY DEF Spends, NotificationsNext, NotificationsRefetch, NotificationsServe,
       NotificationsArrive, NotificationsFail, PlayerArrives, MarkServed, MarkWritten,
       MarkFails, Notify, ShowFollowers, ProfileEdited, ChooseTab, HideFollowers

LEMMA AdminSpends ==
    ASSUME AdminNext PROVE Spends
BY DEF Spends, AdminNext, SuspendedRefetch, SuspendedServe, SuspendedArrive, SuspendedFails,
       SuspendedExpires, ChooseAdminTab, OpenDialog, Unsuspend, CancelDialog, ConfirmAct,
       SendAct, ActServed, ActSucceeds, Unsuspended, ActFails

LEMMA ProfileSpends ==
    ASSUME ProfileNext PROVE Spends
BY DEF Spends, ProfileNext, ProfileRefetch, ProfileServe, ProfileArrive, ProfileQueryFails,
       OtherTab, OpenEditor, TypeName, TypeBio, CloseEditor, SaveProfile, OpenAvatar,
       CloseAvatar, ChangeAvatar, FollowButton, CloseSignIn, OpenReport, FillReport,
       SubmitReport, CloseReport, ReportCooled, ProfileWrite, ProfileWritten,
       ProfileWriteFails, HalfSaved, ReportRefused

LEMMA SignInSpends ==
    ASSUME SignInNext PROVE Spends
BY DEF Spends, SignInNext, OpenSite, OpenAgent, Refocus, SignIn, AgentRefused, InitAuth,
       TokenGranted, TokenFails, GoBack, Denied, Approved, CallbackFails, AskSession,
       SessionFound, SessionIssued, SessionRefused, Landed, StateExpires, SessionEnds,
       SuspendPlayer

LEMMA ListsSpend ==
    ASSUME ListsNext PROVE Spends
BY DEF Spends, budget, ListsNext, Ask, Serve, Arrive, Refused, Fails, Move, ClickMore,
       ServeMore, ArriveMore, MoreRefused, MoreFails, Change

LEMMA BudgetStays ==
    ASSUME BudgetKept, [Next]_vars
    PROVE  BudgetKept' /\ (faults' = 0 => faults = 0)
<1>1. Spends
  BY JourneySpends, BacklogSpends, SettingsSpend, InboxSpends, NotificationsSpend, AdminSpends,
     ProfileSpends, SignInSpends, ListsSpend
  DEF Next, vars, Spends
<1>. QED BY <1>1, ClientAssumption DEF Spends, Click, Fault, budget, BudgetKept

--------------------------------------------------------------------------------
JourneyOp == OtherWrite \cup {"post"}

(* Before the journey is there nothing can be clicked, and the comments are    *)
(* those of the start.                                                       *)
JourneyWaits ==
    ~JourneyShown =>
        /\ jWrites = {} /\ jForm.comment = None /\ ~jForm.journey /\ ~jForm.editing
        /\ jStore.comments = <<1, 2, 3>>
        /\ jList.rows \in Seq(Nat)
        /\ jList.cursor # None => jList.rows # <<>>
        /\ IsServed(jQuery.comments) => /\ jQuery.comments.answer.rows \in Seq(Nat)
                                        /\ jQuery.comments.answer.rows # <<>>
        /\ jMore # None => /\ jList.rows # <<>>
                           /\ jMore.reply # None => jMore.reply.rows \in Seq(Nat)

JourneyFetched ==
    (faults = 0 /\ ~jLeft) =>
        /\ ~Settling(jWrites, {"update"}) => Current(jQuery.journey, jStore.version)
        /\ (role # "owner" /\ ~jOverlap) =>
             /\ Writing(jWrites, {"follow"}) => jQuery.follow.data # None
             /\ ~Settling(jWrites, {"follow"}) => Current(jQuery.follow, jStore.owner)
        /\ ~jOverlap =>
             /\ ~Writing(jWrites, {"followPlayer"}) => jFollowing = jStore.player
             /\ \A w, v \in jWrites : w.op = "followPlayer" /\ v.op = "followPlayer" => w = v
             /\ \A w \in jWrites : w.op = "followPlayer" =>
                  IF w.at = "done" THEN jStore.player = w.arg ELSE jFollowing = jStore.player

JourneySound ==
    /\ DOMAIN jStore = {"version", "comments", "next", "texts", "owner", "player"}
    /\ jStore.version \in Nat /\ jStore.owner \in BOOLEAN
    /\ DOMAIN jQuery = Names /\ DOMAIN jForm = {"text", "comment", "journey", "editing"}
    /\ Fetches(jQuery.journey, Nat) /\ Fetches(jQuery.follow, BOOLEAN)
    /\ DOMAIN jQuery.comments = QueryField /\ jQuery.comments.req \in QueryState
    /\ jMore # None => DOMAIN jMore = {"after", "reply"}
    /\ \A w \in jWrites : /\ DOMAIN w = WriteField /\ w.op \in JourneyOp
                          /\ w.at \in {"sent", "done"}
                          /\ w.op = "follow" => w.arg \in BOOLEAN

JourneySaved == JourneySound /\ JourneyWaits /\ JourneyFetched


(* A part of a sequence. *)
LEMMA PartOfSequence ==
    ASSUME NEW S, NEW s \in Seq(S), NEW m \in Int, m >= 1, NEW n \in Int, n <= Len(s)
    PROVE  /\ SubSeq(s, m, n) \in Seq(S)
           /\ Len(SubSeq(s, m, n)) = IF m <= n THEN n - m + 1 ELSE 0
<1>1. \A i \in m .. n : s[i] \in S
  OBVIOUS
<1>. QED BY <1>1, SubSeqProperties

(* The first page of the comments of the start, and any later one. *)
LEMMA FirstComments ==
    ASSUME jStore.comments = <<1, 2, 3>>, NEW cursor
    PROVE  /\ GetComments(cursor).rows \in Seq(Nat)
           /\ cursor = None => GetComments(cursor).rows # <<>>
<1>. DEFINE comments == <<1, 2, 3>>
            before   == {i \in DOMAIN comments : cursor # None /\ comments[i] <= cursor}
            n        == Cardinality(before)
            rest     == After(cursor)
<1>1. comments \in Seq(Nat) /\ Len(comments) = 3 /\ before \in SUBSET (1 .. Len(comments))
  OBVIOUS
<1>2. rest = SubSeq(comments, n + 1, Len(comments))
  BY DEF After
<1>3. cursor = None => before = {}
  OBVIOUS
<1>. HIDE DEF comments, before, rest
<1>4. n \in Nat /\ n <= 3 /\ (cursor = None => n = 0)
  <2>1. IsFiniteSet(1 .. Len(comments)) /\ Cardinality(1 .. Len(comments)) = Len(comments)
    <3>. DEFINE m == Len(comments)
    <3>1. m \in Int /\ ~(1 > m) /\ m - 1 + 1 = m
      BY <1>1
    <3>. HIDE DEF m
    <3>2. IsFiniteSet(1 .. m) /\ Cardinality(1 .. m) = IF 1 > m THEN 0 ELSE m - 1 + 1
      BY <3>1, FS_Interval
    <3>. QED BY <3>1, <3>2 DEF m
  <2>2. IsFiniteSet(before) /\ n <= Len(comments)
    BY <1>1, <2>1, FS_Subset
  <2>3. n \in Nat /\ (cursor = None => n = 0)
    BY <1>3, <2>2, FS_CardinalityType, FS_EmptySet
  <2>. QED BY <1>1, <2>2, <2>3
<1>. HIDE DEF n
<1>5. rest \in Seq(Nat) /\ Len(rest) = 3 - n
  <2>1. n + 1 \in Int /\ n + 1 >= 1 /\ Len(comments) \in Int /\ Len(comments) <= Len(comments)
    BY <1>1, <1>4
  <2>2. /\ SubSeq(comments, n + 1, Len(comments)) \in Seq(Nat)
        /\ Len(SubSeq(comments, n + 1, Len(comments)))
             = IF n + 1 <= Len(comments) THEN Len(comments) - (n + 1) + 1 ELSE 0
    BY <1>1, <2>1, PartOfSequence
  <2>. QED BY <1>1, <1>2, <1>4, <2>2
<1>6. CASE Len(rest) > PageSize
  <2>. DEFINE part == SubSeq(rest, 1, PageSize)
  <2>1. part \in Seq(Nat) /\ Len(part) = PageSize
    BY <1>5, <1>6, ClientAssumption, PartOfSequence
  <2>2. GetComments(cursor).rows = part
    BY <1>6 DEF GetComments, rest
  <2>. HIDE DEF part
  <2>. QED BY <2>1, <2>2, ClientAssumption
<1>7. CASE ~(Len(rest) > PageSize)
  <2>1. GetComments(cursor).rows = rest
    BY <1>7 DEF GetComments, rest
  <2>. QED BY <1>4, <1>5, <2>1
<1>. QED BY <1>6, <1>7

(* A query of any data keeps its shape. *)
LEMMA ShapeStays ==
    ASSUME NEW q, DOMAIN q = QueryField, q.req \in QueryState, NEW value
    PROVE  /\ \A r \in {Refetched(q), Invalidated(q), Served(q, value), Arrived(q), Lost(q)} :
                DOMAIN r = QueryField /\ r.req \in QueryState
           /\ IsServed(Refetched(q)) => IsServed(q) /\ Refetched(q).answer = q.answer
           /\ Served(q, value).answer = value
           /\ ~IsServed(Arrived(q)) /\ ~IsServed(Lost(q))
BY DEF Refetched, Invalidated, Served, Arrived, Lost, IsServed, QueryField, QueryState

(* A step that neither sends a request nor gets an answer. *)
LEMMA JourneyRests ==
    ASSUME JourneySaved,
           UNCHANGED <<role, jStore, jQuery, jLists, jFollowing, jWrites, jLeft, jOverlap>>,
           DOMAIN jForm' = DOMAIN jForm, JourneyShown \/ jForm' = jForm,
           faults' = 0 => faults = 0
    PROVE  JourneySaved'
BY DEF JourneySaved, JourneySound, JourneyWaits, JourneyFetched, JourneyShown, jLists

(* A request is sent, by a click on what the page shows. *)
LEMMA JourneySends ==
    ASSUME JourneySaved, JourneyShown, NEW op \in JourneyOp, NEW arg,
           op = "follow" => arg \in BOOLEAN,
           jWrites' = jWrites \cup {Sent(op, arg)},
           UNCHANGED <<role, jStore, jQuery, jLists, jFollowing, jLeft, faults>>,
           DOMAIN jForm' = DOMAIN jForm,
           ~jOverlap' => /\ ~jOverlap
                         /\ op = "follow" => jQuery.follow.data # None
                         /\ op = "followPlayer" => ~Writing(jWrites, {"followPlayer"})
    PROVE  JourneySaved'
<1>1. JourneySound'
  BY SentIsWrite DEF JourneySaved, JourneySound, jLists
<1>2. JourneyWaits'
  BY DEF JourneyWaits, JourneyShown
<1>3. JourneyFetched'
  <2>. SUFFICES ASSUME faults = 0, ~jLeft PROVE JourneyFetched'
    BY DEF JourneyFetched
  <2>1. ~Settling(jWrites', {"update"}) => Current(jQuery.journey, jStore.version)
    BY WriteBegins DEF JourneySaved, JourneyFetched
  <2>2. (role # "owner" /\ ~jOverlap') =>
             /\ Writing(jWrites', {"follow"}) => jQuery.follow.data # None
             /\ ~Settling(jWrites', {"follow"}) => Current(jQuery.follow, jStore.owner)
    BY WriteBegins DEF JourneySaved, JourneyFetched
  <2>3. ASSUME ~jOverlap'
        PROVE  /\ ~Writing(jWrites', {"followPlayer"}) => jFollowing = jStore.player
               /\ \A w, v \in jWrites' : w.op = "followPlayer" /\ v.op = "followPlayer" => w = v
               /\ \A w \in jWrites' : w.op = "followPlayer" =>
                    IF w.at = "done" THEN jStore.player = w.arg ELSE jFollowing = jStore.player
    <3>1. CASE op = "followPlayer"
      BY <2>3, <3>1, SentIsWrite DEF JourneySaved, JourneyFetched, Writing
    <3>2. CASE op # "followPlayer"
      BY <2>3, <3>2, SentIsWrite DEF JourneySaved, JourneyFetched, Writing
    <3>. QED BY <3>1, <3>2
  <2>. QED BY <2>1, <2>2, <2>3 DEF JourneyFetched
<1>. QED BY <1>1, <1>2, <1>3 DEF JourneySaved

(* What is kept of a journey whose query, or the owner's, is fetched. *)
LEMMA JourneyFetches ==
    ASSUME JourneySaved, NEW name \in {"journey", "follow"}, NEW r, SetQuery(name, r),
           Fetching(jQuery[name], r, Answer(name)),
           UNCHANGED <<role, jStore, jLists, jForm, jFollowing, jWrites, jLeft, jOverlap, faults>>
    PROVE  JourneySaved'
<1>1. CASE name = "journey"
  <2>1. /\ jQuery'.journey = r /\ DOMAIN jQuery' = Names
        /\ jQuery'.follow = jQuery.follow /\ jQuery'.comments = jQuery.comments
    BY <1>1 DEF SetQuery, JourneySaved, JourneySound, Names
  <2>2. /\ Fetches(r, Nat)
        /\ Current(jQuery.journey, jStore.version) => Current(r, jStore.version)
        /\ jQuery.journey.data # None => r.data # None
    <3>1. Fetching(jQuery.journey, r, jStore.version)
      BY <1>1 DEF Answer
    <3>. QED BY <3>1, FetchingKeeps, ClientAssumption DEF JourneySaved, JourneySound
  <2>. QED BY <2>1, <2>2
       DEF JourneySaved, JourneySound, JourneyWaits, JourneyFetched, JourneyShown, jLists
<1>2. CASE name = "follow"
  <2>1. /\ jQuery'.follow = r /\ DOMAIN jQuery' = Names
        /\ jQuery'.journey = jQuery.journey /\ jQuery'.comments = jQuery.comments
    BY <1>2 DEF SetQuery, JourneySaved, JourneySound, Names
  <2>2. /\ Fetches(r, BOOLEAN)
        /\ Current(jQuery.follow, jStore.owner) => Current(r, jStore.owner)
        /\ jQuery.follow.data # None => r.data # None
    <3>1. Fetching(jQuery.follow, r, jStore.owner)
      BY <1>2 DEF Answer
    <3>. QED BY <3>1, FetchingKeeps, ClientAssumption DEF JourneySaved, JourneySound
  <2>. QED BY <2>1, <2>2
       DEF JourneySaved, JourneySound, JourneyWaits, JourneyFetched, JourneyShown, jLists
<1>. QED BY <1>1, <1>2

LEMMA JourneyLoses ==
    ASSUME JourneySaved, NEW name \in {"journey", "follow"}, SetQuery(name, Lost(jQuery[name])),
           UNCHANGED <<role, jStore, jLists, jForm, jFollowing, jWrites, jLeft, jOverlap>>,
           faults' # 0
    PROVE  JourneySaved'
<1>1. /\ Fetches(Lost(jQuery.journey), Nat) /\ Lost(jQuery.journey).data = jQuery.journey.data
      /\ Fetches(Lost(jQuery.follow), BOOLEAN)
  BY LosingKeeps DEF JourneySaved, JourneySound
<1>2. /\ jQuery'.journey \in {jQuery.journey, Lost(jQuery.journey)}
      /\ jQuery'.follow \in {jQuery.follow, Lost(jQuery.follow)}
      /\ jQuery'.comments = jQuery.comments /\ DOMAIN jQuery' = Names
  BY DEF SetQuery, JourneySaved, JourneySound, Names
<1>. QED BY <1>1, <1>2
     DEF JourneySaved, JourneySound, JourneyWaits, JourneyFetched, JourneyShown, jLists

(* The query of the comments moves, and its answer is copied over the list. *)
LEMMA CommentsFetched ==
    ASSUME JourneySaved, NEW r, SetQuery("comments", r),
           DOMAIN r = QueryField, r.req \in QueryState,
           IsServed(r) => \/ IsServed(jQuery.comments) /\ r.answer = jQuery.comments.answer
                          \/ r.answer = GetComments(None),
           jList' = jList \/ (IsServed(jQuery.comments) /\ jList' = jQuery.comments.answer),
           UNCHANGED <<role, jStore, jMore, jForm, jFollowing, jWrites, jLeft, jOverlap>>,
           faults' = 0 => faults = 0
    PROVE  JourneySaved'
<1>1. /\ jQuery'.journey = jQuery.journey /\ jQuery'.follow = jQuery.follow
      /\ jQuery'.comments = r /\ DOMAIN jQuery' = Names
  BY DEF SetQuery, JourneySaved, JourneySound, Names
<1>2. JourneySound' /\ JourneyFetched'
  BY <1>1 DEF JourneySaved, JourneySound, JourneyFetched
<1>3. JourneyWaits'
  BY <1>1, FirstComments DEF JourneySaved, JourneyWaits, JourneyShown
<1>. QED BY <1>2, <1>3 DEF JourneySaved

(* Once the page shows the journey, the comments are not waited for. *)
LEMMA JourneyLists ==
    ASSUME JourneySaved, JourneyShown,
           UNCHANGED <<role, jStore, jQuery, jForm, jFollowing, jWrites, jLeft, jOverlap>>,
           jMore' # None => DOMAIN jMore' = {"after", "reply"},
           faults' = 0 => faults = 0
    PROVE  JourneySaved'
BY DEF JourneySaved, JourneySound, JourneyWaits, JourneyFetched, JourneyShown

(* The server does what w asks for. *)
LEMMA JourneyServed ==
    ASSUME JourneySaved, NEW w \in jWrites, JourneyWrite(w)
    PROVE  JourneySaved'
<1>. DEFINE v == IF w.op = "post" THEN [Done(w) EXCEPT !.arg = jStore.next] ELSE Done(w)
<1>1. /\ w.at = "sent" /\ jStore' = Stored(w) /\ jWrites' = Replace(jWrites, w, v)
      /\ UNCHANGED <<role, jQuery, jForm, jFollowing, jLeft, jOverlap, faults, jLists>>
  BY DEF JourneyWrite, jUi, jHistory, budget
<1>2. DOMAIN w = WriteField /\ w.op \in JourneyOp /\ (w.op = "follow" => w.arg \in BOOLEAN)
  BY DEF JourneySaved, JourneySound
<1>3. /\ DOMAIN v = WriteField /\ v.op = w.op /\ v.at = "done"
      /\ w.op # "post" => v.arg = w.arg
  BY <1>2, DoneIsSame DEF WriteField
<1>. HIDE DEF v
<1>4. /\ DOMAIN jStore' = DOMAIN jStore
      /\ jStore'.version = IF w.op = "update" THEN jStore.version + 1 ELSE jStore.version
      /\ jStore'.owner = IF w.op = "follow" THEN w.arg ELSE jStore.owner
      /\ jStore'.player = IF w.op = "followPlayer" THEN w.arg ELSE jStore.player
  <2>. USE DEF Stored, JourneySaved, JourneySound, JourneyOp, OtherWrite
  <2>1. CASE w.op = "post"
    BY <1>1, <2>1
  <2>2. CASE w.op = "deleteComment"
    BY <1>1, <2>2
  <2>3. CASE w.op \in {"follow", "followPlayer"}
    BY <1>1, <2>3
  <2>4. CASE w.op \in {"update", "deleteJourney"}
    BY <1>1, <2>4
  <2>. QED BY <1>2, <2>1, <2>2, <2>3, <2>4
<1>5. JourneyShown
  BY DEF JourneySaved, JourneyWaits
<1>6. JourneySound'
  BY <1>1, <1>2, <1>3, <1>4 DEF JourneySaved, JourneySound, jLists, Replace
<1>7. JourneyWaits'
  BY <1>1, <1>5 DEF JourneyWaits, JourneyShown
<1>8. JourneyFetched'
  <2>. SUFFICES ASSUME faults = 0, ~jLeft PROVE JourneyFetched'
    BY <1>1 DEF JourneyFetched
  <2>1. ~Settling(jWrites', {"update"}) => Current(jQuery.journey, jStore'.version)
    BY <1>1, <1>3, <1>4, WriteIsServed DEF JourneySaved, JourneyFetched
  <2>2. (role # "owner" /\ ~jOverlap) =>
             /\ Writing(jWrites', {"follow"}) => jQuery.follow.data # None
             /\ ~Settling(jWrites', {"follow"}) => Current(jQuery.follow, jStore'.owner)
    BY <1>1, <1>3, <1>4, WriteIsServed DEF JourneySaved, JourneyFetched
  <2>3. ASSUME ~jOverlap
        PROVE  /\ ~Writing(jWrites', {"followPlayer"}) => jFollowing = jStore'.player
               /\ \A x, y \in jWrites' : x.op = "followPlayer" /\ y.op = "followPlayer" => x = y
               /\ \A x \in jWrites' : x.op = "followPlayer" =>
                    IF x.at = "done" THEN jStore'.player = x.arg ELSE jFollowing = jStore'.player
    <3>1. CASE w.op = "followPlayer"
      BY <1>1, <1>3, <1>4, <2>3, <3>1 DEF JourneySaved, JourneyFetched, Writing, Replace
    <3>2. CASE w.op # "followPlayer"
      <4>1. \A x \in jWrites' : x.op = "followPlayer" => x \in jWrites
        BY <1>1, <1>3, <3>2 DEF Replace
      <4>2. Writing(jWrites, {"followPlayer"}) => Writing(jWrites', {"followPlayer"})
        BY <1>1, <1>3, WriteIsServed
      <4>. QED BY <1>4, <2>3, <3>2, <4>1, <4>2 DEF JourneySaved, JourneyFetched
    <3>. QED BY <3>1, <3>2
  <2>. QED BY <1>1, <2>1, <2>2, <2>3 DEF JourneyFetched
<1>. QED BY <1>6, <1>7, <1>8 DEF JourneySaved

(* Its answer comes: the queries it concerns are asked again. *)
LEMMA JourneyAnswered ==
    ASSUME JourneySaved, ~jLeft, NEW w \in jWrites, JourneyWritten(w)
    PROVE  JourneySaved'
<1>1. /\ w.at = "done" /\ jWrites' = jWrites \ {w}
      /\ jQuery' = InvalidatedBy(w) /\ DOMAIN jForm' = DOMAIN jForm
      /\ jFollowing' = IF w.op = "followPlayer" THEN w.arg ELSE jFollowing
      /\ UNCHANGED <<role, jStore, jMore, jOverlap, faults>>
  BY DEF JourneyWritten, jHistory, budget
<1>2. /\ DOMAIN jQuery' = Names
      /\ jQuery'.journey = IF w.op = "update" THEN Invalidated(jQuery.journey) ELSE jQuery.journey
      /\ jQuery'.follow = IF w.op = "follow" THEN Invalidated(jQuery.follow) ELSE jQuery.follow
      /\ jQuery'.comments \in {jQuery.comments, Invalidated(jQuery.comments)}
  BY <1>1 DEF InvalidatedBy, JourneySaved, JourneySound, Names
<1>3. /\ Fetches(Invalidated(jQuery.journey), Nat)
      /\ Invalidated(jQuery.journey).data = jQuery.journey.data
      /\ Fetches(Invalidated(jQuery.follow), BOOLEAN)
      /\ Invalidated(jQuery.follow).data = jQuery.follow.data
  BY InvalidatingAsks DEF JourneySaved, JourneySound
<1>4. JourneyShown
  BY DEF JourneySaved, JourneyWaits
<1>5. JourneySound'
  BY <1>1, <1>2, <1>3, ShapeStays DEF JourneySaved, JourneySound
<1>6. JourneyWaits'
  BY <1>2, <1>3, <1>4 DEF JourneyWaits, JourneyShown
<1>7. JourneyFetched'
  <2>. SUFFICES ASSUME faults = 0 PROVE JourneyFetched'
    BY <1>1 DEF JourneyFetched
  <2>1. ~Settling(jWrites', {"update"}) => Current(jQuery'.journey, jStore.version)
    <3>1. CASE w.op = "update"
      BY <1>2, <1>4, <3>1, InvalidatingAsks DEF JourneySaved, JourneySound, JourneyShown
    <3>2. CASE w.op # "update"
      BY <1>1, <1>2, <3>2, WriteIsOver DEF JourneySaved, JourneyFetched
    <3>. QED BY <3>1, <3>2
  <2>2. ASSUME role # "owner", ~jOverlap
        PROVE  /\ Writing(jWrites', {"follow"}) => jQuery'.follow.data # None
               /\ ~Settling(jWrites', {"follow"}) => Current(jQuery'.follow, jStore.owner)
    <3>1. CASE w.op = "follow"
      <4>1. jQuery.follow.data # None
        BY <2>2, <3>1 DEF JourneySaved, JourneyFetched, Writing
      <4>. QED BY <1>2, <1>3, <3>1, <4>1, InvalidatingAsks DEF JourneySaved, JourneySound
    <3>2. CASE w.op # "follow"
      BY <1>1, <1>2, <2>2, <3>2, WriteIsOver DEF JourneySaved, JourneyFetched
    <3>. QED BY <3>1, <3>2
  <2>3. ASSUME ~jOverlap
        PROVE  /\ ~Writing(jWrites', {"followPlayer"}) => jFollowing' = jStore.player
               /\ \A x, y \in jWrites' : x.op = "followPlayer" /\ y.op = "followPlayer" => x = y
               /\ \A x \in jWrites' : x.op = "followPlayer" =>
                    IF x.at = "done" THEN jStore.player = x.arg ELSE jFollowing' = jStore.player
    BY <1>1, <2>3 DEF JourneySaved, JourneyFetched, Writing
  <2>. QED BY <1>1, <2>1, <2>2, <2>3 DEF JourneyFetched
<1>. QED BY <1>5, <1>6, <1>7 DEF JourneySaved

(* No step of the journey's page makes it show anything else. *)
LEMMA JourneyKeeps ==
    ASSUME JourneySaved, BudgetKept, JourneyNext
    PROVE  JourneySaved'
<1>. USE DEF jLists, jUi, jHistory
<1>1. Fault => faults' # 0
  BY ClientAssumption DEF Fault, BudgetKept
<1>2. UNCHANGED budget \/ Click => faults' = faults
  BY DEF budget, Click
<1>3. DOMAIN jForm = {"text", "comment", "journey", "editing"}
  BY DEF JourneySaved, JourneySound
<1>4. ASSUME NEW name \in Names,
             JourneyRefetch(name) \/ JourneyServe(name) \/ JourneyArrive(name)
      PROVE  JourneySaved'
  <2>1. UNCHANGED <<role, jStore, jMore, jForm, jFollowing, jWrites, jLeft, jOverlap, faults>>
    BY <1>4 DEF JourneyRefetch, JourneyServe, JourneyArrive, budget
  <2>2. PICK r : SetQuery(name, r) /\ Fetching(jQuery[name], r, Answer(name))
    BY <1>4 DEF JourneyRefetch, JourneyServe, JourneyArrive, Fetching
  <2>3. \/ jList' = jList
        \/ name = "comments" /\ IsServed(jQuery.comments) /\ jList' = jQuery.comments.answer
    BY <1>4 DEF JourneyRefetch, JourneyServe, JourneyArrive
  <2>4. CASE name = "comments"
    <3>1. DOMAIN jQuery.comments = QueryField /\ jQuery.comments.req \in QueryState
      BY DEF JourneySaved, JourneySound
    <3>2. /\ DOMAIN r = QueryField /\ r.req \in QueryState
          /\ IsServed(r) => \/ IsServed(jQuery.comments) /\ r.answer = jQuery.comments.answer
                            \/ r.answer = GetComments(None)
      BY <2>2, <2>4, <3>1, ShapeStays DEF Fetching, Answer
    <3>. QED BY <2>1, <2>2, <2>3, <2>4, <3>2, CommentsFetched
  <2>5. CASE name \in {"journey", "follow"}
    BY <2>1, <2>2, <2>3, <2>5, JourneyFetches
  <2>. QED BY <2>4, <2>5 DEF Names
<1>5. ASSUME NEW name \in Names, JourneyQueryFails(name)
      PROVE  JourneySaved'
  <2>1. /\ SetQuery(name, Lost(jQuery[name])) /\ faults' # 0
        /\ UNCHANGED <<role, jStore, jList, jMore, jForm, jFollowing, jWrites, jLeft, jOverlap>>
    BY <1>1, <1>5 DEF JourneyQueryFails
  <2>2. CASE name = "comments"
    <3>1. /\ DOMAIN Lost(jQuery.comments) = QueryField
          /\ Lost(jQuery.comments).req \in QueryState /\ ~IsServed(Lost(jQuery.comments))
      BY ShapeStays DEF JourneySaved, JourneySound
    <3>. QED BY <2>1, <2>2, <3>1, CommentsFetched
  <2>3. CASE name \in {"journey", "follow"}
    BY <2>1, <2>3, JourneyLoses
  <2>. QED BY <2>2, <2>3 DEF Names
<1>6. CASE LoadMoreComments \/ ServeMoreComments \/ MoreCommentsArrive \/ MoreCommentsFail
  <2>1. /\ UNCHANGED <<role, jStore, jQuery, jForm, jFollowing, jWrites, jLeft, jOverlap>>
        /\ faults' = 0 => faults = 0
    BY <1>1, <1>2, <1>6 DEF LoadMoreComments, ServeMoreComments, MoreCommentsArrive, MoreCommentsFail
  <2>2. jMore' # None => DOMAIN jMore' = {"after", "reply"}
    BY <1>6 DEF LoadMoreComments, ServeMoreComments, MoreCommentsArrive, MoreCommentsFail,
                JourneySaved, JourneySound
  <2>3. CASE JourneyShown
    BY <2>1, <2>2, <2>3, JourneyLists
  <2>4. CASE ~JourneyShown
    <3>1. JourneyWaits'
      <4>1. CASE LoadMoreComments
        BY <2>1, <2>4, <4>1 DEF LoadMoreComments, JourneySaved, JourneyWaits, JourneyShown
      <4>2. CASE ServeMoreComments
        <5>1. /\ jMore # None /\ jMore'.reply = GetComments(jMore.after) /\ jList' = jList
          BY <4>2 DEF ServeMoreComments, JourneySaved, JourneySound
        <5>. QED BY <2>1, <2>4, <5>1, FirstComments DEF JourneySaved, JourneyWaits, JourneyShown
      <4>3. CASE MoreCommentsArrive
        <5>1. /\ jList'.rows = jList.rows \o jMore.reply.rows /\ jMore' = None
              /\ jMore # None /\ jMore.reply # None
          BY <4>3 DEF MoreCommentsArrive
        <5>. DEFINE rows == jList.rows  reply == jMore.reply.rows
        <5>2. rows \in Seq(Nat) /\ rows # <<>> /\ reply \in Seq(Nat)
          BY <2>4, <5>1 DEF JourneySaved, JourneyWaits
        <5>. HIDE DEF rows, reply
        <5>3. rows \o reply \in Seq(Nat) /\ rows \o reply # <<>>
          BY <5>2
        <5>4. jList'.rows \in Seq(Nat) /\ jList'.rows # <<>>
          BY <5>1, <5>3 DEF rows, reply
        <5>. QED BY <2>1, <2>4, <5>1, <5>4 DEF JourneySaved, JourneyWaits, JourneyShown
      <4>4. CASE MoreCommentsFail
        BY <2>1, <2>4, <4>4 DEF MoreCommentsFail, JourneySaved, JourneyWaits, JourneyShown
      <4>. QED BY <1>6, <4>1, <4>2, <4>3, <4>4
    <3>2. JourneySound' /\ JourneyFetched'
      BY <2>1, <2>2 DEF JourneySaved, JourneySound, JourneyFetched
    <3>. QED BY <3>1, <3>2 DEF JourneySaved
  <2>. QED BY <2>3, <2>4
<1>7. CASE TypeComment \/ ConfirmJourney \/ EditJourney \/ CooldownTick
           \/ \E c \in {1, 4, None} : ConfirmComment(c)
  <2>1. /\ UNCHANGED <<role, jStore, jQuery, jLists, jFollowing, jWrites, jLeft, jOverlap>>
        /\ DOMAIN jForm' = DOMAIN jForm /\ faults' = faults
    BY <1>2, <1>7 DEF TypeComment, ConfirmJourney, EditJourney, ConfirmComment, CooldownTick
  <2>2. JourneyShown \/ jForm' = jForm
    BY <1>7 DEF TypeComment, ConfirmJourney, EditJourney, ConfirmComment, CooldownTick
  <2>. HIDE DEF jLists
  <2>. QED BY <2>1, <2>2, JourneyRests
<1>8. CASE PostComment \/ DeleteComment \/ DeleteJourney \/ SaveJourney
  <2>1. JourneyShown
    BY <1>8 DEF PostComment, DeleteComment, DeleteJourney, SaveJourney, JourneySaved, JourneyWaits
  <2>2. /\ UNCHANGED <<role, jStore, jQuery, jLists, jFollowing, jLeft, jOverlap, faults>>
        /\ DOMAIN jForm' = DOMAIN jForm
    BY <1>2, <1>8 DEF PostComment, DeleteComment, DeleteJourney, SaveJourney
  <2>3. PICK op \in {"post", "deleteComment", "deleteJourney", "update"}, arg \in {jForm.text, jForm.comment, None} :
          jWrites' = jWrites \cup {Sent(op, arg)}
    BY <1>8 DEF PostComment, DeleteComment, DeleteJourney, SaveJourney, Send
  <2>. HIDE DEF jLists
  <2>. QED BY <2>1, <2>2, <2>3, JourneySends DEF JourneyOp, OtherWrite
<1>9. CASE FollowOwner
  <2>. DEFINE arg == jQuery.follow.data # TRUE
  <2>1. /\ UNCHANGED <<role, jStore, jQuery, jLists, jFollowing, jLeft, jForm, faults>>
        /\ jWrites' = jWrites \cup {Sent("follow", arg)} /\ JourneyShown
        /\ ~jOverlap' => ~jOverlap /\ jQuery.follow.data # None
    BY <1>2, <1>9 DEF FollowOwner, Send
  <2>2. arg \in BOOLEAN
    OBVIOUS
  <2>. HIDE DEF jLists, arg
  <2>. QED BY <2>1, <2>2, JourneySends DEF JourneyOp, OtherWrite
<1>10. CASE FollowPlayer
  <2>. DEFINE arg == ~jFollowing
  <2>1. /\ UNCHANGED <<role, jStore, jQuery, jLists, jFollowing, jLeft, jForm, faults>>
        /\ jWrites' = jWrites \cup {Sent("followPlayer", arg)} /\ JourneyShown
        /\ ~jOverlap' => ~jOverlap /\ ~Writing(jWrites, {"followPlayer"})
    BY <1>2, <1>10 DEF FollowPlayer, Send, Pending, Writing
  <2>. HIDE DEF jLists, arg
  <2>. QED BY <2>1, JourneySends DEF JourneyOp, OtherWrite
<1>11. ASSUME NEW w \in jWrites,
              JourneyWriteFails(w) \/ \E s \in {0, 1} : TooManyComments(w, s)
       PROVE  JourneySaved'
  <2>1. /\ UNCHANGED <<role, jStore, jQuery, jList, jMore, jForm, jFollowing, jLeft>>
        /\ jWrites' = jWrites \ {w} /\ faults' # 0
    BY <1>1, <1>11 DEF JourneyWriteFails, TooManyComments
  <2>2. JourneyShown
    BY DEF JourneySaved, JourneyWaits
  <2>. QED BY <2>1, <2>2
       DEF JourneySaved, JourneySound, JourneyWaits, JourneyFetched, JourneyShown
<1>. QED
  BY <1>4, <1>5, <1>6, <1>7, <1>8, <1>9, <1>10, <1>11, JourneyServed, JourneyAnswered
  DEF JourneyNext

--------------------------------------------------------------------------------
BacklogSound ==
    /\ bStore \in Seq(Game) /\ Fetches(bQuery, Seq(Game))
    /\ \A w \in bWrites : /\ DOMAIN w = WriteField /\ w.op \in {"add", "remove", "reorder"}
                          /\ w.at \in {"sent", "done", "refused"}
                          /\ w.op \in {"add", "remove"} => w.arg \in Game
                          /\ w.op = "reorder" => w.arg \in Seq(Game)
                          /\ w.at = "refused" => w.op = "reorder"
    /\ bRemoving # None => \E w \in bWrites : w.op = "remove" /\ w.arg = bRemoving

(* A reorder is alone, and shown already. *)
Reordering(w) ==
    /\ bWrites = {w} /\ w.op = "reorder"
    /\ ~InFlight(bQuery) /\ bQuery.data = w.arg
    /\ w.at = "done" => bStore = w.arg

BacklogFetched ==
    ~bRaced =>
        /\ bWrites # {} => bQuery.data # None
        /\ IF Writing(bWrites, {"reorder"}) THEN \E w \in bWrites : Reordering(w)
           ELSE ~Settling(bWrites, {"add", "remove"}) => Current(bQuery, bStore)

BacklogSaved == BacklogSound /\ BacklogFetched


(* A list of games from which one is taken, or in which one is moved. *)
LEMMA RemovingStays ==
    ASSUME NEW S, NEW s \in Seq(S), NEW i \in DOMAIN s
    PROVE  Seqs!RemoveAt(s, i) \in Seq(S) /\ Len(Seqs!RemoveAt(s, i)) = Len(s) - 1
<1>. DEFINE front == SubSeq(s, 1, i - 1)
            back  == SubSeq(s, i + 1, Len(s))
<1>1. i \in 1 .. Len(s) /\ Len(s) \in Nat
  OBVIOUS
<1>2. front \in Seq(S) /\ Len(front) = i - 1
  BY <1>1, PartOfSequence
<1>3. back \in Seq(S) /\ Len(back) = Len(s) - i
  BY <1>1, PartOfSequence
<1>4. Seqs!RemoveAt(s, i) = front \o back
  BY DEF Seqs!RemoveAt
<1>. HIDE DEF front, back
<1>. QED BY <1>1, <1>2, <1>3, <1>4

LEMMA MovingStays ==
    ASSUME NEW S, NEW s \in Seq(S), NEW i \in DOMAIN s, NEW j \in DOMAIN s
    PROVE  Moved(s, i, j) \in Seq(S)
<1>. DEFINE t     == Seqs!RemoveAt(s, i)
            front == SubSeq(t, 1, j - 1)
            one   == <<s[i]>>
            back  == SubSeq(t, j, Len(t))
<1>1. /\ t \in Seq(S) /\ Len(t) = Len(s) - 1
      /\ j \in 1 .. Len(s) /\ Len(s) \in Nat /\ one \in Seq(S)
  BY RemovingStays
<1>2. Moved(s, i, j) = front \o one \o back
  BY DEF Moved, Seqs!InsertAt
<1>. HIDE DEF t, one
<1>3. front \in Seq(S) /\ back \in Seq(S)
  BY <1>1, PartOfSequence
<1>. HIDE DEF front, back
<1>. QED BY <1>1, <1>2, <1>3

LEMMA WithoutStays ==
    ASSUME NEW S, NEW s \in Seq(S), NEW g
    PROVE  Without(s, g) \in Seq(S)
<1>1. CASE g \in Listed(s)
  <2>. DEFINE i == CHOOSE i \in DOMAIN s : s[i] = g
  <2>1. i \in DOMAIN s
    BY <1>1 DEF Listed
  <2>2. Without(s, g) = Seqs!RemoveAt(s, i)
    BY <1>1 DEF Without
  <2>. HIDE DEF i
  <2>. QED BY <2>1, <2>2, RemovingStays
<1>. QED BY <1>1 DEF Without

LEMMA AppliedStays ==
    ASSUME BacklogSound, NEW w \in bWrites
    PROVE  Applied(w) \in Seq(Game)
<1>1. CASE w.op = "add"
  BY <1>1 DEF Applied, BacklogSound
<1>2. CASE w.op = "remove"
  BY <1>2, WithoutStays DEF Applied, BacklogSound
<1>3. CASE w.op = "reorder"
  BY <1>3 DEF Applied, BacklogSound
<1>. QED BY <1>1, <1>2, <1>3 DEF BacklogSound

(* A step of the query, without a reorder under way. *)
LEMMA BacklogFetches ==
    ASSUME BacklogSaved, Fetching(bQuery, bQuery', bStore),
           UNCHANGED <<bStore, bWrites, bRemoving>>,
           ~bRaced' => ~bRaced /\ (Writing(bWrites, {"reorder"}) => InFlight(bQuery))
    PROVE  BacklogSaved'
<1>1. /\ Fetches(bQuery', Seq(Game))
      /\ Current(bQuery, bStore) => Current(bQuery', bStore)
      /\ bQuery.data # None => bQuery'.data # None
  BY FetchingKeeps, BacklogAssumption DEF BacklogSaved, BacklogSound
<1>2. BacklogSound'
  BY <1>1 DEF BacklogSaved, BacklogSound
<1>3. ~bRaced' => ~Writing(bWrites, {"reorder"})
  BY DEF BacklogSaved, BacklogFetched, Reordering
<1>. QED BY <1>1, <1>2, <1>3 DEF BacklogSaved, BacklogFetched

(* An addition or a removal is sent. *)
LEMMA BacklogSends ==
    ASSUME BacklogSaved, NEW op \in {"add", "remove"}, NEW g \in Game, SendBacklog(op, g),
           UNCHANGED <<bStore, bQuery>>,
           bRemoving' = IF op = "remove" THEN g ELSE bRemoving
    PROVE  BacklogSaved'
<1>1. bWrites' = bWrites \cup {Sent(op, g)}
  BY DEF SendBacklog
<1>2. ~bRaced' => ~bRaced /\ ~Writing(bWrites, {"reorder"}) /\ bQuery.data # None
  BY DEF SendBacklog, Pending, Writing
<1>3. BacklogSound'
  BY <1>1, SentIsWrite DEF BacklogSaved, BacklogSound
<1>4. /\ ~Writing(bWrites, {"reorder"}) => ~Writing(bWrites', {"reorder"})
      /\ Settling(bWrites', {"add", "remove"}) <=> Settling(bWrites, {"add", "remove"})
  BY <1>1, WriteBegins
<1>. QED BY <1>2, <1>3, <1>4 DEF BacklogSaved, BacklogFetched

(* The server has answered w, or the answer is lost: a reorder that was not    *)
(* done, and what else was, is fetched again.                                *)
LEMMA BacklogSettles ==
    ASSUME BacklogSaved, NEW w \in bWrites, Settle(w), UNCHANGED bStore,
           ~bRaced' => /\ ~bRaced
                       /\ \/ bQuery' = Invalidated(bQuery)
                          \/ w.op = "reorder" /\ w.at = "done" /\ bQuery' = bQuery,
           bQuery' \in {bQuery, Invalidated(bQuery)}
    PROVE  BacklogSaved'
<1>1. /\ Fetches(Invalidated(bQuery), Seq(Game))
      /\ Invalidated(bQuery).data = bQuery.data
  BY InvalidatingAsks DEF BacklogSaved, BacklogSound
<1>2. BacklogSound'
  BY <1>1 DEF BacklogSaved, BacklogSound, Settle
<1>3. BacklogFetched'
  <2>. SUFFICES ASSUME ~bRaced' PROVE BacklogFetched'
    BY DEF BacklogFetched
  <2>1. bWrites' = bWrites \ {w} /\ bQuery.data # None /\ bQuery'.data # None
    BY <1>1 DEF Settle, BacklogSaved, BacklogFetched
  <2>2. ~Writing(bWrites', {"reorder"})
    BY <2>1 DEF BacklogSaved, BacklogFetched, Writing, Reordering
  <2>3. Current(bQuery', bStore)
    <3>1. CASE bQuery' = Invalidated(bQuery)
      BY <2>1, <3>1, InvalidatingAsks DEF BacklogSaved, BacklogSound
    <3>2. CASE w.op = "reorder" /\ w.at = "done" /\ bQuery' = bQuery
      BY <3>2 DEF BacklogSaved, BacklogFetched, Reordering, Writing, Current, IsServed, InFlight
    <3>. QED BY <3>1, <3>2
  <2>. QED BY <2>1, <2>2, <2>3 DEF BacklogFetched
<1>. QED BY <1>2, <1>3 DEF BacklogSaved

LEMMA BacklogServed ==
    ASSUME BacklogSaved, NEW w \in bWrites, BacklogWrite(w)
    PROVE  BacklogSaved'
<1>0. PICK v : v = IF Mismatch(w) THEN [w EXCEPT !.at = "refused"] ELSE Done(w)
  OBVIOUS
<1>1. /\ w.at = "sent" /\ bStore' = Applied(w) /\ bWrites' = Replace(bWrites, w, v)
      /\ UNCHANGED <<bQuery, bRemoving, bRaced>>
  BY <1>0 DEF BacklogWrite
<1>2. DOMAIN w = WriteField /\ w.op \in {"add", "remove", "reorder"}
  BY DEF BacklogSaved, BacklogSound
<1>3. /\ DOMAIN v = WriteField /\ v.op = w.op /\ v.arg = w.arg
      /\ v.at = IF Mismatch(w) THEN "refused" ELSE "done"
      /\ Mismatch(w) => w.op = "reorder"
  BY <1>0, <1>2, DoneIsSame DEF WriteField, Mismatch
<1>4. BacklogSound'
  BY <1>1, <1>2, <1>3, AppliedStays DEF BacklogSaved, BacklogSound, Replace
<1>5. BacklogFetched'
  <2>. SUFFICES ASSUME ~bRaced PROVE BacklogFetched'
    BY <1>1 DEF BacklogFetched
  <2>1. bQuery.data # None
    BY DEF BacklogSaved, BacklogFetched
  <2>2. CASE w.op = "reorder"
    <3>1. Reordering(w)
      BY <2>2 DEF BacklogSaved, BacklogFetched, Reordering, Writing
    <3>2. bWrites' = {v}
      BY <1>1, <3>1 DEF Reordering, Replace
    <3>3. v.at = "done" => bStore' = w.arg
      BY <1>1, <1>3, <2>2 DEF Applied, Mismatch
    <3>4. Reordering(v)'
      BY <1>1, <1>3, <3>1, <3>2, <3>3 DEF Reordering
    <3>. QED BY <1>1, <1>3, <2>1, <2>2, <3>2, <3>4 DEF BacklogFetched, Writing
  <2>3. CASE w.op # "reorder"
    <3>1. ~Writing(bWrites, {"reorder"})
      BY <2>3 DEF BacklogSaved, BacklogFetched, Reordering, Writing
    <3>2. ~Writing(bWrites', {"reorder"}) /\ Settling(bWrites', {"add", "remove"})
      BY <1>1, <1>2, <1>3, <2>3, <3>1, WriteIsServed
    <3>. QED BY <1>1, <2>1, <3>2 DEF BacklogFetched
  <2>. QED BY <2>2, <2>3
<1>. QED BY <1>4, <1>5 DEF BacklogSaved

LEMMA BacklogRests ==
    ASSUME BacklogSaved, UNCHANGED <<bStore, bQuery, bWrites, bRemoving, bRaced>>
    PROVE  BacklogSaved'
BY DEF BacklogSaved, BacklogSound, BacklogFetched, Reordering

LEMMA BacklogKeeps ==
    ASSUME BacklogSaved, BacklogNext
    PROVE  BacklogSaved'
<1>1. CASE BacklogRefetch \/ BacklogServe \/ BacklogArrive
  <2>1. Fetching(bQuery, bQuery', bStore) /\ UNCHANGED <<bStore, bWrites, bRemoving>>
    BY <1>1 DEF BacklogRefetch, BacklogServe, BacklogArrive, Fetching
  <2>2. ~bRaced' => ~bRaced /\ (Writing(bWrites, {"reorder"}) => InFlight(bQuery))
    BY <1>1 DEF BacklogRefetch, BacklogServe, BacklogArrive, Writing, Pending, IsAsked, IsServed, InFlight
  <2>. QED BY <2>1, <2>2, BacklogFetches
<1>2. CASE BacklogQueryFails
  <2>1. /\ bQuery' = Lost(bQuery) /\ bRaced' = TRUE
        /\ UNCHANGED <<bStore, bWrites, bRemoving>>
    BY <1>2 DEF BacklogQueryFails
  <2>. QED BY <2>1, LosingKeeps DEF BacklogSaved, BacklogSound, BacklogFetched
<1>3. ASSUME NEW g \in Game, AddGame(g)
      PROVE  BacklogSaved'
  BY <1>3, BacklogSends DEF AddGame
<1>4. ASSUME NEW g \in Game, RemoveGame(g)
      PROVE  BacklogSaved'
  BY <1>4, BacklogSends DEF RemoveGame
<1>5. ASSUME NEW g \in Game, SecondTab(g)
      PROVE  BacklogSaved'
  <2>1. /\ UNCHANGED <<bQuery, bWrites, bRemoving>>
        /\ ~bRaced' => ~bRaced /\ \E w \in bWrites : w.op = "reorder" /\ w.at = "sent"
    BY <1>5 DEF SecondTab
  <2>2. bStore' \in Seq(Game)
    BY <1>5, WithoutStays DEF SecondTab, BacklogSaved, BacklogSound
  <2>3. BacklogSound'
    BY <2>1, <2>2 DEF BacklogSaved, BacklogSound
  <2>4. BacklogFetched'
    BY <2>1 DEF BacklogSaved, BacklogFetched, Reordering, Writing
  <2>. QED BY <2>3, <2>4 DEF BacklogSaved
<1>6. ASSUME NEW i \in DOMAIN Entries, NEW j \in DOMAIN Entries, Drag(i, j)
      PROVE  BacklogSaved'
  <2>0. PICK order : order = Moved(Entries, i, j)
    OBVIOUS
  <2>1. /\ bQuery' = Written(bQuery, order) /\ SendBacklog("reorder", order)
        /\ UNCHANGED <<bStore, bRemoving>>
    BY <1>6, <2>0 DEF Drag
  <2>2. order \in Seq(Game)
    <3>1. Entries \in Seq(Game)
      BY DEF Entries, BacklogSaved, BacklogSound, Fetches
    <3>. QED BY <2>0, <3>1, MovingStays
  <2>3. Fetches(bQuery', Seq(Game)) /\ bQuery'.data = order
        /\ (~InFlight(bQuery) => ~InFlight(bQuery'))
    BY <2>1, <2>2 DEF Written, BacklogSaved, BacklogSound, Fetches, IsServed, InFlight, QueryField
  <2>4. bWrites' = bWrites \cup {Sent("reorder", order)}
    BY <2>1 DEF SendBacklog
  <2>5. BacklogSound'
    BY <2>1, <2>2, <2>3, <2>4, SentIsWrite DEF BacklogSaved, BacklogSound
  <2>6. BacklogFetched'
    <3>. SUFFICES ASSUME ~bRaced' PROVE BacklogFetched'
      BY DEF BacklogFetched
    <3>1. bWrites = {} /\ ~InFlight(bQuery)
      BY <2>1 DEF SendBacklog
    <3>2. bWrites' = {Sent("reorder", order)}
      BY <2>4, <3>1
    <3>3. Reordering(Sent("reorder", order))'
      BY <2>3, <3>1, <3>2, SentIsWrite DEF Reordering
    <3>. QED BY <2>2, <2>3, <3>2, <3>3, SentIsWrite, BacklogAssumption
         DEF BacklogFetched, Writing
  <2>. QED BY <2>5, <2>6 DEF BacklogSaved
<1>7. ASSUME NEW w \in bWrites, BacklogWritten(w)
      PROVE  BacklogSaved'
  BY <1>7, BacklogSettles DEF BacklogWritten
<1>8. ASSUME NEW w \in bWrites, BacklogRefused(w) \/ BacklogWriteFails(w)
      PROVE  BacklogSaved'
  <2>1. /\ Settle(w) /\ UNCHANGED bStore /\ bQuery' = OnError(w)
        /\ ~bRaced' => ~bRaced /\ w.op = "reorder"
    <3>1. CASE BacklogRefused(w)
      BY <3>1 DEF BacklogRefused, BacklogSaved, BacklogSound
    <3>2. CASE BacklogWriteFails(w)
      BY <3>2 DEF BacklogWriteFails
    <3>. QED BY <1>8, <3>1, <3>2
  <2>. QED BY <2>1, BacklogSettles DEF OnError
<1>9. CASE ChooseFilter \/ OpenRoll \/ RollAgain \/ CloseRoll
           \/ \E i \in DOMAIN ShownOf(Entries) : RollTick(i)
  BY <1>9, BacklogRests DEF ChooseFilter, OpenRoll, RollAgain, CloseRoll, RollTick
<1>. QED
  BY <1>1, <1>2, <1>3, <1>4, <1>5, <1>6, <1>7, <1>8, <1>9, BacklogServed DEF BacklogNext

--------------------------------------------------------------------------------
RowOps == {"remove", "add", "hint"}

SectionOps == CASE section = "preferences" -> {"preferences"}
                [] section \in Lists -> RowOps
                [] OTHER -> {"signOut", "delete"}

Preference == [Switch -> BOOLEAN]
SettingsRow == [Exe -> Nat]

SettingsSound ==
    /\ section \in Lists \cup {"preferences", "account"}
    /\ DOMAIN sStore = {"preferences", "rows", "account"}
    /\ sStore.preferences \in Preference /\ sStore.rows \in SettingsRow
    /\ sStore.account \in {"there", "gone"}
    /\ sWanted \in Preference
    /\ DOMAIN sQuery = SettingsQueries
    /\ Fetches(sQuery.me, Preference) /\ Fetches(sQuery.list, SettingsRow)
    /\ \A w \in sWrites : /\ DOMAIN w = WriteField /\ w.op \in SectionOps
                          /\ w.at \in {"sent", "done"}
                          /\ w.op = "preferences" => w.arg \in Preference
                          /\ w.op = "hint" => w.arg[2] \in Nat
    /\ sWrites # {} => sQuery.me.data # None
    /\ DOMAIN sForm = {"confirming", "editing", "typed", "leaving", "deleting", "sure"}
    /\ sForm.sure => sForm.deleting
    /\ sForm.confirming # 0 => section \in Lists
    /\ sForm.editing # 0 => section = "hints"
    /\ (sForm.leaving \/ sForm.deleting) => section = "account"

MeFetched ==
    ~Settling(sWrites, {"preferences"}) => Current(sQuery.me, sStore.preferences)

(* One click on a switch at a time. *)
SwitchesWanted ==
    (section = "preferences" /\ ~sOverlap) =>
        \/ sWrites = {} /\ sWanted = sStore.preferences
        \/ \E w \in sWrites : /\ sWrites = {w} /\ w.arg = sWanted
                              /\ w.at = "done" => sStore.preferences = w.arg

ListFetched ==
    (section \in Lists /\ ~sOverlap) =>
        /\ sWrites # {} => sQuery.list.data # None
        /\ ~Settling(sWrites, RowOps) => Current(sQuery.list, sStore.rows)

SettingsFetched ==
    (faults = 0 /\ sStore.account = "there") => MeFetched /\ SwitchesWanted /\ ListFetched

SettingsSaved == SettingsSound /\ SettingsFetched


(* What the server keeps is fit to be shown. *)
LEMMA SettingsSetStay ==
    ASSUME SettingsSound, NEW w \in sWrites
    PROVE  /\ DOMAIN Set(w) = DOMAIN sStore
           /\ Set(w).preferences \in Preference /\ Set(w).rows \in SettingsRow
           /\ Set(w).account \in {"there", "gone"}
           /\ Set(w).account = "there" => sStore.account = "there" \/ w.op # "delete"
           /\ w.op # "preferences" => Set(w).preferences = sStore.preferences
           /\ w.op = "preferences" => Set(w).preferences = w.arg
           /\ w.op \notin RowOps => Set(w).rows = sStore.rows
           /\ w.op # "delete" => Set(w).account = sStore.account
<1>. USE DEF SettingsSound, SectionOps, RowOps, Lists
<1>1. CASE w.op = "preferences"
  BY <1>1 DEF Set
<1>2. CASE w.op = "remove"
  BY <1>2 DEF Set, SettingsRow
<1>3. CASE w.op = "add"
  BY <1>3 DEF Set, SettingsRow, Plain
<1>4. CASE w.op = "hint"
  BY <1>4 DEF Set, SettingsRow
<1>5. CASE w.op = "delete"
  BY <1>5 DEF Set
<1>6. CASE w.op = "signOut"
  BY <1>6 DEF Set
<1>. QED BY <1>1, <1>2, <1>3, <1>4, <1>5, <1>6

(* A step of a query. *)
LEMMA SettingsQueried ==
    ASSUME SettingsSaved, BudgetKept, NEW name \in SettingsQueries,
           \/ SettingsRefetch(name) \/ SettingsServe(name)
           \/ SettingsArrive(name) \/ SettingsQueryFails(name)
    PROVE  SettingsSaved'
<1>. DEFINE was == sQuery[name]
            V   == IF name = "me" THEN Preference ELSE SettingsRow
<1>1. PICK q : /\ sQuery' = [sQuery EXCEPT ![name] = q]
               /\ UNCHANGED <<section, sStore, sForm, sWrites, sWanted, sOverlap>>
               /\ \/ Fetching(was, q, SettingsAnswer(name)) /\ UNCHANGED faults
                  \/ q = Lost(was) /\ (faults' # 0 \/ sStore.account = "gone")
  <2>1. Fault => faults' # 0
    BY ClientAssumption DEF Fault, BudgetKept
  <2>2. CASE SettingsRefetch(name)
    BY <2>2 DEF SettingsRefetch, SetSettings, Fetching, budget
  <2>3. CASE SettingsServe(name)
    BY <2>3 DEF SettingsServe, SetSettings, Fetching, budget
  <2>4. CASE SettingsArrive(name)
    BY <2>4 DEF SettingsArrive, SetSettings, Fetching, budget
  <2>5. CASE SettingsQueryFails(name)
    BY <2>1, <2>5 DEF SettingsQueryFails, SetSettings
  <2>. QED BY <2>2, <2>3, <2>4, <2>5
<1>2. Fetches(was, V) /\ None \notin V /\ SettingsAnswer(name) \in V
  BY SettingsAssumption
  DEF SettingsSaved, SettingsSound, SettingsQueries, SettingsAnswer, Preference, SettingsRow
<1>3. /\ Fetches(q, V) /\ (was.data # None => q.data # None)
      /\ (faults' = 0 /\ sStore.account = "there") =>
           (UNCHANGED faults /\ (Current(was, SettingsAnswer(name)) =>
                                 Current(q, SettingsAnswer(name))))
  <2>. HIDE DEF V
  <2>1. CASE Fetching(was, q, SettingsAnswer(name)) /\ UNCHANGED faults
    BY <1>2, <2>1, FetchingKeeps
  <2>2. CASE q = Lost(was) /\ (faults' # 0 \/ sStore.account = "gone")
    BY <1>2, <2>2, LosingKeeps
  <2>. QED BY <1>1, <2>1, <2>2
<1>4. CASE name = "me"
  <2>1. /\ sQuery.me = was /\ sQuery'.me = q /\ sQuery'.list = sQuery.list
        /\ DOMAIN sQuery' = SettingsQueries
        /\ V = Preference /\ SettingsAnswer(name) = sStore.preferences
    BY <1>1, <1>4 DEF SettingsSaved, SettingsSound, SettingsQueries, SettingsAnswer
  <2>. HIDE DEF was, V
  <2>2. SettingsSound'
    BY <1>1, <1>3, <2>1 DEF SettingsSaved, SettingsSound, SectionOps
  <2>3. SettingsFetched'
    BY <1>1, <1>3, <2>1
    DEF SettingsSaved, SettingsFetched, MeFetched, SwitchesWanted, ListFetched
  <2>. QED BY <2>2, <2>3 DEF SettingsSaved
<1>5. CASE name = "list"
  <2>1. /\ sQuery.list = was /\ sQuery'.list = q /\ sQuery'.me = sQuery.me
        /\ DOMAIN sQuery' = SettingsQueries
        /\ V = SettingsRow /\ SettingsAnswer(name) = sStore.rows
    BY <1>1, <1>5 DEF SettingsSaved, SettingsSound, SettingsQueries, SettingsAnswer
  <2>. HIDE DEF was, V
  <2>2. SettingsSound'
    BY <1>1, <1>3, <2>1 DEF SettingsSaved, SettingsSound, SectionOps
  <2>3. SettingsFetched'
    BY <1>1, <1>3, <2>1
    DEF SettingsSaved, SettingsFetched, MeFetched, SwitchesWanted, ListFetched
  <2>. QED BY <2>2, <2>3 DEF SettingsSaved
<1>. QED BY <1>4, <1>5 DEF SettingsQueries

(* A write begins that is not a switch. *)
LEMMA SettingsSends ==
    ASSUME SettingsSaved, NEW op \in SectionOps \ {"preferences"}, NEW arg,
           sWrites' = sWrites \cup {Sent(op, arg)}, SettingsShown,
           op = "hint" => arg[2] \in Nat,
           UNCHANGED <<section, sStore, sQuery, sWanted, faults>>,
           \/ sForm' = sForm
           \/ sForm' = [sForm EXCEPT !.leaving = FALSE],
           ~sOverlap' => ~sOverlap /\ (section \in Lists => sQuery.list.data # None)
    PROVE  SettingsSaved'
<1>1. SettingsSound'
  BY SentIsWrite DEF SettingsSaved, SettingsSound, SectionOps, SettingsShown
<1>2. \A ops : Settling(sWrites', ops) <=> Settling(sWrites, ops)
  BY WriteBegins
<1>3. section # "preferences"
  BY DEF SectionOps, Lists
<1>. QED
  BY <1>1, <1>2, <1>3 DEF SettingsSaved, SettingsFetched, MeFetched, SwitchesWanted, ListFetched

LEMMA SettingsToggled ==
    ASSUME SettingsSaved, NEW s \in Switch, Toggle(s)
    PROVE  SettingsSaved'
<1>1. /\ section = "preferences" /\ sQuery.me.data # None
      /\ sWrites' = sWrites \cup {Sent("preferences", Toggled(s))}
      /\ sWanted' = [sWanted EXCEPT ![s] = ~sQuery.me.data[s]]
      /\ UNCHANGED <<section, sStore, sQuery, sForm, faults>>
      /\ ~sOverlap' => /\ ~sOverlap /\ sWrites = {}
                       /\ sQuery.me.data = sStore.preferences
  BY DEF Toggle, SendSetting, Click, SettingsShown
<1>2. sQuery.me.data \in Preference /\ sWanted \in Preference
  BY <1>1 DEF SettingsSaved, SettingsSound, Fetches
<1>3. Toggled(s) \in Preference /\ sWanted' \in Preference
      /\ (sWanted = sQuery.me.data => sWanted' = Toggled(s))
  BY <1>1, <1>2 DEF Toggled, Preference, Switch
<1>4. SettingsSound'
  BY <1>1, <1>3, SentIsWrite DEF SettingsSaved, SettingsSound, SectionOps, Lists
<1>5. \A ops : Settling(sWrites', ops) <=> Settling(sWrites, ops)
  BY <1>1, WriteBegins
<1>6. ASSUME faults = 0, sStore.account = "there", ~sOverlap'
      PROVE  sWrites' = {Sent("preferences", Toggled(s))} /\ sWanted' = Toggled(s)
  BY <1>1, <1>3, <1>6 DEF SettingsSaved, SettingsFetched, SwitchesWanted
<1>7. section \notin Lists
  BY <1>1 DEF Lists
<1>8. MeFetched => MeFetched'
  BY <1>1, <1>5 DEF MeFetched
<1>9. (faults = 0 /\ sStore.account = "there") => SwitchesWanted'
  BY <1>6, SentIsWrite DEF SwitchesWanted
<1>. QED BY <1>1, <1>4, <1>7, <1>8, <1>9 DEF SettingsSaved, SettingsFetched, ListFetched

LEMMA SettingsServed ==
    ASSUME SettingsSaved, NEW w \in sWrites, SettingsWrite(w)
    PROVE  SettingsSaved'
<1>0. PICK v : v = Done(w)
  OBVIOUS
<1>1. /\ w.at = "sent" /\ sStore.account = "there"
      /\ sStore' = Set(w) /\ sWrites' = Replace(sWrites, w, v)
      /\ UNCHANGED <<section, sQuery, sForm, sWanted, sOverlap, faults>>
  BY <1>0 DEF SettingsWrite, budget
<1>2. DOMAIN w = WriteField /\ w.op \in SectionOps
  BY DEF SettingsSaved, SettingsSound
<1>3. DOMAIN v = WriteField /\ v.at = "done" /\ v.op = w.op /\ v.arg = w.arg
  BY <1>0, <1>2, DoneIsSame
<1>4. SettingsSound'
  BY <1>1, <1>3, SettingsSetStay DEF SettingsSaved, SettingsSound, Replace, SectionOps
<1>5. SettingsFetched'
  <2>. SUFFICES ASSUME faults = 0, sStore'.account = "there" PROVE SettingsFetched'
    BY <1>1 DEF SettingsFetched
  <2>1. MeFetched /\ SwitchesWanted /\ ListFetched
    BY <1>1 DEF SettingsSaved, SettingsFetched
  <2>2. MeFetched'
    BY <1>1, <1>3, <2>1, WriteIsServed, SettingsSetStay DEF MeFetched, SettingsSaved
  <2>3. SwitchesWanted'
    <3>. SUFFICES ASSUME section = "preferences", ~sOverlap PROVE SwitchesWanted'
      BY <1>1 DEF SwitchesWanted
    <3>1. sWrites = {w} /\ w.arg = sWanted /\ w.op = "preferences"
      BY <1>2, <2>1 DEF SwitchesWanted, SectionOps, Lists
    <3>2. sWrites' = {v} /\ sStore'.preferences = w.arg
      BY <1>1, <3>1, SettingsSetStay DEF Replace, SettingsSaved
    <3>. QED BY <1>1, <1>3, <3>1, <3>2 DEF SwitchesWanted
  <2>4. ListFetched'
    <3>. SUFFICES ASSUME section \in Lists, ~sOverlap PROVE ListFetched'
      BY <1>1 DEF ListFetched
    <3>1. w.op \in RowOps /\ sQuery.list.data # None
      BY <1>2, <2>1 DEF ListFetched, SectionOps, Lists
    <3>2. Settling(sWrites', RowOps)
      BY <1>1, <1>3, <3>1, WriteIsServed
    <3>. QED BY <1>1, <3>1, <3>2 DEF ListFetched
  <2>. QED BY <2>2, <2>3, <2>4 DEF SettingsFetched
<1>. QED BY <1>4, <1>5 DEF SettingsSaved

(* onSuccess. *)
LEMMA SettingsSettle ==
    ASSUME SettingsSaved, NEW w \in sWrites, SettingsWritten(w)
    PROVE  SettingsSaved'
<1>1. /\ w.at = "done" /\ sWrites' = sWrites \ {w}
      /\ sQuery' = SettingsInvalidated(w)
      /\ UNCHANGED <<section, sStore, sWanted, sOverlap, faults>>
      /\ \/ sForm' = sForm
         \/ sForm' = [sForm EXCEPT !.confirming = 0]
         \/ sForm' = [sForm EXCEPT !.typed = 0]
         \/ sForm' = [sForm EXCEPT !.editing = 0]
  BY DEF SettingsWritten, budget
<1>2. /\ w.op \in SectionOps /\ sQuery.me.data # None
      /\ DOMAIN sQuery = {"me", "list"}
      /\ Fetches(sQuery.me, Preference) /\ Fetches(sQuery.list, SettingsRow)
  BY DEF SettingsSaved, SettingsSound, SettingsQueries
<1>3. /\ DOMAIN sQuery' = {"me", "list"}
      /\ sQuery'.me = IF w.op = "preferences" THEN Invalidated(sQuery.me) ELSE sQuery.me
      /\ sQuery'.list = IF w.op \in RowOps THEN Invalidated(sQuery.list) ELSE sQuery.list
  BY <1>1, <1>2 DEF SettingsInvalidated, RowOps
<1>4. /\ Fetches(sQuery'.me, Preference) /\ Fetches(sQuery'.list, SettingsRow)
      /\ sQuery'.me.data = sQuery.me.data /\ sQuery'.list.data = sQuery.list.data
  BY <1>2, <1>3, InvalidatingAsks
<1>5. SettingsSound'
  BY <1>1, <1>3, <1>4 DEF SettingsSaved, SettingsSound, SettingsQueries, SectionOps
<1>6. SettingsFetched'
  <2>. SUFFICES ASSUME faults = 0, sStore.account = "there" PROVE SettingsFetched'
    BY <1>1 DEF SettingsFetched
  <2>1. MeFetched /\ SwitchesWanted /\ ListFetched
    BY <1>1 DEF SettingsSaved, SettingsFetched
  <2>2. MeFetched'
    <3>1. CASE w.op = "preferences"
      BY <1>1, <1>2, <1>3, <3>1, InvalidatingAsks DEF MeFetched
    <3>2. CASE w.op # "preferences"
      BY <1>1, <1>3, <2>1, <3>2, WriteIsOver DEF MeFetched
    <3>. QED BY <3>1, <3>2
  <2>3. SwitchesWanted'
    BY <1>1, <2>1 DEF SwitchesWanted
  <2>4. ListFetched'
    <3>. SUFFICES ASSUME section \in Lists, ~sOverlap PROVE ListFetched'
      BY <1>1 DEF ListFetched
    <3>1. w.op \in RowOps /\ sQuery.list.data # None
      BY <1>2, <2>1 DEF ListFetched, SectionOps, Lists
    <3>. QED BY <1>1, <1>2, <1>3, <1>4, <3>1, InvalidatingAsks DEF ListFetched
  <2>. QED BY <2>2, <2>3, <2>4 DEF SettingsFetched
<1>. QED BY <1>5, <1>6 DEF SettingsSaved

(* A mutation that fails, or that the account no longer allows. *)
LEMMA SettingsFail ==
    ASSUME SettingsSaved, BudgetKept, NEW w \in sWrites,
           SettingsRefused(w) \/ SettingsWriteFails(w)
    PROVE  SettingsSaved'
<1>1. Fault => faults' # 0
  BY ClientAssumption DEF Fault, BudgetKept
<1>2. /\ sWrites' = sWrites \ {w}
      /\ UNCHANGED <<section, sStore, sQuery, sForm, sWanted, sOverlap>>
      /\ faults' # 0 \/ sStore.account = "gone"
  BY <1>1 DEF SettingsRefused, SettingsWriteFails
<1>3. SettingsSound'
  BY <1>2 DEF SettingsSaved, SettingsSound, SectionOps
<1>. QED BY <1>2, <1>3 DEF SettingsSaved, SettingsFetched

(* What is confirmed, edited or typed is changed. *)
LEMMA SettingsRest ==
    ASSUME SettingsSaved, UNCHANGED <<section, sStore, sQuery, sWrites, sWanted, sOverlap>>,
           faults' = 0 => faults = 0,
           DOMAIN sForm' = DOMAIN sForm,
           sForm'.sure => sForm'.deleting,
           sForm'.confirming # 0 => section \in Lists,
           sForm'.editing # 0 => section = "hints",
           (sForm'.leaving \/ sForm'.deleting) => section = "account"
    PROVE  SettingsSaved'
BY DEF SettingsSaved, SettingsSound, SettingsFetched, SectionOps, MeFetched, SwitchesWanted,
       ListFetched

LEMMA SettingsKeep ==
    ASSUME SettingsSaved, BudgetKept, SettingsNext
    PROVE  SettingsSaved'
<1>0. SettingsSound
  BY DEF SettingsSaved
<1>1. ASSUME NEW e \in Exe, ConfirmRow(e) \/ CancelRow(e) \/ TypeInclusion(e) \/ EditHint(e)
      PROVE  SettingsSaved'
  BY <1>0, <1>1, SettingsRest
  DEF ConfirmRow, CancelRow, TypeInclusion, EditHint, Click, SettingsSound
<1>2. ASSUME NEW e \in Exe, RemoveRow(e)
      PROVE  SettingsSaved'
  <2>1. section \in Lists /\ sQuery.list.data # None
    BY <1>0, <1>2 DEF RemoveRow, RowAsked, RowShown, SettingsSound
  <2>. QED BY <1>2, <2>1, SettingsSends
       DEF RemoveRow, RowAsked, SendSetting, Click, SectionOps, RowOps, Lists
<1>3. CASE AddInclusion
  <2>1. ~sOverlap' => ~sOverlap /\ sQuery.list.data # None
    BY <1>3 DEF AddInclusion
  <2>. QED BY <1>3, <2>1, SettingsSends
       DEF AddInclusion, SendSetting, Click, SectionOps, RowOps, Lists
<1>4. ASSUME NEW game \in Hinted, PickGame(game)
      PROVE  SettingsSaved'
  <2>1. section = "hints" /\ sQuery.list.data # None /\ game \in Nat
    BY <1>0, <1>4, SettingsAssumption DEF PickGame, RowShown, SettingsSound
  <2>. QED BY <1>4, <2>1, SettingsSends
       DEF PickGame, SendSetting, Click, SectionOps, RowOps, Lists
<1>5. CASE CancelEdit \/ AskSignOut \/ AskDelete \/ TypeHandle \/ CancelAccount
  BY <1>0, <1>5, SettingsRest
  DEF CancelEdit, AskSignOut, AskDelete, TypeHandle, CancelAccount, Click, budget, SettingsSound
<1>6. CASE SignOut \/ DeleteAccount
  <2>1. section = "account"
    BY <1>0, <1>6 DEF SignOut, DeleteAccount, SettingsSound
  <2>. QED BY <1>6, <2>1, SettingsSends
       DEF SignOut, DeleteAccount, SendSetting, Click, SectionOps, Lists
<1>. QED
  BY <1>1, <1>2, <1>3, <1>4, <1>5, <1>6, SettingsQueried, SettingsToggled, SettingsServed,
     SettingsSettle, SettingsFail
  DEF SettingsNext
--------------------------------------------------------------------------------
(* What takes a card away, and what the history counts. *)
Taking   == {"confirm", "dismiss", "exclude"}
Counting == {"confirm", "add"}

(* What the server may answer, and what of it shows nothing that is gone. *)
InboxData(name) == IF name = "pending" THEN SUBSET Card ELSE Nat

Timely(name) ==
    CASE name = "pending" -> SUBSET iStore.pending
      [] name = "count"   -> 0 .. Cardinality(iStore.pending)
      [] name = "history" -> {iStore.confirmed + iStore.added}

InboxSound ==
    /\ watched \in {"count", "history"}
    /\ DOMAIN iStore = {"pending", "seen", "confirmed", "added"}
    /\ iStore.pending \in SUBSET Card /\ IsFiniteSet(iStore.pending)
    /\ iStore.confirmed \in Nat /\ iStore.added \in Nat
    /\ DOMAIN iQuery = InboxQueries
    /\ \A name \in InboxQueries : Fetches(iQuery[name], InboxData(name))
    /\ iCards = [c \in Card |-> iCards[c]]
    /\ \A c \in Card : DOMAIN iCards[c] = {"at", "ready"}
    /\ \A c \in Card : iCards[c].at # "collapsed" => CardShown(c)
    /\ \A w \in iWrites : /\ DOMAIN w = WriteField /\ w.at \in {"sent", "done"}
                          /\ w.op \in Taking \cup {"add"}
                          /\ w.op # "add" => iQuery.pending.data # None

Outdating(name) == IF name = "history" THEN Counting ELSE Taking

InboxFetched ==
    \A name \in InboxQueries :
        (signed /\ name \notin iMissed /\ ~Settling(iWrites, Outdating(name))) =>
            Fits(iQuery[name], Timely(name))

InboxSaved == InboxSound /\ InboxFetched


LEMMA InboxAnswers ==
    ASSUME InboxSound, NEW name \in InboxQueries
    PROVE  /\ InboxAnswer(name) \in InboxData(name) /\ InboxAnswer(name) \in Timely(name)
           /\ None \notin InboxData(name)
<1>1. Cardinality(iStore.pending) \in Nat
  BY FS_CardinalityType DEF InboxSound
<1>2. CASE name = "pending"
  BY <1>2, CardAssumption DEF InboxSound, InboxAnswer, InboxData, Timely
<1>3. CASE name = "count"
  BY <1>1, <1>3, ClientAssumption DEF InboxSound, InboxAnswer, InboxData, Timely
<1>4. CASE name = "history"
  BY <1>4, ClientAssumption DEF InboxSound, InboxAnswer, InboxData, Timely
<1>. QED BY <1>2, <1>3, <1>4 DEF InboxSound, InboxQueries

(* A step of a query: one that fails is missed, one that is served no longer. *)
LEMMA InboxQueried ==
    ASSUME InboxSaved, NEW name \in InboxQueries,
           \/ InboxRefetch(name) \/ InboxServe(name)
           \/ InboxArrive(name) \/ InboxQueryFails(name)
    PROVE  InboxSaved'
<1>. DEFINE was == iQuery[name]
<1>0. InboxSound
  BY DEF InboxSaved
<1>1. PICK q : /\ iQuery' = [iQuery EXCEPT ![name] = q]
               /\ UNCHANGED <<signed, watched, iStore, iWrites>>
               /\ \A n \in InboxQueries : n \notin iMissed' =>
                    n \notin iMissed \/ (n = name /\ (signed => q = Served(was, InboxAnswer(name))))
               /\ \/ Fetching(was, q, InboxAnswer(name))
                  \/ q = Lost(was) /\ (name \in iMissed' \/ ~signed)
               /\ \/ iCards' = iCards /\ (q.data = was.data \/ name # "pending")
                  \/ /\ q = Arrived(was) /\ IsServed(was) /\ name = "pending"
                     /\ iCards' = [c \in Card |-> IF c \in was.answer THEN iCards[c] ELSE Collapsed]
  <2>0. /\ Refetched(was).data = was.data /\ Lost(was).data = was.data
        /\ \A v : Served(was, v).data = was.data
    BY <1>0, QueryShapes, LosingKeeps DEF InboxSound, Fetches
  <2>1. CASE InboxRefetch(name)
    BY <2>0, <2>1 DEF InboxRefetch, SetInbox, Fetching, iUi
  <2>2. CASE InboxServe(name)
    BY <2>0, <2>2 DEF InboxServe, SetInbox, Fetching, iUi
  <2>3. CASE InboxArrive(name)
    BY <2>3 DEF InboxArrive, SetInbox, Fetching
  <2>4. CASE InboxQueryFails(name)
    BY <2>0, <2>4 DEF InboxQueryFails, SetInbox, iUi
  <2>. QED BY <2>1, <2>2, <2>3, <2>4
<1>2. /\ DOMAIN iQuery = InboxQueries /\ Fetches(was, InboxData(name)) /\ iQuery'[name] = q
      /\ \A n \in InboxQueries \ {name} : iQuery'[n] = iQuery[n]
      /\ InboxQueries' = InboxQueries /\ DOMAIN iQuery' = InboxQueries
  BY <1>0, <1>1 DEF InboxSound, InboxQueries
<1>3. Fetches(q, InboxData(name)) /\ (was.data # None => q.data # None)
  BY <1>0, <1>1, <1>2, InboxAnswers, FetchingKeeps, LosingKeeps
<1>4. /\ iCards' = [c \in Card |-> iCards'[c]]
      /\ \A c \in Card : DOMAIN iCards'[c] = {"at", "ready"}
      /\ \A c \in Card : iCards'[c].at # "collapsed" => CardShown(c)'
  <2>1. CASE iCards' = iCards /\ (q.data = was.data \/ name # "pending")
    <3>1. iQuery'.pending.data = iQuery.pending.data
      BY <1>2, <2>1 DEF InboxQueries
    <3>. QED BY <1>0, <2>1, <3>1 DEF InboxSound, CardShown
  <2>2. CASE /\ q = Arrived(was) /\ IsServed(was) /\ name = "pending"
             /\ iCards' = [c \in Card |-> IF c \in was.answer THEN iCards[c] ELSE Collapsed]
    <3>1. iQuery'.pending.data = was.answer
      BY <1>2, <2>2 DEF Arrived
    <3>2. was.answer # None
      BY <1>2, <2>2, CardAssumption DEF Fetches, InboxData
    <3>3. \A c \in Card : iCards'[c].at # "collapsed" => c \in was.answer
      BY <2>2 DEF Collapsed
    <3>. QED BY <1>0, <2>2, <3>1, <3>2, <3>3 DEF InboxSound, CardShown, Collapsed
  <2>. QED BY <1>1, <2>1, <2>2
<1>5. InboxSound'
  BY <1>0, <1>1, <1>2, <1>3, <1>4 DEF InboxSound, InboxData, InboxQueries
<1>6. InboxFetched'
  <2>. SUFFICES ASSUME NEW n \in InboxQueries, signed, n \notin iMissed',
                       ~Settling(iWrites, Outdating(n))
                PROVE  Fits(iQuery'[n], Timely(n))
    BY <1>1, <1>2 DEF InboxFetched, Timely
  <2>1. CASE n = name
    <3>1. Fetching(was, q, InboxAnswer(name))
      BY <1>1, <2>1
    <3>2. q = Served(was, InboxAnswer(name)) \/ Fits(was, Timely(name))
      BY <1>1, <2>1 DEF InboxSaved, InboxFetched
    <3>. QED BY <1>0, <1>2, <2>1, <3>1, <3>2, InboxAnswers, FetchingFits DEF Fetches
  <2>2. CASE n # name
    BY <1>1, <1>2, <2>2 DEF InboxSaved, InboxFetched
  <2>. QED BY <2>1, <2>2
<1>. QED BY <1>5, <1>6 DEF InboxSaved

(* The agent records a pending journey. *)
LEMMA InboxRecords ==
    ASSUME InboxSaved, NEW c \in Card, AgentRecords(c)
    PROVE  InboxSaved'
<1>0. InboxSound
  BY DEF InboxSaved
<1>1. /\ iStore' = [iStore EXCEPT !.pending = @ \cup {c}, !.seen = @ \cup {c}]
      /\ UNCHANGED <<signed, watched, iQuery, iCards, iWrites, iMissed>>
  BY DEF AgentRecords, iUi
<1>2. /\ DOMAIN iStore' = DOMAIN iStore /\ iStore'.pending = iStore.pending \cup {c}
      /\ iStore'.confirmed = iStore.confirmed /\ iStore'.added = iStore.added
  BY <1>0, <1>1 DEF InboxSound
<1>3. /\ IsFiniteSet(iStore'.pending)
      /\ Cardinality(iStore.pending) <= Cardinality(iStore'.pending)
      /\ Cardinality(iStore.pending) \in Nat /\ Cardinality(iStore'.pending) \in Nat
  <2>1. IsFiniteSet(iStore'.pending)
    BY <1>0, <1>2, FS_AddElement DEF InboxSound
  <2>. QED BY <1>0, <1>2, <2>1, FS_Subset, FS_CardinalityType DEF InboxSound
<1>4. InboxSound'
  BY <1>0, <1>1, <1>2, <1>3 DEF InboxSound, InboxQueries, InboxData, CardShown
<1>5. \A name \in InboxQueries : Timely(name) \subseteq Timely(name)'
  BY <1>0, <1>2, <1>3 DEF Timely, InboxQueries, InboxSound
<1>6. InboxQueries' = InboxQueries
  BY <1>1 DEF InboxQueries
<1>. QED BY <1>1, <1>4, <1>5, <1>6 DEF InboxSaved, InboxFetched, Fits

(* The cards and the forms. *)
LEMMA InboxShown ==
    ASSUME InboxSaved, UNCHANGED <<signed, watched, iStore, iQuery, iWrites, iMissed>>,
           \/ iCards' = iCards
           \/ \E c \in Card : \E card : /\ iCards' = [iCards EXCEPT ![c] = card]
                                       /\ DOMAIN card = {"at", "ready"} /\ CardShown(c)
    PROVE  InboxSaved'
BY DEF InboxSaved, InboxSound, InboxFetched, InboxQueries, InboxData, Timely, CardShown

LEMMA InboxSends ==
    ASSUME InboxSaved, NEW op \in Taking \cup {"add"}, NEW arg, SendInbox(op, arg),
           op # "add" => iQuery.pending.data # None
    PROVE  InboxSaved'
<1>1. /\ iWrites' = iWrites \cup {Sent(op, arg)}
      /\ UNCHANGED <<signed, watched, iStore, iQuery, iCards, iMissed>>
  BY DEF SendInbox, iUi
<1>2. InboxSound'
  BY <1>1, SentIsWrite DEF InboxSaved, InboxSound, InboxQueries, InboxData, CardShown
<1>3. \A ops : Settling(iWrites', ops) <=> Settling(iWrites, ops)
  BY <1>1, WriteBegins
<1>4. InboxQueries' = InboxQueries /\ \A name : Timely(name)' = Timely(name)
  BY <1>1 DEF InboxQueries, Timely
<1>. QED BY <1>1, <1>2, <1>3, <1>4 DEF InboxSaved, InboxFetched

(* The server acts: what it changes is still to be invalidated. *)
LEMMA InboxServed ==
    ASSUME InboxSaved, NEW w \in iWrites, InboxWrite(w)
    PROVE  InboxSaved'
<1>0. InboxSound
  BY DEF InboxSaved
<1>1. PICK v : v = Done(w)
  OBVIOUS
<1>2. DOMAIN w = WriteField /\ w.op \in Taking \cup {"add"}
  BY <1>0 DEF InboxSound
<1>3. DOMAIN v = WriteField /\ v.at = "done" /\ v.op = w.op /\ v.arg = w.arg
  BY <1>1, <1>2, DoneIsSame
<1>4. /\ w.at = "sent" /\ iWrites' = Replace(iWrites, w, v)
      /\ UNCHANGED <<signed, watched, iQuery, iCards, iMissed>>
  BY <1>1 DEF InboxWrite, iUi
<1>5. /\ DOMAIN iStore' = DOMAIN iStore
      /\ iStore'.pending = IF w.op = "add" THEN iStore.pending ELSE iStore.pending \ {w.arg}
      /\ iStore'.confirmed = IF w.op = "confirm" THEN iStore.confirmed + 1 ELSE iStore.confirmed
      /\ iStore'.added = IF w.op = "add" THEN iStore.added + 1 ELSE iStore.added
  BY <1>0 DEF InboxWrite, InboxSound
<1>6. iStore'.pending \in SUBSET Card /\ IsFiniteSet(iStore'.pending)
  BY <1>0, <1>5, FS_RemoveElement DEF InboxSound
<1>7. InboxSound'
  BY <1>0, <1>2, <1>3, <1>4, <1>5, <1>6
  DEF InboxSound, InboxQueries, InboxData, CardShown, Replace
<1>8. InboxFetched'
  <2>. SUFFICES ASSUME NEW name \in InboxQueries, signed, name \notin iMissed,
                       ~Settling(iWrites', Outdating(name))
                PROVE  Fits(iQuery[name], Timely(name)')
    BY <1>4 DEF InboxFetched, InboxQueries
  <2>1. w.op \notin Outdating(name)
    BY <1>3, <1>4, WriteIsServed
  <2>2. Timely(name)' = Timely(name)
    BY <1>0, <1>2, <1>5, <2>1
    DEF InboxSound, InboxQueries, Timely, Outdating, Taking, Counting
  <2>3. ~Settling(iWrites, Outdating(name))
    BY <1>3, <1>4, <2>1, WriteIsServed
  <2>. QED BY <2>2, <2>3 DEF InboxSaved, InboxFetched
<1>. QED BY <1>7, <1>8 DEF InboxSaved

(* What onSuccess or onError invalidates, and what it should have, is not      *)
(* behind any more, or missed.                                              *)
LEMMA InboxSettles ==
    ASSUME InboxSaved, NEW w \in iWrites, NEW names,
           iWrites' = iWrites \ {w}, UNCHANGED <<signed, watched, iStore, iCards>>,
           iQuery' = [n \in InboxQueries |-> IF n \in names THEN Invalidated(iQuery[n])
                                             ELSE iQuery[n]],
           iMissed \subseteq iMissed',
           \A n \in InboxQueries : n \notin iMissed' =>
             \/ n \in names /\ (iQuery[n].data # None \/ ~InFlight(iQuery[n]))
             \/ w.op \notin Outdating(n) \/ w.at # "done"
    PROVE  InboxSaved'
<1>0. InboxSound
  BY DEF InboxSaved
<1>1. /\ DOMAIN iQuery' = InboxQueries /\ InboxQueries' = InboxQueries
      /\ \A n \in InboxQueries :
           iQuery'[n] = IF n \in names THEN Invalidated(iQuery[n]) ELSE iQuery[n]
      /\ \A n \in InboxQueries : Fetches(iQuery[n], InboxData(n))
  BY <1>0 DEF InboxSound, InboxQueries
<1>2. \A n \in InboxQueries : Fetches(iQuery'[n], InboxData(n)) /\ iQuery'[n].data = iQuery[n].data
  BY <1>1, InvalidatingAsks
<1>3. InboxSound'
  BY <1>0, <1>1, <1>2 DEF InboxSound, InboxData, InboxQueries, CardShown
<1>4. InboxFetched'
  <2>. SUFFICES ASSUME NEW n \in InboxQueries, signed, n \notin iMissed',
                       ~Settling(iWrites', Outdating(n))
                PROVE  Fits(iQuery'[n], Timely(n))
    BY <1>1 DEF InboxFetched, Timely
  <2>1. CASE n \in names /\ (iQuery[n].data # None \/ ~InFlight(iQuery[n]))
    BY <1>1, <2>1, InvalidatingFits DEF Fetches
  <2>2. CASE w.op \notin Outdating(n) \/ w.at # "done"
    <3>1. ~Settling(iWrites, Outdating(n))
      BY <2>2, WriteIsOver
    <3>2. Fits(iQuery[n], Timely(n))
      BY <3>1 DEF InboxSaved, InboxFetched
    <3>. QED BY <1>1, <3>2, InvalidatingFits DEF Fetches
  <2>. QED BY <2>1, <2>2
<1>. QED BY <1>3, <1>4 DEF InboxSaved

LEMMA InboxKeeps ==
    ASSUME InboxSaved, InboxNext
    PROVE  InboxSaved'
<1>0. InboxSound
  BY DEF InboxSaved
<1>1. ASSUME NEW c \in Card, NEW searchMode \in BOOLEAN, OpenConfirm(c, searchMode)
      PROVE  InboxSaved'
  BY <1>1, InboxShown DEF OpenConfirm, SetCard
<1>2. ASSUME NEW c \in Card, OpenExclude(c) \/ CollapseCard(c) \/ FillCard(c)
      PROVE  InboxSaved'
  <2>1. DOMAIN iCards[c] = {"at", "ready"}
    BY <1>0 DEF InboxSound
  <2>. QED
    BY <1>2, <2>1, InboxShown DEF OpenExclude, CollapseCard, FillCard, SetCard, Collapsed
<1>3. ASSUME NEW c \in Card, SubmitConfirm(c) \/ Dismiss(c) \/ Exclude(c)
      PROVE  InboxSaved'
  BY <1>3, InboxSends DEF SubmitConfirm, Dismiss, Exclude, CardShown, Taking
<1>4. CASE SubmitForm
  BY <1>4, InboxSends DEF SubmitForm
<1>5. CASE AddButton \/ FillForm \/ CancelForm \/ DismissHint \/ ClosePrompt
  BY <1>5, InboxShown DEF AddButton, FillForm, CancelForm, DismissHint, ClosePrompt
<1>6. ASSUME NEW c, InboxCooled(c)
      PROVE  InboxSaved'
  BY <1>6, InboxShown DEF InboxCooled
<1>7. ASSUME NEW w \in iWrites, InboxWritten(w)
      PROVE  InboxSaved'
  <2>1. \A n \in InboxQueries : w.op \in Outdating(n) => n \in Invalidates(w.op)
    BY <1>0 DEF InboxSound, Outdating, Taking, Counting, Invalidates, InboxQueries
  <2>. QED BY <1>7, <2>1, InboxSettles DEF InboxWritten, InvalidateInbox
<1>8. ASSUME NEW w \in iWrites, InboxWriteFails(w)
      PROVE  InboxSaved'
  <2>1. w.op = "confirm" => iQuery.pending.data # None
    BY <1>0 DEF InboxSound
  <2>2. w.at = "done" => \A n \in InboxQueries :
          n \in iMissed' \/ (n = "pending" /\ w.op = "confirm")
    BY <1>8 DEF InboxWriteFails, InboxQueries
  <2>3. PICK names : names = OnInboxError(w)
    OBVIOUS
  <2>4. /\ iWrites' = iWrites \ {w} /\ UNCHANGED <<signed, watched, iStore, iCards>>
        /\ iQuery' = [n \in InboxQueries |->
                        IF n \in names THEN Invalidated(iQuery[n]) ELSE iQuery[n]]
        /\ iMissed \subseteq iMissed'
    BY <1>8, <2>3 DEF InboxWriteFails, iUi
  <2>5. \A n \in InboxQueries : n \notin iMissed' =>
          (n \in names /\ iQuery[n].data # None) \/ w.at # "done"
    BY <2>1, <2>2, <2>3 DEF OnInboxError
  <2>. QED BY <2>4, <2>5, InboxSettles
<1>9. ASSUME NEW w \in iWrites, InboxTooMany(w)
      PROVE  InboxSaved'
  <2>1. /\ w.at = "sent" /\ iWrites' = iWrites \ {w}
        /\ UNCHANGED <<signed, watched, iStore, iQuery, iCards, iMissed>>
    BY <1>9 DEF InboxTooMany
  <2>2. InboxSound'
    BY <1>0, <2>1 DEF InboxSound, InboxQueries, InboxData, CardShown
  <2>3. InboxFetched'
    BY <2>1, WriteIsOver DEF InboxSaved, InboxFetched, InboxQueries, Timely
  <2>. QED BY <2>2, <2>3 DEF InboxSaved
<1>. QED
  BY <1>1, <1>2, <1>3, <1>4, <1>5, <1>6, <1>7, <1>8, <1>9, InboxQueried, InboxRecords,
     InboxServed
  DEF InboxNext
--------------------------------------------------------------------------------
NotesSound ==
    /\ DOMAIN nStore = {"all", "unread", "profile"} /\ nStore.unread \subseteq nStore.all
    /\ DOMAIN nQuery = NotificationQueries
    /\ \A name \in NotificationQueries : DOMAIN nQuery[name] = QueryField
    /\ DOMAIN nList = {"rows", "unread"} /\ nList.rows \subseteq nStore.all
    /\ IsServed(nQuery.page) => /\ DOMAIN nQuery.page.answer = {"rows", "unread"}
                                /\ nQuery.page.answer.rows \subseteq nStore.all
    /\ DOMAIN nMarks = {"sent", "done"} /\ nMarks.sent \in Nat /\ nMarks.done \in Nat

(* The unread ones among the rows of a list are the server's. *)
Shows(l) == l.unread = nStore.unread \cap l.rows

DotFetched == Fits(nQuery.dot, {None} \cup SUBSET nStore.unread)

PageFetched ==
    /\ ~InFlight(nQuery.page) => Shows(nList)
    /\ IsServed(nQuery.page) => Shows(nQuery.page.answer)

NotesFetched ==
    nMarks.done = 0 =>
        /\ "dot" \notin nMissed => DotFetched
        /\ "page" \notin nMissed => PageFetched

NotesSaved == NotesSound /\ NotesFetched


(* A step of a query. *)
LEMMA NotesQueried ==
    ASSUME NotesSaved, NEW name \in NotificationQueries,
           \/ NotificationsRefetch(name) \/ NotificationsServe(name)
           \/ NotificationsArrive(name) \/ NotificationsFail(name)
    PROVE  NotesSaved'
<1>. DEFINE was == nQuery[name]
<1>0. NotesSound /\ DOMAIN was = QueryField
  BY DEF NotesSaved, NotesSound
<1>1. PICK q : /\ nQuery' = [nQuery EXCEPT ![name] = q]
               /\ UNCHANGED <<nStore, nMarks>>
               /\ \/ /\ q = Refetched(was)
                     /\ nList' = nList /\ nMissed' = nMissed
                  \/ /\ q = Served(was, NotificationAnswer(name)) /\ name # "me"
                     /\ nList' = nList /\ nMissed' = nMissed \ {name}
                  \/ /\ q = Arrived(was) /\ IsServed(was) /\ nMissed' = nMissed
                     /\ nList' = IF name = "page" THEN nQuery.page.answer ELSE nList
                  \/ /\ q = Lost(was)
                     /\ nList' = nList /\ nMissed' = nMissed \cup {name}
  BY DEF NotificationsRefetch, NotificationsServe, NotificationsArrive, NotificationsFail,
         SetNotifications
<1>2. /\ DOMAIN nQuery' = NotificationQueries /\ nQuery'[name] = q
      /\ \A n \in NotificationQueries \ {name} : nQuery'[n] = nQuery[n]
      /\ DOMAIN q = QueryField
  BY <1>0, <1>1, QueryShapes DEF NotesSound, Arrived, QueryField
<1>3. /\ nStore.unread = NotificationAnswer("dot")
      /\ NotificationAnswer("page").rows = nStore.all
      /\ NotificationAnswer("page").unread = nStore.unread
      /\ DOMAIN NotificationAnswer("page") = {"rows", "unread"}
  BY DEF NotificationAnswer
<1>4. CASE name = "page"
  <2>1. /\ IsServed(q) => /\ DOMAIN q.answer = {"rows", "unread"}
                          /\ q.answer.rows \subseteq nStore.all
        /\ DOMAIN nList' = {"rows", "unread"} /\ nList'.rows \subseteq nStore.all
    <3>0. was = nQuery.page
      BY <1>4
    <3>. HIDE DEF was
    <3>1. CASE q = Refetched(was) /\ nList' = nList
      <4>1. IsServed(q) => q = was
        BY <1>0, <3>1 DEF Refetched, IsServed, QueryField
      <4>. QED BY <1>0, <3>0, <3>1, <4>1 DEF NotesSound
    <3>2. CASE q = Served(was, NotificationAnswer(name)) /\ nList' = nList
      <4>1. q.answer = NotificationAnswer("page")
        BY <1>0, <1>4, <3>2 DEF Served, QueryField
      <4>. QED BY <1>0, <1>3, <3>2, <4>1 DEF NotesSound
    <3>3. CASE q = Arrived(was) /\ IsServed(was) /\ nList' = nQuery.page.answer
      BY <1>0, <3>0, <3>3 DEF NotesSound, Arrived, IsServed
    <3>4. CASE q = Lost(was) /\ nList' = nList
      BY <1>0, <3>4 DEF NotesSound, Lost, IsServed, QueryField
    <3>. QED BY <1>1, <1>4, <3>1, <3>2, <3>3, <3>4
  <2>2. NotesSound'
    BY <1>0, <1>1, <1>2, <1>4, <2>1 DEF NotesSound, NotificationQueries
  <2>3. ("page" \notin nMissed' /\ nMarks.done = 0) => PageFetched'
    <3>1. CASE q = Refetched(was) /\ nList' = nList /\ nMissed' = nMissed
      <4>1. was = nQuery.page /\ nQuery'.page = q
        BY <1>2, <1>4
      <4>. HIDE DEF was
      <4>2. (InFlight(q) /\ ~IsServed(q)) \/ q = was
        BY <1>0, <3>1 DEF Refetched, IsServed, InFlight, QueryField
      <4>. QED
        BY <1>1, <3>1, <4>1, <4>2 DEF NotesSaved, NotesFetched, PageFetched, Shows
    <3>2. CASE q = Served(was, NotificationAnswer(name))
      BY <1>0, <1>1, <1>2, <1>3, <1>4, <3>2
      DEF NotesSound, PageFetched, Shows, Served, IsServed, InFlight, QueryField
    <3>3. CASE q = Arrived(was) /\ IsServed(was) /\ nList' = nQuery.page.answer /\ nMissed' = nMissed
      BY <1>0, <1>1, <1>2, <1>4, <3>3
      DEF NotesSaved, NotesFetched, PageFetched, Shows, Arrived, IsServed, InFlight
    <3>4. CASE "page" \in nMissed'
      BY <3>4
    <3>. QED BY <1>1, <1>4, <3>1, <3>2, <3>3, <3>4
  <2>4. nQuery'.dot = nQuery.dot /\ ("dot" \in nMissed => "dot" \in nMissed')
    BY <1>1, <1>2, <1>4 DEF NotificationQueries
  <2>. QED BY <1>1, <2>2, <2>3, <2>4 DEF NotesSaved, NotesFetched, DotFetched
<1>5. CASE name = "dot"
  <2>1. nQuery'.page = nQuery.page /\ nList' = nList /\ ("page" \in nMissed => "page" \in nMissed')
    BY <1>1, <1>2, <1>5 DEF NotificationQueries
  <2>2. NotesSound'
    BY <1>0, <1>1, <1>2, <1>5, <2>1 DEF NotesSound, NotificationQueries
  <2>3. ("dot" \notin nMissed' /\ nMarks.done = 0) => DotFetched'
    <3>1. CASE q = Lost(was) /\ "dot" \in nMissed'
      BY <3>1
    <3>2. CASE Fetching(was, q, NotificationAnswer(name))
      <4>1. NotificationAnswer(name) \in {None} \cup SUBSET nStore.unread
        BY <1>3, <1>5
      <4>2. q = Served(was, NotificationAnswer(name)) \/ ("dot" \notin nMissed' => "dot" \notin nMissed)
        BY <1>1, <1>5
      <4>3. was = nQuery.dot /\ nQuery'.dot = q
        BY <1>2, <1>5
      <4>. HIDE DEF was
      <4>4. \/ "dot" \in nMissed' \/ nMarks.done # 0
            \/ Fits(q, {None} \cup SUBSET nStore.unread)
        <5>1. nMarks.done = 0 /\ "dot" \notin nMissed =>
                Fits(was, {None} \cup SUBSET nStore.unread)
          BY <4>3 DEF NotesSaved, NotesFetched, DotFetched
        <5>. QED BY <1>0, <3>2, <4>1, <4>2, <5>1, FetchingFits
      <4>. QED BY <1>1, <4>3, <4>4 DEF DotFetched
    <3>. QED BY <1>1, <1>5, <3>1, <3>2 DEF Fetching
  <2>. QED BY <1>1, <2>1, <2>2, <2>3 DEF NotesSaved, NotesFetched, PageFetched, Shows
<1>6. CASE name = "me"
  <2>1. /\ nQuery'.page = nQuery.page /\ nQuery'.dot = nQuery.dot
        /\ nList' = nList /\ nMissed \subseteq nMissed'
    BY <1>1, <1>2, <1>6 DEF NotificationQueries
  <2>2. NotesSound'
    BY <1>0, <1>1, <1>2, <1>6, <2>1 DEF NotesSound, NotificationQueries
  <2>. QED BY <1>1, <2>1, <2>2 DEF NotesSaved, NotesFetched, PageFetched, DotFetched, Shows
<1>. QED BY <1>4, <1>5, <1>6 DEF NotificationQueries

LEMMA NotesMarked ==
    ASSUME NotesSaved, MarkServed \/ MarkWritten \/ MarkFails
    PROVE  NotesSaved'
<1>0. NotesSound /\ nMarks.sent \in Nat /\ nMarks.done \in Nat
  BY DEF NotesSaved, NotesSound
<1>1. CASE MarkServed
  <2>1. /\ nMarks' = [sent |-> nMarks.sent - 1, done |-> nMarks.done + 1] /\ nMarks.sent > 0
        /\ nStore' = [nStore EXCEPT !.unread = {}] /\ UNCHANGED <<nQuery, nList>>
    BY <1>1 DEF MarkServed
  <2>2. NotesSound'
    BY <1>0, <2>1 DEF NotesSound
  <2>3. nMarks'.done # 0
    BY <1>0, <2>1
  <2>. QED BY <2>2, <2>3 DEF NotesSaved, NotesFetched
<1>2. CASE MarkWritten
  <2>1. /\ nMarks' = [nMarks EXCEPT !.done = @ - 1] /\ nMarks.done > 0
        /\ nQuery' = [n \in NotificationQueries |->
                        IF n \in {"page", "dot"} THEN Invalidated(nQuery[n]) ELSE nQuery[n]]
        /\ nMissed' = nMissed \cup
                        {n \in {"page", "dot"} : nQuery[n].data = None /\ InFlight(nQuery[n])}
        /\ nList' = [nList EXCEPT !.unread = {}] /\ nStore' = nStore
    BY <1>2 DEF MarkWritten, MarkInvalidates
  <2>2. /\ DOMAIN nQuery' = NotificationQueries
        /\ nQuery'.page = Invalidated(nQuery.page) /\ nQuery'.dot = Invalidated(nQuery.dot)
        /\ DOMAIN nQuery.page = QueryField /\ DOMAIN nQuery.dot = QueryField
        /\ \A n \in NotificationQueries : DOMAIN nQuery'[n] = QueryField
    BY <1>0, <2>1, QueryShapes DEF NotesSound, NotificationQueries
  <2>3. IsServed(nQuery'.page) => nQuery'.page = nQuery.page
    BY <2>2 DEF Invalidated, IsServed, QueryField
  <2>4. NotesSound'
    BY <1>0, <2>1, <2>2, <2>3 DEF NotesSound
  <2>5. "dot" \notin nMissed' => DotFetched'
    BY <2>1, <2>2, InvalidatingFits DEF DotFetched
  <2>6. "page" \notin nMissed' => PageFetched'
    <3>1. "page" \notin nMissed' => nQuery.page.data # None \/ ~InFlight(nQuery.page)
      BY <2>1
    <3>2. nQuery.page.data # None \/ ~InFlight(nQuery.page) =>
            InFlight(nQuery'.page) /\ ~IsServed(nQuery'.page)
      BY <2>2 DEF Invalidated, IsServed, InFlight, QueryField
    <3>. QED BY <3>1, <3>2 DEF PageFetched
  <2>. QED BY <2>4, <2>5, <2>6 DEF NotesSaved, NotesFetched
<1>3. CASE MarkFails
  <2>1. /\ UNCHANGED <<nStore, nQuery, nList>>
        /\ \/ /\ nMarks.sent > 0
              /\ nMarks' = [nMarks EXCEPT !.sent = @ - 1] /\ nMissed' = nMissed
           \/ /\ nMarks.done > 0
              /\ nMarks' = [nMarks EXCEPT !.done = @ - 1] /\ nMissed' = {"page", "dot"}
    BY <1>3 DEF MarkFails
  <2>2. NotesSound'
    BY <1>0, <2>1 DEF NotesSound
  <2>3. NotesFetched'
    BY <1>0, <2>1 DEF NotesSaved, NotesSound, NotesFetched, DotFetched, PageFetched, Shows
  <2>. QED BY <2>2, <2>3 DEF NotesSaved
<1>. QED BY <1>1, <1>2, <1>3

LEMMA NotesRest ==
    ASSUME NotesSaved, UNCHANGED <<nStore, nQuery, nList, nMarks, nMissed>>
    PROVE  NotesSaved'
BY DEF NotesSaved, NotesSound, NotesFetched, DotFetched, PageFetched, Shows

LEMMA NotesKeep ==
    ASSUME NotesSaved, NotificationsNext
    PROVE  NotesSaved'
<1>0. NotesSound
  BY DEF NotesSaved
<1>1. CASE PlayerArrives
  <2>1. /\ nQuery' = [me   |-> Cached(nStore.profile),
                      page |-> IF Player THEN nQuery.page ELSE NewQuery,
                      dot  |-> IF Player THEN nQuery.dot ELSE NewQuery]
        /\ nMarks' = nMarks \/ nMarks' = [nMarks EXCEPT !.sent = @ + 1]
        /\ UNCHANGED <<nStore, nList, nMissed>>
    BY <1>1 DEF PlayerArrives
  <2>2. /\ DOMAIN nMarks' = DOMAIN nMarks /\ nMarks'.sent \in Nat /\ nMarks'.done = nMarks.done
    BY <1>0, <2>1 DEF NotesSound
  <2>3. /\ DOMAIN Cached(nStore.profile) = QueryField /\ DOMAIN NewQuery = QueryField
        /\ ~IsServed(NewQuery) /\ InFlight(NewQuery)
    BY DEF Cached, NewQuery, QueryField, IsServed, InFlight
  <2>4. NotesSound'
    BY <1>0, <2>1, <2>2, <2>3 DEF NotesSound, NotificationQueries
  <2>5. NotesFetched'
    BY <2>1, <2>2, <2>3 DEF NotesSaved, NotesFetched, DotFetched, PageFetched, Shows, Fits
  <2>. QED BY <2>4, <2>5 DEF NotesSaved
<1>2. ASSUME NEW n \in Note, Notify(n)
      PROVE  NotesSaved'
  <2>1. /\ n \notin nStore.all /\ UNCHANGED <<nQuery, nList, nMarks, nMissed>>
        /\ nStore' = [nStore EXCEPT !.all = @ \cup {n}, !.unread = @ \cup {n}]
    BY <1>2 DEF Notify
  <2>2. NotesSound'
    BY <1>0, <2>1 DEF NotesSound
  <2>3. nStore'.unread = nStore.unread \cup {n}
    BY <1>0, <2>1 DEF NotesSound
  <2>4. DotFetched => DotFetched'
    BY <2>1, <2>3 DEF DotFetched, Fits
  <2>5. PageFetched => PageFetched'
    BY <1>0, <2>1, <2>3 DEF PageFetched, Shows, NotesSound
  <2>. QED BY <2>1, <2>2, <2>4, <2>5 DEF NotesSaved, NotesFetched
<1>3. CASE ProfileEdited
  <2>1. /\ UNCHANGED <<nQuery, nList, nMarks, nMissed>>
        /\ nStore' = [nStore EXCEPT !.profile = 2]
    BY <1>3 DEF ProfileEdited
  <2>2. /\ DOMAIN nStore' = DOMAIN nStore
        /\ nStore'.all = nStore.all /\ nStore'.unread = nStore.unread
    BY <1>0, <2>1 DEF NotesSound
  <2>. QED
    BY <2>1, <2>2 DEF NotesSaved, NotesSound, NotesFetched, DotFetched, PageFetched, Shows
<1>4. ASSUME NEW n, ShowFollowers(n) \/ ChooseTab(n)
      PROVE  NotesSaved'
  BY <1>4, NotesRest DEF ShowFollowers, ChooseTab
<1>5. CASE HideFollowers
  BY <1>5, NotesRest DEF HideFollowers
<1>. QED
  BY <1>1, <1>2, <1>3, <1>4, <1>5, NotesQueried, NotesMarked DEF NotificationsNext
--------------------------------------------------------------------------------
AnyAct == Acts \cup {"unsuspend"}

AdminSound ==
    /\ admin \in BOOLEAN /\ aAway \in BOOLEAN
    /\ aDialog # None => admin /\ ~aAway
    /\ aDialog # None => aDialog.act \in Acts
    /\ DOMAIN aQuery = QueryField
    /\ \A w \in aWrites : /\ DOMAIN w = {"act", "target", "at", "mine", "known"}
                          /\ w.act \in AnyAct /\ w.at \in {"sent", "done"}
                          /\ w.mine \in BOOLEAN /\ w.known \in BOOLEAN

(* What else than the list an act changes, and whether one that changes the    *)
(* list is done.                                                             *)
Beside(w) == Changes(w.act, w.target) \ {SuspendedList}

ListActs == {"suspend", "unsuspend"}

ListChanged(writes) == \E w \in writes : w.act \in ListActs /\ w.at = "done"

(* An act that no longer knows what to invalidate is excused, and what is not  *)
(* excused has still its invalidation ahead.                                 *)
ActsExplained ==
    /\ SuspendedList \notin aOutdated
    /\ \A w \in aWrites : ~w.known => Beside(w) \subseteq aExcused
    /\ \A x \in aOutdated \ aExcused :
         \E w \in aWrites : w.at = "done" /\ x \in InvalidatedByAct(w)

ListCurrent ==
    /\ (~InFlight(aQuery) /\ (Mounted \/ aFresh)) => aQuery.data = aStore
    /\ IsServed(aQuery) => aQuery.answer = aStore

AdminFetched ==
    faults = 0 =>
        /\ ActsExplained
        /\ (SuspendedList \notin aExcused /\ ~ListChanged(aWrites)) => ListCurrent

AdminSaved == AdminSound /\ AdminFetched


LEMMA ListIsInvalidated ==
    ASSUME NEW w, w.act \in AnyAct
    PROVE  /\ SuspendedList \in InvalidatedByAct(w) <=> w.act \in ListActs
           /\ InvalidatedByAct(w) \ {SuspendedList} \subseteq Beside(w)
           /\ w.known => Beside(w) \subseteq InvalidatedByAct(w)
           /\ ~w.known => Beside(w) \subseteq InvalidatedByAct(w) \/ InvalidatedByAct(w) = {}
           /\ w.act = "unsuspend" => InvalidatedByAct(w) = {SuspendedList} /\ Beside(w) = {}
<1>1. CASE w.act = "suspend"
  BY <1>1 DEF InvalidatedByAct, Changes, SuspendedList, ListActs, Beside
<1>2. CASE w.act = "reset"
  BY <1>2 DEF InvalidatedByAct, Changes, SuspendedList, ListActs, Beside
<1>3. CASE w.act = "deleteLog"
  BY <1>3 DEF InvalidatedByAct, Changes, SuspendedList, ListActs, Beside
<1>4. CASE w.act = "deleteComment"
  BY <1>4 DEF InvalidatedByAct, Changes, SuspendedList, ListActs, Beside
<1>5. CASE w.act = "unsuspend"
  BY <1>5 DEF InvalidatedByAct, Changes, SuspendedList, ListActs, Beside
<1>. QED BY <1>1, <1>2, <1>3, <1>4, <1>5 DEF AnyAct, Acts

(* u is the write v, from another place of the page; what it forgot is in E. *)
Carries(v, u, E) ==
    /\ DOMAIN u = DOMAIN v /\ u.act = v.act /\ u.target = v.target /\ u.at = v.at
    /\ u.mine \in BOOLEAN /\ u.known \in BOOLEAN
    /\ u.known = v.known \/ Beside(v) \subseteq E

(* Acts that are carried along, and answered, stay explained. *)
LEMMA ActsCarried ==
    ASSUME AdminSound, NEW writes \in SUBSET aWrites,
           \A u \in aWrites' : \E v \in writes : Carries(v, u, aExcused'),
           \A v \in writes : \E u \in aWrites' : Carries(v, u, aExcused')
    PROVE  /\ \A w \in aWrites' :
                /\ DOMAIN w = {"act", "target", "at", "mine", "known"}
                /\ w.act \in AnyAct /\ w.at \in {"sent", "done"}
                /\ w.mine \in BOOLEAN /\ w.known \in BOOLEAN
           /\ ListChanged(aWrites') <=> ListChanged(writes)
           /\ (/\ ActsExplained /\ aOutdated' \subseteq aOutdated
               /\ aExcused \ {SuspendedList} \subseteq aExcused'
               /\ \A x \in aOutdated' : \A w \in aWrites \ writes : x \notin InvalidatedByAct(w))
              => ActsExplained'
<1>1. \A w \in aWrites' :
        /\ DOMAIN w = {"act", "target", "at", "mine", "known"}
        /\ w.act \in AnyAct /\ w.at \in {"sent", "done"}
        /\ w.mine \in BOOLEAN /\ w.known \in BOOLEAN
  BY DEF AdminSound, Carries
<1>2. ListChanged(aWrites') <=> ListChanged(writes)
  BY DEF ListChanged, Carries
<1>3. ASSUME ActsExplained, aOutdated' \subseteq aOutdated,
             aExcused \ {SuspendedList} \subseteq aExcused',
             \A x \in aOutdated' : \A w \in aWrites \ writes : x \notin InvalidatedByAct(w)
      PROVE  ActsExplained'
  <2>1. SuspendedList \notin aOutdated'
    BY <1>3 DEF ActsExplained
  <2>2. ASSUME NEW u \in aWrites', ~u.known
        PROVE  Beside(u) \subseteq aExcused'
    <3>1. PICK v \in writes : Carries(v, u, aExcused')
      OBVIOUS
    <3>2. Beside(u) = Beside(v) /\ SuspendedList \notin Beside(v)
      BY <3>1 DEF Carries, Beside
    <3>3. CASE u.known = v.known
      BY <1>3, <2>2, <3>2, <3>3 DEF ActsExplained
    <3>. QED BY <3>1, <3>2, <3>3 DEF Carries
  <2>3. ASSUME NEW x \in aOutdated' \ aExcused'
        PROVE  \E u \in aWrites' : u.at = "done" /\ x \in InvalidatedByAct(u)
    <3>1. x \in aOutdated \ aExcused
      BY <1>3, <2>1
    <3>2. PICK v \in aWrites : v.at = "done" /\ x \in InvalidatedByAct(v)
      BY <1>3, <3>1 DEF ActsExplained
    <3>3. v \in writes
      BY <1>3, <3>2
    <3>4. PICK u \in aWrites' : Carries(v, u, aExcused')
      BY <3>3
    <3>5. x \in Beside(v)
      BY <2>1, <3>2, ListIsInvalidated DEF AdminSound
    <3>6. u.known = v.known
      BY <3>4, <3>5 DEF Carries
    <3>7. InvalidatedByAct(u) = InvalidatedByAct(v)
      BY <3>4, <3>6 DEF Carries, InvalidatedByAct
    <3>. QED BY <3>2, <3>4, <3>7 DEF Carries
  <2>. QED BY <2>1, <2>2, <2>3 DEF ActsExplained
<1>. QED BY <1>1, <1>2, <1>3

(* Acts that are not touched. *)
LEMMA ActsStay ==
    ASSUME AdminSound, NEW writes \in SUBSET aWrites, aWrites' = writes
    PROVE  /\ \A u \in aWrites' : \E v \in writes : Carries(v, u, aExcused')
           /\ \A v \in writes : \E u \in aWrites' : Carries(v, u, aExcused')
BY DEF Carries, AdminSound

(* A page that is opened anew waits for none. *)
LEMMA ActsUnmounted ==
    ASSUME AdminSound, NEW writes \in SUBSET aWrites, aWrites' = Unmounted(writes)
    PROVE  /\ \A u \in aWrites' : \E v \in writes : Carries(v, u, aExcused')
           /\ \A v \in writes : \E u \in aWrites' : Carries(v, u, aExcused')
<1>1. \A v \in writes : Carries(v, [v EXCEPT !.mine = FALSE], aExcused')
  BY DEF Carries, AdminSound
<1>. QED BY <1>1 DEF Unmounted

LEMMA ActsForget ==
    ASSUME AdminSound, NEW writes \in SUBSET aWrites, NEW missed, ParametersGone(writes, missed)
    PROVE  /\ \A u \in aWrites' : \E v \in writes : Carries(v, u, aExcused')
           /\ \A v \in writes : \E u \in aWrites' : Carries(v, u, aExcused')
<1>1. /\ aWrites' = {[w EXCEPT !.known = @ /\ ~w.mine] : w \in writes}
      /\ \A v \in writes : v.mine => Beside(v) \subseteq aExcused'
  BY DEF ParametersGone, Excuse, Beside
<1>2. ASSUME NEW v \in writes
      PROVE  Carries(v, [v EXCEPT !.known = @ /\ ~v.mine], aExcused')
  <2>1. /\ DOMAIN v = {"act", "target", "at", "mine", "known"}
        /\ v.mine \in BOOLEAN /\ v.known \in BOOLEAN
    BY DEF AdminSound
  <2>2. CASE v.mine
    BY <1>1, <2>1, <2>2 DEF Carries
  <2>3. CASE ~v.mine
    BY <2>1, <2>3 DEF Carries
  <2>. QED BY <2>2, <2>3
<1>. QED BY <1>1, <1>2

(* A step of the list's query, or of nothing else. *)
LEMMA AdminListMoves ==
    ASSUME AdminSaved, UNCHANGED <<admin, aDialog, aAway, aWrites, aOutdated>>,
           DOMAIN aQuery' = QueryField,
           aExcused' = aExcused \/ aExcused' = aExcused \ {SuspendedList},
           faults' = 0 => faults = 0,
           faults' = 0 => \/ ListCurrent'
                          \/ aExcused' = aExcused /\ (ListCurrent => ListCurrent')
    PROVE  AdminSaved'
<1>1. AdminSound'
  BY DEF AdminSaved, AdminSound
<1>2. ActsExplained => ActsExplained'
  BY DEF ActsExplained, Beside
<1>. QED BY <1>1, <1>2 DEF AdminSaved, AdminFetched

LEMMA ListQueried ==
    ASSUME AdminSaved, BudgetKept,
           \/ SuspendedRefetch \/ SuspendedServe \/ SuspendedArrive \/ SuspendedFails
           \/ SuspendedExpires
    PROVE  AdminSaved'
<1>0. DOMAIN aQuery = QueryField
  BY DEF AdminSaved, AdminSound
<1>1. CASE SuspendedRefetch
  <2>1. /\ aQuery' = Refetched(aQuery)
        /\ UNCHANGED <<admin, aStore, aFresh, aTab, aDialog, aAway, aWrites, aOutdated, aExcused, faults>>
    BY <1>1 DEF SuspendedRefetch, aUi, budget
  <2>2. ListCurrent => ListCurrent'
    BY <1>0, <2>1 DEF ListCurrent, Mounted, Refetched, InFlight, IsServed, QueryField
  <2>. QED BY <1>0, <2>1, <2>2, QueryShapes, AdminListMoves
<1>2. CASE SuspendedServe
  <2>1. /\ aQuery' = Served(aQuery, aStore) /\ aExcused' = aExcused \ {SuspendedList}
        /\ UNCHANGED <<admin, aStore, aFresh, aTab, aDialog, aAway, aWrites, aOutdated, faults>>
    BY <1>2 DEF SuspendedServe, aUi, budget
  <2>2. ListCurrent'
    BY <1>0, <2>1 DEF ListCurrent, Mounted, Served, InFlight, IsServed, QueryField
  <2>. QED BY <1>0, <2>1, <2>2, QueryShapes, AdminListMoves
<1>3. CASE SuspendedArrive
  <2>1. /\ aQuery' = Arrived(aQuery) /\ IsServed(aQuery)
        /\ UNCHANGED <<admin, aStore, aTab, aDialog, aAway, aWrites, aOutdated, aExcused, faults>>
    BY <1>3 DEF SuspendedArrive, aUi, budget
  <2>2. ListCurrent => ListCurrent'
    BY <2>1 DEF ListCurrent, Mounted, Arrived, InFlight, IsServed
  <2>3. DOMAIN aQuery' = QueryField
    BY <2>1 DEF Arrived, QueryField
  <2>. QED BY <2>1, <2>2, <2>3, AdminListMoves
<1>4. CASE SuspendedFails
  <2>1. /\ aQuery' = Lost(aQuery) /\ faults' # 0
        /\ UNCHANGED <<admin, aDialog, aAway, aWrites, aOutdated, aExcused>>
    BY <1>4, ClientAssumption DEF SuspendedFails, aUi, Fault, BudgetKept
  <2>. QED BY <1>0, <2>1, QueryShapes, AdminListMoves
<1>5. CASE SuspendedExpires
  <2>1. /\ aFresh' = FALSE
        /\ UNCHANGED <<admin, aStore, aQuery, aTab, aDialog, aAway, aWrites, aOutdated, aExcused, faults>>
    BY <1>5 DEF SuspendedExpires, aUi, budget
  <2>2. ListCurrent => ListCurrent'
    BY <2>1 DEF ListCurrent, Mounted
  <2>. QED BY <1>0, <2>1, <2>2, AdminListMoves
<1>. QED BY <1>1, <1>2, <1>3, <1>4, <1>5

LEMMA AdminNavigates ==
    ASSUME AdminSaved,
           \/ \E tab \in Tabs : ChooseAdminTab(tab)
           \/ \E target \in Target, act \in Acts : OpenDialog(act, target)
           \/ CancelDialog
    PROVE  AdminSaved'
<1>0. AdminSound /\ DOMAIN aQuery = QueryField
  BY DEF AdminSaved, AdminSound
<1>1. ASSUME NEW tab \in Tabs, ChooseAdminTab(tab)
      PROVE  AdminSaved'
  <2>1. /\ aTab' = tab
        /\ aQuery' = IF tab = "suspended" /\ ~aFresh THEN Refetched(aQuery) ELSE aQuery
        /\ aWrites' = {[w EXCEPT !.mine = @ /\ w.act # "unsuspend"] : w \in aWrites}
        /\ UNCHANGED <<admin, aStore, aFresh, aDialog, aAway, aOutdated, aExcused, faults>>
    BY <1>1 DEF ChooseAdminTab, budget
  <2>2. \A v \in aWrites : Carries(v, [v EXCEPT !.mine = @ /\ v.act # "unsuspend"], aExcused')
    BY <1>0 DEF Carries, AdminSound
  <2>3. /\ \A u \in aWrites' : \E v \in aWrites : Carries(v, u, aExcused')
        /\ \A v \in aWrites : \E u \in aWrites' : Carries(v, u, aExcused')
    BY <2>1, <2>2
  <2>4. AdminSound'
    BY <1>0, <2>1, <2>3, QueryShapes, ActsCarried DEF AdminSound
  <2>5. ListCurrent => ListCurrent'
    BY <1>0, <2>1 DEF ListCurrent, Mounted, Refetched, InFlight, IsServed, QueryField
  <2>6. (ActsExplained => ActsExplained') /\ (ListChanged(aWrites') <=> ListChanged(aWrites))
    BY <1>0, <2>1, <2>3, ActsCarried
  <2>. QED BY <2>1, <2>4, <2>5, <2>6 DEF AdminSaved, AdminFetched
<1>2. ASSUME NEW target \in Target, NEW act \in Acts, OpenDialog(act, target)
      PROVE  AdminSaved'
  <2>1. /\ aWrites' = Unmounted(aWrites) /\ aTab' = "reports" /\ aAway' = FALSE
        /\ admin /\ aDialog' = [act |-> act, target |-> target]
        /\ UNCHANGED <<admin, aStore, aQuery, aFresh, aOutdated, aExcused, faults>>
    BY <1>2 DEF OpenDialog, budget
  <2>2. AdminSound'
    BY <1>0, <2>1, ActsUnmounted, ActsCarried DEF AdminSound
  <2>3. ListCurrent => ListCurrent'
    BY <2>1 DEF ListCurrent, Mounted
  <2>4. (ActsExplained => ActsExplained') /\ (ListChanged(aWrites') <=> ListChanged(aWrites))
    BY <1>0, <2>1, ActsUnmounted, ActsCarried
  <2>. QED BY <2>1, <2>2, <2>3, <2>4 DEF AdminSaved, AdminFetched
<1>3. CASE CancelDialog
  <2>1. /\ ParametersGone(aWrites, {}) /\ aDialog' = None
        /\ UNCHANGED <<admin, aStore, aQuery, aFresh, aTab, aAway, aOutdated, faults>>
    BY <1>3 DEF CancelDialog, budget
  <2>2. aExcused \subseteq aExcused'
    BY <2>1 DEF ParametersGone, Excuse
  <2>3. AdminSound'
    BY <1>0, <2>1, ActsForget, ActsCarried DEF AdminSound
  <2>4. ListCurrent => ListCurrent'
    BY <2>1 DEF ListCurrent, Mounted
  <2>5. (ActsExplained => ActsExplained') /\ (ListChanged(aWrites') <=> ListChanged(aWrites))
    BY <1>0, <2>1, <2>2, ActsForget, ActsCarried
  <2>. QED BY <2>1, <2>2, <2>3, <2>4, <2>5 DEF AdminSaved, AdminFetched
<1>. QED BY <1>1, <1>2, <1>3

LEMMA ActBegins ==
    ASSUME AdminSaved, NEW act \in AnyAct, NEW target, SendAct(act, target)
    PROVE  AdminSaved'
<1>0. PICK v : v = [act |-> act, target |-> target, at |-> "sent", mine |-> TRUE, known |-> TRUE]
  OBVIOUS
<1>1. /\ aWrites' = aWrites \cup {v}
      /\ UNCHANGED <<admin, aStore, aQuery, aFresh, aTab, aDialog, aAway, aOutdated, aExcused, faults>>
  BY <1>0 DEF SendAct, Click, aUi
<1>2. AdminSound'
  <2>1. /\ DOMAIN v = {"act", "target", "at", "mine", "known"}
        /\ v.act \in AnyAct /\ v.at \in {"sent", "done"}
        /\ v.mine \in BOOLEAN /\ v.known \in BOOLEAN
    BY <1>0
  <2>. QED BY <1>1, <2>1 DEF AdminSaved, AdminSound
<1>3. ListChanged(aWrites') => ListChanged(aWrites)
  BY <1>0, <1>1 DEF ListChanged
<1>4. ListChanged(aWrites) => ListChanged(aWrites')
  BY <1>1 DEF ListChanged
<1>5. ActsExplained => ActsExplained'
  BY <1>0, <1>1 DEF ActsExplained, Beside
<1>6. ListCurrent => ListCurrent'
  BY <1>1 DEF ListCurrent, Mounted
<1>. QED BY <1>1, <1>2, <1>3, <1>4, <1>5, <1>6 DEF AdminSaved, AdminFetched

LEMMA ActIsServed ==
    ASSUME AdminSaved, NEW w \in aWrites, ActServed(w)
    PROVE  AdminSaved'
<1>0. PICK v : v = Done(w)
  OBVIOUS
<1>1. /\ w.at = "sent" /\ aWrites' = Replace(aWrites, w, v)
      /\ aStore' = CASE w.act = "suspend"   -> aStore \cup {w.target}
                     [] w.act = "unsuspend" -> aStore \ {w.target}
                     [] OTHER -> aStore
      /\ aOutdated' = aOutdated \cup Beside(w)
      /\ UNCHANGED <<admin, aQuery, aFresh, aTab, aDialog, aAway, aExcused, faults>>
  BY <1>0 DEF ActServed, aUi, budget, Beside
<1>2. DOMAIN w = {"act", "target", "at", "mine", "known"} /\ w.act \in AnyAct
      /\ w.mine \in BOOLEAN /\ w.known \in BOOLEAN
  BY DEF AdminSaved, AdminSound
<1>3. /\ DOMAIN v = DOMAIN w /\ v.act = w.act /\ v.target = w.target /\ v.at = "done"
      /\ v.mine = w.mine /\ v.known = w.known
  BY <1>0, <1>2 DEF Done
<1>4. AdminSound'
  BY <1>1, <1>2, <1>3 DEF AdminSaved, AdminSound, Replace
<1>5. ASSUME ActsExplained
      PROVE  ActsExplained'
  <2>1. SuspendedList \notin aOutdated'
    BY <1>1, <1>5 DEF ActsExplained, Beside
  <2>2. \A u \in aWrites' : ~u.known => Beside(u) \subseteq aExcused
    BY <1>1, <1>3, <1>5 DEF ActsExplained, Beside, Replace
  <2>3. ASSUME NEW x \in aOutdated' \ aExcused
        PROVE  \E u \in aWrites' : u.at = "done" /\ x \in InvalidatedByAct(u)
    <3>1. CASE x \in aOutdated
      <4>1. PICK u \in aWrites : u.at = "done" /\ x \in InvalidatedByAct(u)
        BY <1>5, <2>3, <3>1 DEF ActsExplained
      <4>. QED BY <1>1, <4>1 DEF Replace
    <3>2. CASE x \in Beside(w)
      <4>1. w.known
        BY <1>5, <2>3, <3>2 DEF ActsExplained
      <4>2. x \in InvalidatedByAct(w)
        BY <1>2, <3>2, <4>1, ListIsInvalidated
      <4>3. InvalidatedByAct(v) = InvalidatedByAct(w)
        BY <1>3 DEF InvalidatedByAct
      <4>. QED BY <1>1, <1>3, <4>2, <4>3 DEF Replace
    <3>. QED BY <1>1, <2>3, <3>1, <3>2
  <2>. QED BY <1>1, <2>1, <2>2, <2>3 DEF ActsExplained
<1>6. ASSUME ~ListChanged(aWrites')
      PROVE  ~ListChanged(aWrites) /\ (ListCurrent => ListCurrent')
  <2>1. w.act \notin ListActs
    BY <1>1, <1>3, <1>6 DEF ListChanged, Replace
  <2>2. aStore' = aStore
    BY <1>1, <2>1 DEF ListActs
  <2>3. ~ListChanged(aWrites)
    BY <1>1, <1>6 DEF ListChanged, Replace
  <2>. QED BY <1>1, <2>2, <2>3 DEF ListCurrent, Mounted
<1>. QED BY <1>1, <1>4, <1>5, <1>6 DEF AdminSaved, AdminFetched

(* The list is fetched again, or excused. *)
LEMMA ListInvalidated ==
    ASSUME AdminSound, NEW w \in aWrites, w.act \in ListActs, InvalidateSuspended,
           Missed(w) \subseteq aExcused', aStore' = aStore, Mounted' => Mounted
    PROVE  DOMAIN aQuery' = QueryField /\ (SuspendedList \notin aExcused' => ListCurrent')
<1>1. DOMAIN aQuery = QueryField /\ SuspendedList \in InvalidatedByAct(w)
  BY ListIsInvalidated DEF AdminSound
<1>2. /\ aQuery' = IF Mounted THEN Invalidated(aQuery) ELSE aQuery
      /\ aFresh' = FALSE
  BY DEF InvalidateSuspended
<1>3. SuspendedList \notin aExcused' => ~InFlight(aQuery) \/ (Mounted /\ aQuery.data # None)
  BY <1>1 DEF Missed
<1>4. CASE Mounted
  BY <1>1, <1>2, <1>3, <1>4 DEF ListCurrent, Invalidated, InFlight, IsServed, QueryField
<1>5. CASE ~Mounted
  BY <1>1, <1>2, <1>3, <1>5 DEF ListCurrent, InFlight, IsServed
<1>. QED BY <1>4, <1>5

LEMMA ActIsOver ==
    ASSUME AdminSaved, NEW w \in aWrites, ActSucceeds(w)
    PROVE  AdminSaved'
<1>0. AdminSound /\ w.act \in AnyAct
  BY DEF AdminSaved, AdminSound
<1>. DEFINE rest == aWrites \ {w}
<1>1. /\ w.at = "done" /\ w.act # "unsuspend"
      /\ aOutdated' = aOutdated \ InvalidatedByAct(w)
      /\ IF w.act \in ListActs THEN InvalidateSuspended ELSE UNCHANGED <<aQuery, aFresh>>
      /\ aDialog' = None
      /\ aAway' = (w.act = "deleteComment" /\ w.known)
      /\ IF aAway' \/ aAway
         THEN aWrites' = Unmounted(rest) /\ Excuse(Missed(w))
         ELSE ParametersGone(rest, Missed(w))
      /\ aTab' = IF aAway THEN "reports" ELSE aTab
      /\ UNCHANGED <<admin, aStore, faults>>
  BY <1>0, ListIsInvalidated DEF ActSucceeds, budget
<1>2. /\ \A u \in aWrites' : \E v \in rest : Carries(v, u, aExcused')
      /\ \A v \in rest : \E u \in aWrites' : Carries(v, u, aExcused')
  <2>1. rest \in SUBSET aWrites
    OBVIOUS
  <2>. HIDE DEF rest
  <2>. QED BY <1>0, <1>1, <2>1, ActsUnmounted, ActsForget
<1>3. aExcused \subseteq aExcused' /\ Missed(w) \subseteq aExcused'
  BY <1>1 DEF ParametersGone, Excuse
<1>4. Mounted' => Mounted
  BY <1>1 DEF Mounted
<1>5. DOMAIN aQuery' = QueryField
  BY <1>0, <1>1, <1>3, <1>4, ListInvalidated DEF AdminSound
<1>6. aAway' \in BOOLEAN
  BY <1>1
<1>7. AdminSound'
  BY <1>0, <1>1, <1>2, <1>5, <1>6, ActsCarried DEF AdminSound
<1>8. ActsExplained => ActsExplained'
  BY <1>0, <1>1, <1>2, <1>3, ActsCarried
<1>9. ListChanged(aWrites') <=> ListChanged(rest)
  BY <1>0, <1>2, ActsCarried
<1>10. ASSUME faults = 0, SuspendedList \notin aExcused', ~ListChanged(aWrites')
       PROVE  ListCurrent'
  <2>1. CASE w.act \in ListActs
    BY <1>0, <1>1, <1>3, <1>4, <1>10, <2>1, ListInvalidated
  <2>2. CASE w.act \notin ListActs
    <3>1. ~ListChanged(aWrites)
      BY <1>9, <1>10, <2>2 DEF ListChanged
    <3>2. ListCurrent
      BY <1>3, <1>10, <3>1 DEF AdminSaved, AdminFetched
    <3>. QED BY <1>1, <1>4, <2>2, <3>2 DEF ListCurrent
  <2>. QED BY <2>1, <2>2
<1>. QED BY <1>1, <1>7, <1>8, <1>10 DEF AdminSaved, AdminFetched

LEMMA UnsuspensionIsOver ==
    ASSUME AdminSaved, NEW w \in aWrites, Unsuspended(w)
    PROVE  AdminSaved'
<1>0. AdminSound /\ w.act \in AnyAct
  BY DEF AdminSaved, AdminSound
<1>1. /\ w.act = "unsuspend" /\ InvalidateSuspended
      /\ aExcused' = aExcused \cup Missed(w) /\ aWrites' = aWrites \ {w}
      /\ UNCHANGED <<admin, aStore, aTab, aDialog, aAway, aOutdated, faults>>
  BY DEF Unsuspended, Excuse, aUi, budget
<1>2. w.act \in ListActs /\ Mounted' = Mounted
  BY <1>1 DEF ListActs, Mounted
<1>3. DOMAIN aQuery' = QueryField /\ (SuspendedList \notin aExcused' => ListCurrent')
  BY <1>0, <1>1, <1>2, ListInvalidated
<1>4. AdminSound'
  BY <1>0, <1>1, <1>3 DEF AdminSound
<1>5. InvalidatedByAct(w) = {SuspendedList}
  BY <1>0, <1>1, ListIsInvalidated
<1>6. ActsExplained => ActsExplained'
  BY <1>1, <1>5 DEF ActsExplained, Beside
<1>. QED BY <1>1, <1>3, <1>4, <1>6 DEF AdminSaved, AdminFetched

LEMMA AdminKeeps ==
    ASSUME AdminSaved, BudgetKept, AdminNext
    PROVE  AdminSaved'
<1>1. ASSUME NEW target \in Target, Unsuspend(target)
      PROVE  AdminSaved'
  BY <1>1, ActBegins DEF Unsuspend, AnyAct
<1>2. CASE ConfirmAct
  BY <1>2, ActBegins DEF ConfirmAct, AnyAct, AdminSaved, AdminSound
<1>3. ASSUME NEW w \in aWrites, ActFails(w)
      PROVE  AdminSaved'
  <2>1. /\ faults' # 0 /\ aWrites' = aWrites \ {w}
        /\ UNCHANGED <<admin, aQuery, aDialog, aAway>>
    BY <1>3, ClientAssumption DEF ActFails, Fault, BudgetKept, aUi
  <2>2. AdminSound'
    BY <2>1 DEF AdminSaved, AdminSound
  <2>. QED BY <2>1, <2>2 DEF AdminSaved, AdminFetched
<1>. QED
  BY <1>1, <1>2, <1>3, ListQueried, AdminNavigates, ActIsServed, ActIsOver, UnsuspensionIsOver
  DEF AdminNext
--------------------------------------------------------------------------------
Fields == [Field -> Nat]
Profiles == [fields : Fields, following : BOOLEAN]

(* What the server may answer, and what of it is not behind the server. *)
ProfileData(name) == IF name = "profile" THEN Profiles ELSE Fields

Right(name) ==
    CASE name = "profile"         -> {[fields |-> pStore.fields, following |-> pStore.following]}
      [] name = "me" /\ OwnPage  -> {pStore.fields}
      [] name = "me" /\ ~OwnPage -> {None} \cup Fields

Alters(name) == IF name = "profile" THEN {"update", "avatar", "follow"} ELSE {"update", "avatar"}

ProfileStored ==
    /\ pRole \in {"editor", "avatar", "visitor", "guest"}
    /\ DOMAIN pStore = {"fields", "following", "reported"}
    /\ pStore.fields \in Fields /\ pStore.following \in BOOLEAN /\ pStore.reported \in BOOLEAN
    /\ DOMAIN pQuery = ProfileQueries
    /\ \A name \in ProfileQueries : Fetches(pQuery[name], ProfileData(name))

(* A dialog waits for a request of its own, and is open on what is shown. *)
EditorSound ==
    pEditor # None =>
        /\ DOMAIN pEditor = EditorFields /\ pEditor.name \in Nat /\ pEditor.bio \in Nat
        /\ pRole = "editor" /\ pQuery.me.data # None
        /\ pEditor.saving => \E w \in pWrites : w.op = "update" /\ w.arg.id = pEditor.id

AvatarSound ==
    /\ DOMAIN pAvatar = {"open", "busy"} /\ pAvatar.busy \in BOOLEAN
    /\ pAvatar.open => /\ pRole = "avatar" /\ pQuery.me.data # None
                       /\ pQuery.profile.data # None
    /\ pAvatar.busy <=> Pending(pWrites, "avatar")
    /\ \A w, v \in pWrites : w.op = "avatar" /\ v.op = "avatar" => w = v

ReportSound ==
    pReport # None =>
        /\ DOMAIN pReport = {"id", "ready", "at"}
        /\ pReport.at \in {"submitted", "already"} => pStore.reported

ProfileWrites ==
    \A w \in pWrites :
        /\ DOMAIN w = WriteField /\ w.at \in {"sent", "done"}
        /\ w.op \in {"update", "avatar", "follow", "report"}
        /\ w.op = "update" => /\ pRole = "editor" /\ DOMAIN w.arg = {"id", "typed", "patch"}
                              /\ \A f \in DOMAIN w.arg.patch : w.arg.patch[f] \in Nat
        /\ w.op = "avatar" => OwnPage /\ w.arg \in Nat
        /\ w.op = "follow" => w.arg \in BOOLEAN
        /\ w.op \in {"update", "avatar"} => pQuery.me.data # None
        /\ w.op \in {"avatar", "follow"} => "profile" \in ProfileQueries /\ pQuery.profile.data # None
        /\ (w.op = "report" /\ w.at = "done") => pStore.reported

ProfileFetched ==
    \A name \in ProfileQueries :
        (name \notin pMissed /\ ~Settling(pWrites, Alters(name))) =>
            Fits(pQuery[name], Right(name))

ProfileSaved ==
    /\ ProfileStored /\ EditorSound /\ AvatarSound /\ ReportSound
    /\ ProfileWrites /\ ProfileFetched


LEMMA ProfileAnswers ==
    ASSUME ProfileStored, NEW name \in ProfileQueries
    PROVE  /\ ProfileAnswer(name) \in ProfileData(name) /\ ProfileAnswer(name) \in Right(name)
           /\ None \notin ProfileData(name)
<1>1. name \in {"me", "profile"}
  BY DEF ProfileQueries
<1>2. pStore.fields \in Fields /\ [f \in Field |-> Discord] \in Fields
  BY DEF ProfileStored, Fields, Discord
<1>3. [fields |-> pStore.fields, following |-> pStore.following] \in Profiles
  BY DEF ProfileStored, Profiles
<1>4. None \notin Fields /\ None \notin Profiles
  BY ProfileAssumption DEF Fields, Profiles
<1>. QED
  BY <1>1, <1>2, <1>3, <1>4 DEF ProfileAnswer, ProfileData, Right

(* The queries keep what the dialogs and the writes rest on. *)
LEMMA ProfileStillShown ==
    ASSUME EditorSound, AvatarSound, ReportSound, ProfileWrites,
           UNCHANGED <<pRole, pStore, pEditor, pAvatar, pReport, pWrites>>,
           \A name \in ProfileQueries : pQuery[name].data # None => pQuery'[name].data # None
    PROVE  EditorSound' /\ AvatarSound' /\ ReportSound' /\ ProfileWrites'
<1>1. EditorSound'
  BY DEF EditorSound, ProfileQueries
<1>2. AvatarSound'
  BY DEF AvatarSound, ProfileQueries
<1>3. ReportSound'
  BY DEF ReportSound
<1>4. ProfileWrites'
  BY DEF ProfileWrites, ProfileQueries, OwnPage
<1>. QED BY <1>1, <1>2, <1>3, <1>4

(* A step of a query: one that fails is missed, one that is served no longer. *)
LEMMA ProfileQueried ==
    ASSUME ProfileSaved, NEW name \in ProfileQueries,
           \/ ProfileRefetch(name) \/ ProfileServe(name)
           \/ ProfileArrive(name) \/ ProfileQueryFails(name)
    PROVE  ProfileSaved'
<1>. DEFINE was == pQuery[name]
<1>0. ProfileStored
  BY DEF ProfileSaved
<1>1. PICK q : /\ pQuery' = [pQuery EXCEPT ![name] = q]
               /\ UNCHANGED <<pRole, pStore, pEditor, pAvatar, pReport, pWrites>>
               /\ \A n \in ProfileQueries : n \notin pMissed' => n \notin pMissed \/ n = name
               /\ \/ Fetching(was, q, ProfileAnswer(name)) /\ pMissed' = pMissed
                  \/ q = Served(was, ProfileAnswer(name))
                  \/ q = Lost(was) /\ (name \in pMissed' \/ (name = "me" /\ pRole = "guest"))
  <2>1. CASE ProfileRefetch(name)
    BY <2>1 DEF ProfileRefetch, SetProfile, Fetching, pUi, pHistory
  <2>2. CASE ProfileServe(name)
    BY <2>2 DEF ProfileServe, SetProfile, pUi
  <2>3. CASE ProfileArrive(name)
    BY <2>3 DEF ProfileArrive, SetProfile, Fetching, pUi
  <2>4. CASE ProfileQueryFails(name)
    BY <2>4 DEF ProfileQueryFails, SetProfile, pUi
  <2>. QED BY <2>1, <2>2, <2>3, <2>4
<1>2. /\ Fetches(was, ProfileData(name)) /\ pQuery'[name] = q
      /\ \A n \in ProfileQueries \ {name} : pQuery'[n] = pQuery[n]
      /\ DOMAIN pQuery' = ProfileQueries /\ ProfileQueries' = ProfileQueries
  BY <1>0, <1>1 DEF ProfileStored, ProfileQueries
<1>3. Fetches(q, ProfileData(name)) /\ (was.data # None => q.data # None)
  <2>1. CASE Fetching(was, q, ProfileAnswer(name)) \/ q = Served(was, ProfileAnswer(name))
    <3>1. Fetching(was, q, ProfileAnswer(name))
      BY <2>1 DEF Fetching
    <3>. HIDE DEF was
    <3>. QED BY <1>0, <1>2, <3>1, ProfileAnswers, FetchingKeeps
  <2>2. CASE q = Lost(was)
    BY <1>2, <2>2, LosingKeeps
  <2>. QED BY <1>1, <2>1, <2>2
<1>4. ProfileStored'
  BY <1>0, <1>1, <1>2, <1>3 DEF ProfileStored, ProfileData
<1>5. EditorSound' /\ AvatarSound' /\ ReportSound' /\ ProfileWrites'
  BY <1>1, <1>2, <1>3, ProfileStillShown DEF ProfileSaved
<1>6. ProfileFetched'
  <2>0. \A n : Right(n)' = Right(n)
    BY <1>1 DEF Right, OwnPage
  <2>. SUFFICES ASSUME NEW n \in ProfileQueries, n \notin pMissed',
                       ~Settling(pWrites, Alters(n))
                PROVE  Fits(pQuery'[n], Right(n))
    BY <1>1, <1>2, <2>0 DEF ProfileFetched
  <2>1. CASE n # name
    BY <1>1, <1>2, <2>1 DEF ProfileSaved, ProfileFetched
  <2>2. CASE n = name /\ Fetching(was, q, ProfileAnswer(name)) /\ pMissed' = pMissed
    <3>1. Fits(was, Right(name))
      BY <2>2 DEF ProfileSaved, ProfileFetched
    <3>. QED BY <1>0, <1>2, <2>2, <3>1, ProfileAnswers, FetchingFits DEF Fetches
  <2>3. CASE n = name /\ q = Served(was, ProfileAnswer(name))
    <3>1. Fetching(was, q, ProfileAnswer(name))
      BY <2>3 DEF Fetching
    <3>. QED BY <1>0, <1>2, <2>3, <3>1, ProfileAnswers, FetchingFits DEF Fetches
  <2>4. CASE n = name /\ q = Lost(was) /\ name = "me" /\ pRole = "guest"
    <3>1. Right("me") = {None} \cup Fields /\ ProfileData("me") = Fields
      BY <2>4 DEF Right, ProfileData, OwnPage
    <3>2. q.data \in {None} \cup Fields
      BY <1>3, <2>4, <3>1 DEF Fetches
    <3>3. ~IsServed(q)
      BY <1>2, <2>4 DEF Lost, IsServed, Fetches, QueryField
    <3>. QED BY <1>2, <2>4, <3>1, <3>2, <3>3 DEF Fits
  <2>. QED BY <1>1, <2>1, <2>2, <2>3, <2>4
<1>. QED BY <1>4, <1>5, <1>6 DEF ProfileSaved

(* The dialogs. *)
LEMMA ProfileDialogs ==
    ASSUME ProfileSaved, UNCHANGED <<pRole, pStore, pQuery, pWrites, pMissed>>,
           pEditor' = pEditor \/ EditorSound',
           pAvatar' = pAvatar \/ AvatarSound',
           pReport' = pReport \/ ReportSound'
    PROVE  ProfileSaved'
<1>1. EditorSound'
  BY DEF ProfileSaved, EditorSound
<1>2. AvatarSound'
  BY DEF ProfileSaved, AvatarSound
<1>3. ReportSound'
  BY DEF ProfileSaved, ReportSound
<1>4. ProfileStored' /\ ProfileWrites' /\ ProfileFetched'
  BY DEF ProfileSaved, ProfileStored, ProfileWrites, ProfileFetched, ProfileQueries, ProfileData,
         Right, OwnPage
<1>. QED BY <1>1, <1>2, <1>3, <1>4 DEF ProfileSaved

(* A write begins. *)
LEMMA ProfileSends ==
    ASSUME ProfileSaved, NEW op \in {"update", "avatar", "follow", "report"}, NEW arg,
           SendProfile(op, arg), UNCHANGED <<pRole, pStore, pQuery, pReport, pMissed>>,
           op = "update" => /\ pRole = "editor" /\ DOMAIN arg = {"id", "typed", "patch"}
                            /\ \A f \in DOMAIN arg.patch : arg.patch[f] \in Nat,
           op = "avatar" => OwnPage /\ arg \in Nat,
           op = "follow" => arg \in BOOLEAN,
           op \in {"update", "avatar"} => pQuery.me.data # None,
           op \in {"avatar", "follow"} => "profile" \in ProfileQueries /\ pQuery.profile.data # None,
           EditorSound', AvatarSound'
    PROVE  ProfileSaved'
<1>1. pWrites' = pWrites \cup {Sent(op, arg)}
  BY DEF SendProfile
<1>2. ProfileStored'
  BY DEF ProfileSaved, ProfileStored, ProfileQueries, ProfileData
<1>3. ReportSound'
  BY DEF ProfileSaved, ReportSound
<1>4. ProfileWrites'
  BY <1>1, SentIsWrite DEF ProfileSaved, ProfileWrites, ProfileQueries, OwnPage
<1>5. ProfileFetched'
  <2>1. \A ops : Settling(pWrites', ops) <=> Settling(pWrites, ops)
    BY <1>1, WriteBegins
  <2>. QED BY <2>1 DEF ProfileSaved, ProfileFetched, ProfileQueries, Right, OwnPage
<1>. QED BY <1>2, <1>3, <1>4, <1>5 DEF ProfileSaved

(* A write that leaves the avatar alone leaves its dialog. *)
LEMMA AvatarStays ==
    ASSUME AvatarSound, UNCHANGED <<pRole, pQuery, pAvatar>>,
           NEW op, op # "avatar", NEW arg,
           \/ pWrites' = pWrites \cup {Sent(op, arg)}
           \/ \E w \in pWrites : w.op = op /\ pWrites' = pWrites \ {w}
    PROVE  AvatarSound'
<1>1. Sent(op, arg).op = op
  BY SentIsWrite
<1>2. Pending(pWrites', "avatar") <=> Pending(pWrites, "avatar")
  BY <1>1 DEF Pending
<1>. QED BY <1>1, <1>2 DEF AvatarSound

LEMMA EditorStays ==
    ASSUME EditorSound, UNCHANGED <<pRole, pQuery, pEditor>>,
           \/ pWrites \subseteq pWrites'
           \/ \E w \in pWrites : pWrites' = pWrites \ {w} /\ w.op # "update"
    PROVE  EditorSound'
BY DEF EditorSound

(* What the server saves is fit to be shown. *)
LEMMA PatchStored ==
    ASSUME ProfileStored, NEW w \in pWrites, w.op = "update", ProfileWrites,
           NEW fs \in SUBSET DOMAIN w.arg.patch, PatchMe(w, fs)
    PROVE  /\ DOMAIN pStore' = DOMAIN pStore /\ pStore'.fields \in Fields
           /\ pStore'.following = pStore.following /\ pStore'.reported = pStore.reported
<1>1. \A f \in fs : Kept(w.arg.patch[f]) \in Nat
  BY DEF ProfileWrites, Kept, Discord
<1>. DEFINE fields == [f \in Field |-> IF f \in fs THEN Kept(w.arg.patch[f])
                                       ELSE pStore.fields[f]]
<1>2. fields \in Fields
  BY <1>1 DEF ProfileStored, Fields
<1>3. pStore' = [pStore EXCEPT !.fields = fields]
  BY DEF PatchMe
<1>. HIDE DEF fields
<1>. QED BY <1>2, <1>3 DEF ProfileStored

LEMMA ProfileServed ==
    ASSUME ProfileSaved, NEW w \in pWrites, ProfileWrite(w)
    PROVE  ProfileSaved'
<1>0. ProfileStored /\ ProfileWrites
  BY DEF ProfileSaved
<1>1. PICK v : v = Done(w)
  OBVIOUS
<1>2. /\ w.at = "sent" /\ pWrites' = Replace(pWrites, w, v)
      /\ UNCHANGED <<pRole, pQuery, pEditor, pAvatar, pReport, pMissed>>
  BY <1>1 DEF ProfileWrite, pUi
<1>3. DOMAIN w = WriteField /\ w.op \in {"update", "avatar", "follow", "report"}
  BY <1>0 DEF ProfileWrites
<1>4. DOMAIN v = WriteField /\ v.at = "done" /\ v.op = w.op /\ v.arg = w.arg
  BY <1>1, <1>3, DoneIsSame
<1>5. /\ DOMAIN pStore' = DOMAIN pStore
      /\ pStore'.fields \in Fields /\ pStore'.following \in BOOLEAN
      /\ pStore'.reported \in BOOLEAN /\ (pStore.reported => pStore'.reported)
      /\ w.op = "report" => pStore'.reported
      /\ w.op \notin {"update", "avatar"} => pStore'.fields = pStore.fields
      /\ w.op # "follow" => pStore'.following = pStore.following
  <2>1. CASE w.op = "update"
    BY <1>0, <2>1, PatchStored DEF ProfileWrite, ProfileStored
  <2>2. CASE w.op = "avatar"
    <3>1. pStore' = [pStore EXCEPT !.fields.avatar = w.arg] /\ w.arg \in Nat
      BY <1>0, <2>2 DEF ProfileWrite, ProfileWrites
    <3>. QED BY <1>0, <2>2, <3>1 DEF ProfileStored, Fields
  <2>3. CASE w.op = "follow"
    <3>1. pStore' = [pStore EXCEPT !.following = w.arg] /\ w.arg \in BOOLEAN
      BY <1>0, <2>3 DEF ProfileWrite, ProfileWrites
    <3>. QED BY <1>0, <2>3, <3>1 DEF ProfileStored
  <2>4. CASE w.op = "report"
    <3>1. pStore' = [pStore EXCEPT !.reported = TRUE]
      BY <2>4 DEF ProfileWrite
    <3>. QED BY <1>0, <2>4, <3>1 DEF ProfileStored
  <2>. QED BY <1>3, <2>1, <2>2, <2>3, <2>4
<1>6. ProfileStored'
  BY <1>0, <1>2, <1>5 DEF ProfileStored, ProfileQueries, ProfileData
<1>7. EditorSound'
  <2>1. \A u \in pWrites : \E x \in pWrites' : x.op = u.op /\ x.arg = u.arg
    BY <1>2, <1>4 DEF Replace
  <2>. QED BY <1>2, <2>1 DEF ProfileSaved, EditorSound
<1>8. AvatarSound'
  <2>1. Pending(pWrites', "avatar") <=> Pending(pWrites, "avatar")
    BY <1>2, <1>4 DEF Pending, Replace
  <2>2. \A u, x \in pWrites' : u.op = "avatar" /\ x.op = "avatar" => u = x
    BY <1>2, <1>4 DEF ProfileSaved, AvatarSound, Replace
  <2>. QED BY <1>2, <2>1, <2>2 DEF ProfileSaved, AvatarSound
<1>9. ReportSound'
  BY <1>2, <1>5 DEF ProfileSaved, ReportSound
<1>10. ProfileWrites'
  BY <1>0, <1>2, <1>4, <1>5 DEF ProfileWrites, ProfileQueries, OwnPage, Replace
<1>11. ProfileFetched'
  <2>. SUFFICES ASSUME NEW name \in ProfileQueries, name \notin pMissed,
                       ~Settling(pWrites', Alters(name))
                PROVE  Fits(pQuery[name], Right(name)')
    BY <1>2 DEF ProfileFetched, ProfileQueries
  <2>1. w.op \notin Alters(name)
    BY <1>2, <1>4, WriteIsServed
  <2>2. ~Settling(pWrites, Alters(name))
    BY <1>2, <1>4, <2>1, WriteIsServed
  <2>3. Right(name)' = Right(name)
    BY <1>2, <1>3, <1>5, <2>1 DEF Right, Alters, OwnPage, ProfileQueries
  <2>. QED BY <2>2, <2>3 DEF ProfileSaved, ProfileFetched
<1>. QED BY <1>6, <1>7, <1>8, <1>9, <1>10, <1>11 DEF ProfileSaved

(* A write is over: what it changed is asked again, or missed. *)
LEMMA ProfileSettles ==
    ASSUME ProfileSaved, NEW w \in pWrites, NEW names,
           pWrites' = pWrites \ {w}, UNCHANGED <<pRole, pStore>>,
           pQuery' = [n \in ProfileQueries |-> IF n \in names THEN Invalidated(pQuery[n])
                                               ELSE pQuery[n]],
           pMissed \subseteq pMissed',
           \A n \in ProfileQueries : n \notin pMissed' =>
             (n \in names /\ pQuery[n].data # None) \/ w.op \notin Alters(n) \/ w.at # "done"
    PROVE  /\ ProfileStored' /\ ProfileWrites' /\ ProfileFetched'
           /\ \A n \in ProfileQueries : pQuery'[n].data = pQuery[n].data
<1>1. /\ DOMAIN pQuery' = ProfileQueries /\ ProfileQueries' = ProfileQueries
      /\ \A n \in ProfileQueries :
           pQuery'[n] = IF n \in names THEN Invalidated(pQuery[n]) ELSE pQuery[n]
      /\ \A n \in ProfileQueries : Fetches(pQuery[n], ProfileData(n))
  BY DEF ProfileSaved, ProfileStored, ProfileQueries
<1>2. \A n \in ProfileQueries : Fetches(pQuery'[n], ProfileData(n)) /\ pQuery'[n].data = pQuery[n].data
  BY <1>1, InvalidatingAsks
<1>3. ProfileStored'
  BY <1>1, <1>2 DEF ProfileSaved, ProfileStored, ProfileData
<1>4. ProfileWrites'
  BY <1>2 DEF ProfileSaved, ProfileWrites, ProfileQueries, OwnPage
<1>5. ProfileFetched'
  <2>. SUFFICES ASSUME NEW n \in ProfileQueries, n \notin pMissed', ~Settling(pWrites', Alters(n))
                PROVE  Fits(pQuery'[n], Right(n))
    BY <1>1 DEF ProfileFetched, Right, OwnPage
  <2>1. CASE n \in names /\ pQuery[n].data # None
    BY <1>1, <2>1, InvalidatingFits DEF Fetches
  <2>2. CASE w.op \notin Alters(n) \/ w.at # "done"
    <3>1. ~Settling(pWrites, Alters(n))
      BY <2>2, WriteIsOver
    <3>2. Fits(pQuery[n], Right(n))
      BY <3>1 DEF ProfileSaved, ProfileFetched
    <3>. QED BY <1>1, <3>2, InvalidatingFits DEF Fetches
  <2>. QED BY <2>1, <2>2
<1>. QED BY <1>2, <1>3, <1>4, <1>5

LEMMA ProfileIsWritten ==
    ASSUME ProfileSaved, NEW w \in pWrites, ProfileWritten(w)
    PROVE  ProfileSaved'
<1>0. PICK names : names = ProfileInvalidates(w.op)
  OBVIOUS
<1>1. /\ w.at = "done" /\ pWrites' = pWrites \ {w}
      /\ pQuery' = [n \in ProfileQueries |-> IF n \in names THEN Invalidated(pQuery[n])
                                              ELSE pQuery[n]]
      /\ pEditor' = IF w.op = "update" THEN None ELSE pEditor
      /\ pAvatar' = IF w.op = "avatar" THEN [pAvatar EXCEPT !.open = FALSE, !.busy = FALSE]
                    ELSE pAvatar
      /\ pReport' = IF ReportOf(w) THEN [pReport EXCEPT !.at = "submitted"] ELSE pReport
      /\ UNCHANGED <<pRole, pStore, pMissed>>
  BY <1>0 DEF ProfileWritten, pHistory
<1>2. \A n \in ProfileQueries : (n \in names /\ pQuery[n].data # None) \/ w.op \notin Alters(n)
  BY <1>0 DEF ProfileSaved, ProfileWrites, ProfileQueries, ProfileInvalidates, Alters
<1>3. /\ ProfileStored' /\ ProfileWrites' /\ ProfileFetched'
      /\ \A n \in ProfileQueries : pQuery'[n].data = pQuery[n].data
  BY <1>1, <1>2, ProfileSettles
<1>4. EditorSound'
  BY <1>1, <1>3 DEF ProfileSaved, EditorSound, ProfileQueries
<1>5. AvatarSound'
  <2>1. CASE w.op = "avatar"
    <3>1. ~Pending(pWrites', "avatar")
      BY <1>1, <2>1 DEF ProfileSaved, AvatarSound, Pending
    <3>. QED BY <1>1, <2>1, <3>1 DEF ProfileSaved, AvatarSound
  <2>2. CASE w.op # "avatar"
    <3>1. Pending(pWrites', "avatar") <=> Pending(pWrites, "avatar")
      BY <1>1, <2>2 DEF Pending
    <3>. QED BY <1>1, <1>3, <2>2, <3>1 DEF ProfileSaved, AvatarSound, ProfileQueries
  <2>. QED BY <2>1, <2>2
<1>6. ReportSound'
  BY <1>1 DEF ProfileSaved, ReportSound, ReportOf, ProfileWrites
<1>. QED BY <1>3, <1>4, <1>5, <1>6 DEF ProfileSaved

(* A failure is shown by the dialog that waited for the request. *)
LEMMA FailureIsShown ==
    ASSUME ProfileSaved, NEW w \in pWrites, ShowFailure(w), pWrites' = pWrites \ {w},
           UNCHANGED <<pRole, pQuery>>
    PROVE  EditorSound' /\ AvatarSound'
<1>1. EditorSound'
  <2>1. CASE EditorOf(w)
    <3>1. pEditor # None /\ pEditor' = [pEditor EXCEPT !.saving = FALSE, !.error = TRUE]
      BY <2>1 DEF ShowFailure, EditorOf
    <3>. QED BY <3>1 DEF ProfileSaved, EditorSound, EditorFields
  <2>2. CASE ~EditorOf(w)
    BY <2>2 DEF ProfileSaved, EditorSound, ShowFailure, EditorOf
  <2>. QED BY <2>1, <2>2
<1>2. AvatarSound'
  <2>1. CASE w.op = "avatar"
    <3>1. ~Pending(pWrites', "avatar") /\ pAvatar' = [pAvatar EXCEPT !.busy = FALSE]
      BY <2>1 DEF ProfileSaved, AvatarSound, Pending, ShowFailure
    <3>. QED BY <2>1, <3>1 DEF ProfileSaved, AvatarSound
  <2>2. CASE w.op # "avatar"
    <3>1. /\ Pending(pWrites', "avatar") <=> Pending(pWrites, "avatar")
          /\ pAvatar' = pAvatar
      BY <2>2 DEF Pending, ShowFailure
    <3>. QED BY <2>2, <3>1 DEF ProfileSaved, AvatarSound
  <2>. QED BY <2>1, <2>2
<1>. QED BY <1>1, <1>2

LEMMA ProfileFails ==
    ASSUME ProfileSaved, NEW w \in pWrites,
           ProfileWriteFails(w) \/ HalfSaved(w) \/ ReportRefused(w)
    PROVE  ProfileSaved'
<1>0. ProfileStored /\ ProfileWrites
  BY DEF ProfileSaved
<1>1. CASE ProfileWriteFails(w)
  <2>1. /\ pWrites' = pWrites \ {w} /\ ShowFailure(w)
        /\ pMissed' = pMissed \cup IF w.at = "done" THEN ShowsChange(w.op) ELSE {}
        /\ UNCHANGED <<pRole, pStore, pQuery, pReport>>
    BY <1>1 DEF ProfileWriteFails
  <2>2. ProfileStored' /\ ProfileWrites'
    BY <1>0, <2>1 DEF ProfileStored, ProfileWrites, ProfileQueries, ProfileData, OwnPage
  <2>3. ASSUME NEW n \in ProfileQueries, n \notin pMissed', ~Settling(pWrites', Alters(n))
        PROVE  Fits(pQuery[n], Right(n))
    <3>1. w.op \notin Alters(n) \/ w.at # "done"
      BY <1>0, <2>1, <2>3 DEF ProfileWrites, ShowsChange, Alters, ProfileQueries
    <3>2. ~Settling(pWrites, Alters(n))
      BY <2>1, <2>3, <3>1, WriteIsOver
    <3>. QED BY <2>1, <2>3, <3>2 DEF ProfileSaved, ProfileFetched
  <2>4. ProfileFetched'
    BY <2>1, <2>3 DEF ProfileFetched, ProfileQueries, Right, OwnPage
  <2>5. ReportSound'
    BY <2>1 DEF ProfileSaved, ReportSound
  <2>. QED BY <2>1, <2>2, <2>4, <2>5, FailureIsShown DEF ProfileSaved
<1>2. CASE HalfSaved(w)
  <2>1. /\ w.op = "update" /\ "bio" \in DOMAIN w.arg.patch /\ PatchMe(w, {"bio"})
        /\ pWrites' = pWrites \ {w} /\ ShowFailure(w) /\ pMissed' = ProfileQueries
        /\ UNCHANGED <<pRole, pQuery, pReport>>
    BY <1>2 DEF HalfSaved
  <2>2. /\ DOMAIN pStore' = DOMAIN pStore /\ pStore'.fields \in Fields
        /\ pStore'.following = pStore.following /\ pStore'.reported = pStore.reported
    BY <1>0, <2>1, PatchStored
  <2>3. ProfileStored'
    BY <1>0, <2>1, <2>2 DEF ProfileStored, ProfileQueries, ProfileData
  <2>4. ProfileWrites'
    BY <1>0, <2>1, <2>2 DEF ProfileWrites, ProfileQueries, OwnPage
  <2>5. ReportSound'
    BY <2>1, <2>2 DEF ProfileSaved, ReportSound
  <2>6. ProfileFetched'
    BY <2>1 DEF ProfileFetched, ProfileQueries
  <2>. QED BY <2>1, <2>3, <2>4, <2>5, <2>6, FailureIsShown DEF ProfileSaved
<1>3. CASE ReportRefused(w)
  <2>1. /\ w.op = "report" /\ w.at = "sent" /\ pWrites' = pWrites \ {w}
        /\ UNCHANGED <<pRole, pStore, pQuery, pEditor, pAvatar, pMissed>>
        /\ \/ pReport' = pReport
           \/ pReport # None /\ pStore.reported /\ pReport' = [pReport EXCEPT !.at = "already"]
           \/ pReport # None /\ pReport' = [pReport EXCEPT !.at = "cooling"]
    BY <1>3 DEF ReportRefused, ReportOf, pHistory
  <2>2. ProfileStored' /\ ProfileWrites'
    BY <1>0, <2>1 DEF ProfileStored, ProfileWrites, ProfileQueries, ProfileData, OwnPage
  <2>3. ReportSound'
    BY <2>1 DEF ProfileSaved, ReportSound
  <2>4. EditorSound' /\ AvatarSound'
    BY <2>1, EditorStays, AvatarStays DEF ProfileSaved
  <2>5. ProfileFetched'
    BY <2>1, WriteIsOver DEF ProfileSaved, ProfileFetched, ProfileQueries, Right, OwnPage
  <2>. QED BY <2>2, <2>3, <2>4, <2>5 DEF ProfileSaved
<1>. QED BY <1>1, <1>2, <1>3

LEMMA EditorIsUsed ==
    ASSUME ProfileSaved, BudgetKept, OpenEditor \/ TypeName \/ TypeBio \/ CloseEditor
    PROVE  ProfileSaved'
<1>0. clicks \in Nat /\ clicks + 2 \in Nat
  BY ClientAssumption DEF BudgetKept
<1>1. /\ UNCHANGED <<pRole, pStore, pQuery, pWrites, pMissed, pAvatar, pReport>>
  BY DEF OpenEditor, TypeName, TypeBio, CloseEditor, pHistory
<1>2. EditorSound'
  <2>1. CASE OpenEditor
    <3>1. /\ pRole = "editor" /\ pQuery.me.data # None
          /\ pEditor' = [id |-> clicks, name |-> pQuery.me.data.name, bio |-> pQuery.me.data.bio,
                         typed |-> {}, saving |-> FALSE, error |-> FALSE]
      BY <2>1 DEF OpenEditor, ShownAsOwn
    <3>2. pQuery.me.data \in Fields
      BY <3>1 DEF ProfileSaved, ProfileStored, Fetches, ProfileQueries, ProfileData
    <3>3. pQuery.me.data.name \in Nat /\ pQuery.me.data.bio \in Nat
      BY <3>2 DEF Fields, Field
    <3>. QED BY <1>1, <3>1, <3>3 DEF EditorSound, EditorFields
  <2>2. CASE TypeName \/ TypeBio
    <3>1. pEditor # None /\ EditorSound
      BY <2>2 DEF TypeName, TypeBio, ProfileSaved
    <3>2. PICK v \in Nat :
             \/ pEditor' = [pEditor EXCEPT !.name = v, !.typed = @ \cup {"name"}]
             \/ pEditor' = [pEditor EXCEPT !.bio = v, !.typed = @ \cup {"bio"}]
      BY <1>0, <2>2 DEF TypeName, TypeBio
    <3>3. /\ DOMAIN pEditor' = EditorFields /\ pEditor'.name \in Nat /\ pEditor'.bio \in Nat
          /\ pEditor'.saving = pEditor.saving /\ pEditor'.id = pEditor.id
      BY <3>1, <3>2 DEF EditorSound, EditorFields
    <3>. QED BY <1>1, <3>1, <3>3 DEF EditorSound
  <2>3. CASE CloseEditor
    BY <2>3 DEF CloseEditor, EditorSound
  <2>. QED BY <2>1, <2>2, <2>3
<1>. QED BY <1>1, <1>2, ProfileDialogs

LEMMA EditorIsSaved ==
    ASSUME ProfileSaved, SaveProfile
    PROVE  ProfileSaved'
<1>. DEFINE changed == {f \in {"name", "bio"} : ChangedField(f)}
            patch   == [f \in changed |-> pEditor[f]]
            arg     == [id |-> pEditor.id, typed |-> pEditor.typed, patch |-> patch]
<1>1. /\ pEditor # None /\ UNCHANGED <<pRole, pStore, pQuery, pAvatar, pReport, pMissed>>
      /\ \/ pEditor' = None /\ UNCHANGED pWrites
         \/ /\ pEditor' = [pEditor EXCEPT !.saving = TRUE, !.error = FALSE]
            /\ SendProfile("update", arg)
  BY DEF SaveProfile, pHistory
<1>2. /\ DOMAIN pEditor = EditorFields /\ pEditor.name \in Nat /\ pEditor.bio \in Nat
      /\ pRole = "editor" /\ pQuery.me.data # None
  BY <1>1 DEF ProfileSaved, EditorSound
<1>3. CASE pEditor' = None /\ UNCHANGED pWrites
  <2>1. EditorSound'
    BY <1>3 DEF EditorSound
  <2>. QED BY <1>1, <1>3, <2>1, ProfileDialogs
<1>4. CASE /\ pEditor' = [pEditor EXCEPT !.saving = TRUE, !.error = FALSE]
           /\ SendProfile("update", arg)
  <2>1. \A f \in changed : pEditor[f] \in Nat
    BY <1>2
  <2>2. DOMAIN arg = {"id", "typed", "patch"} /\ arg.id = pEditor.id
        /\ \A f \in DOMAIN arg.patch : arg.patch[f] \in Nat
    BY <2>1
  <2>. HIDE DEF arg
  <2>3. pWrites' = pWrites \cup {Sent("update", arg)}
    BY <1>4 DEF SendProfile
  <2>4. EditorSound'
    BY <1>1, <1>2, <1>4, <2>2, <2>3, SentIsWrite DEF EditorSound, EditorFields
  <2>5. AvatarSound'
    BY <1>1, <2>3, AvatarStays DEF ProfileSaved
  <2>. QED BY <1>1, <1>2, <1>4, <2>2, <2>4, <2>5, ProfileSends
<1>. QED BY <1>1, <1>3, <1>4

LEMMA AvatarIsChanged ==
    ASSUME ProfileSaved, BudgetKept, NEW value \in {Discord, clicks + 2}, ChangeAvatar(value)
    PROVE  ProfileSaved'
<1>1. /\ pAvatar.open /\ ~pAvatar.busy /\ pAvatar' = [pAvatar EXCEPT !.busy = TRUE]
      /\ SendProfile("avatar", value)
      /\ UNCHANGED <<pRole, pStore, pQuery, pEditor, pReport, pMissed>>
  BY DEF ChangeAvatar, pHistory
<1>2. value \in Nat
  BY ClientAssumption DEF BudgetKept, Discord
<1>3. /\ pRole = "avatar" /\ pQuery.me.data # None /\ pQuery.profile.data # None
      /\ ~Pending(pWrites, "avatar")
  BY <1>1 DEF ProfileSaved, AvatarSound
<1>4. pWrites' = pWrites \cup {Sent("avatar", value)}
  BY <1>1 DEF SendProfile
<1>5. EditorSound'
  BY <1>1, <1>4, EditorStays DEF ProfileSaved
<1>6. AvatarSound'
  <2>1. Pending(pWrites', "avatar")
    BY <1>4, SentIsWrite DEF Pending
  <2>2. \A w, v \in pWrites' : w.op = "avatar" /\ v.op = "avatar" => w = v
    BY <1>3, <1>4 DEF Pending
  <2>. QED BY <1>1, <1>3, <2>1, <2>2 DEF ProfileSaved, AvatarSound
<1>. QED
  BY <1>1, <1>2, <1>3, <1>5, <1>6, ProfileSends DEF OwnPage, ProfileQueries

LEMMA ProfileKeeps ==
    ASSUME ProfileSaved, BudgetKept, ProfileNext
    PROVE  ProfileSaved'
<1>0. ProfileStored
  BY DEF ProfileSaved
<1>1. ASSUME NEW f \in {"name", "bio"}, OtherTab(f)
      PROVE  ProfileSaved'
  <2>0. clicks + 2 \in Nat
    BY ClientAssumption DEF BudgetKept
  <2>1. /\ pStore' = [pStore EXCEPT !.fields[f] = clicks + 2] /\ pMissed' = ProfileQueries
        /\ UNCHANGED <<pRole, pQuery, pEditor, pAvatar, pReport, pWrites>>
    BY <1>1 DEF OtherTab, pUi
  <2>2. /\ DOMAIN pStore' = DOMAIN pStore /\ pStore'.fields \in Fields
        /\ pStore'.following = pStore.following /\ pStore'.reported = pStore.reported
    BY <1>0, <2>0, <2>1 DEF ProfileStored, Fields
  <2>3. ProfileStored'
    BY <1>0, <2>1, <2>2 DEF ProfileStored, ProfileQueries, ProfileData
  <2>4. EditorSound' /\ AvatarSound'
    BY <2>1 DEF ProfileSaved, EditorSound, AvatarSound
  <2>5. ReportSound' /\ ProfileWrites'
    BY <2>1, <2>2 DEF ProfileSaved, ReportSound, ProfileWrites, ProfileQueries, OwnPage
  <2>6. ProfileFetched'
    BY <2>1 DEF ProfileFetched, ProfileQueries
  <2>. QED BY <2>3, <2>4, <2>5, <2>6 DEF ProfileSaved
<1>2. CASE OpenAvatar \/ CloseAvatar
  <2>1. /\ UNCHANGED <<pRole, pStore, pQuery, pEditor, pReport, pWrites, pMissed>>
        /\ \/ /\ pAvatar' = [pAvatar EXCEPT !.open = TRUE]
              /\ pRole = "avatar" /\ ProfileShown /\ pQuery.me.data # None
           \/ pAvatar' = [pAvatar EXCEPT !.open = FALSE]
    BY <1>2 DEF OpenAvatar, CloseAvatar, ShownAsOwn, pHistory
  <2>2. AvatarSound'
    BY <2>1 DEF ProfileSaved, AvatarSound, ProfileShown, ProfileQueries
  <2>. QED BY <2>1, <2>2, ProfileDialogs
<1>3. CASE FollowButton
  <2>. DEFINE arg == ~pQuery.profile.data.following
  <2>1. /\ UNCHANGED <<pRole, pStore, pQuery, pEditor, pAvatar, pReport, pMissed>>
        /\ ProfileShown /\ ~ShownAsOwn
        /\ \/ UNCHANGED pWrites
           \/ pQuery.me.data # None /\ SendProfile("follow", arg)
    BY <1>3 DEF FollowButton, pHistory
  <2>2. CASE UNCHANGED pWrites
    BY <2>1, <2>2, ProfileDialogs
  <2>3. CASE pQuery.me.data # None /\ SendProfile("follow", arg)
    <3>1. "profile" \in ProfileQueries /\ pQuery.profile.data # None
      BY <2>1, <2>3 DEF ProfileShown, ShownAsOwn, OwnPage, ProfileQueries
    <3>2. arg \in BOOLEAN
      OBVIOUS
    <3>. HIDE DEF arg
    <3>3. pWrites' = pWrites \cup {Sent("follow", arg)}
      BY <2>3 DEF SendProfile
    <3>4. EditorSound' /\ AvatarSound'
      BY <2>1, <3>3, EditorStays, AvatarStays DEF ProfileSaved
    <3>. QED BY <2>1, <2>3, <3>1, <3>2, <3>4, ProfileSends
  <2>. QED BY <2>1, <2>2, <2>3
<1>4. CASE SubmitReport
  <2>1. /\ SendProfile("report", pReport.id)
        /\ UNCHANGED <<pRole, pStore, pQuery, pEditor, pAvatar, pReport, pMissed>>
    BY <1>4 DEF SubmitReport, pUi, pHistory
  <2>2. EditorSound' /\ AvatarSound'
    BY <2>1, EditorStays, AvatarStays DEF ProfileSaved, SendProfile
  <2>. QED BY <2>1, <2>2, ProfileSends
<1>5. CASE CloseSignIn \/ OpenReport \/ FillReport \/ CloseReport \/ ReportCooled
  <2>1. UNCHANGED <<pRole, pStore, pQuery, pEditor, pAvatar, pWrites, pMissed>>
    BY <1>5 DEF CloseSignIn, OpenReport, FillReport, CloseReport, ReportCooled, pHistory
  <2>2. ReportSound'
    BY <1>5, <2>1
    DEF CloseSignIn, OpenReport, FillReport, CloseReport, ReportCooled, ProfileSaved, ReportSound
  <2>. QED BY <2>1, <2>2, ProfileDialogs
<1>. QED
  BY <1>1, <1>2, <1>3, <1>4, <1>5, ProfileQueried, EditorIsUsed, EditorIsSaved,
     AvatarIsChanged, ProfileServed, ProfileIsWritten, ProfileFails
  DEF ProfileNext
--------------------------------------------------------------------------------
(* A later page is waited for exactly while its request is there, which is never  *)
(* taken for None; and a tab at the provider has taken a state there.         *)
ListOrNothing == {None} \cup Position

SheetOfRows == [rows : Seq(Subject \X Position), cursor : ListOrNothing]

MoreWaits ==
    /\ list.cursor \in ListOrNothing
    /\ \A k \in Subject : /\ cache[k] \in {None} \cup SheetOfRows
                          /\ query[k] \in {None, Asked} \cup SheetOfRows
    /\ more \in {None} \cup [of : Subject, after : Position, reply : {None} \cup SheetOfRows]
    /\ loading = (more # None)

StatesKnown == \A t \in Tab : uTabs[t].at = "provider" => uTabs[t].state # None

LEMMA PageIsRows ==
    ASSUME ListsInv, NEW k \in Subject, NEW after, NEW p, p = PageOf(k, after)
    PROVE  p \in SheetOfRows
<1>1. server[k] \subseteq Position
  BY DEF ListsInv, ListsTyped
<1>2. Sheet(p, k)
  BY <1>1, PageIs
<1>3. PICK rows, cursor : p = [rows |-> rows, cursor |-> cursor]
  BY DEF PageOf
<1>4. rows \in Seq({k} \X Position) /\ cursor \in ListOrNothing
  BY <1>2, <1>3 DEF Sheet, Falling, ListOrNothing
<1>5. rows \in Seq(Subject \X Position)
  <2>1. {k} \X Position \subseteq Subject \X Position
    OBVIOUS
  <2>2. Len(rows) \in Nat /\ rows \in [1 .. Len(rows) -> {k} \X Position]
    BY <1>4
  <2>3. rows \in [1 .. Len(rows) -> Subject \X Position]
    BY <2>1, <2>2
  <2>. QED BY <2>2, <2>3
<1>. QED BY <1>3, <1>4, <1>5 DEF SheetOfRows

LEMMA EmptyIsRows ==
    EmptyPage \in SheetOfRows
BY DEF EmptyPage, SheetOfRows, ListOrNothing

LEMMA RequestIsSome ==
    ASSUME NEW m \in [of : Subject, after : Position, reply : {None} \cup SheetOfRows]
    PROVE  m # None
BY ListsAssumption DEF Subject, Position, SheetOfRows, ListOrNothing

(* A first page that arrives, and one that is copied. *)
LEMMA CopiedWaits ==
    ASSUME MoreWaits, NEW p \in SheetOfRows, CopyFirst(p)
    PROVE  list'.cursor \in ListOrNothing
BY DEF MoreWaits, CopyFirst, SheetOfRows

LEMMA QueryWaits ==
    ASSUME MoreWaits, ListsInv, NEW k \in Subject, NEW v \in {None, Asked} \cup SheetOfRows,
           query' = [query EXCEPT ![k] = v], UNCHANGED <<cache, list, loading, more>>
    PROVE  MoreWaits'
<1>1. \A j \in Subject : query'[j] = IF j = k THEN v ELSE query[j]
  BY DEF ListsInv, ListsTyped
<1>. QED BY <1>1 DEF MoreWaits

LEMMA GotWaits ==
    ASSUME MoreWaits, ListsInv, NEW k \in Subject, NEW p \in SheetOfRows, Got(k, p)
    PROVE  MoreWaits'
<1>1. /\ \A j \in Subject : cache'[j] = IF j = k THEN p ELSE cache[j]
      /\ \A j \in Subject : query'[j] = IF j = k THEN None ELSE query[j]
  BY DEF ListsInv, ListsTyped, Got
<1>2. list'.cursor \in ListOrNothing
  BY CopiedWaits DEF Got, Copied, MoreWaits
<1>. QED BY <1>1, <1>2 DEF MoreWaits, Got

LEMMA AppendedWaits ==
    ASSUME MoreWaits, NEW p \in SheetOfRows, list' = Appended(p), more' = None,
           loading' = FALSE, UNCHANGED <<cache, query>>
    PROVE  MoreWaits'
<1>1. list'.cursor \in ListOrNothing
  BY DEF Appended, SheetOfRows
<1>. QED BY <1>1 DEF MoreWaits

LEMMA ListsKeepWaiting ==
    ASSUME MoreWaits, ListsInv, ListsNext
    PROVE  MoreWaits'
<1>1. CASE Ask
  BY <1>1, QueryWaits DEF Ask, ListsInv, ListsTyped
<1>2. ASSUME NEW k \in Subject, Serve(k) PROVE MoreWaits'
  <2>. DEFINE p == PageOf(k, None)
  <2>1. query' = [query EXCEPT ![k] = p] /\ UNCHANGED <<cache, list, loading, more>>
    BY <1>2 DEF Serve
  <2>2. p \in SheetOfRows
    BY PageIsRows
  <2>. HIDE DEF p
  <2>. QED BY <2>1, <2>2, QueryWaits
<1>3. ASSUME NEW k \in Subject, Arrive(k) \/ Refused(k) PROVE MoreWaits'
  BY <1>3, GotWaits, EmptyIsRows DEF Arrive, Refused, MoreWaits
<1>4. ASSUME NEW k \in Subject, Fails(k) PROVE MoreWaits'
  BY <1>4, QueryWaits DEF Fails
<1>5. ASSUME NEW k \in Subject, Move(k) PROVE MoreWaits'
  <2>1. CASE cache[k] # None
    <3>1. list'.cursor \in ListOrNothing
      BY <1>5, <2>1, CopiedWaits DEF Move, MoreWaits
    <3>. QED BY <1>5, <2>1, <3>1 DEF Move, MoreWaits
  <2>2. CASE cache[k] = None
    <3>1. CASE query[k] = None
      BY <1>5, <2>2, <3>1, QueryWaits DEF Move
    <3>2. CASE query[k] # None
      BY <1>5, <2>2, <3>2 DEF Move, MoreWaits
    <3>. QED BY <3>1, <3>2
  <2>. QED BY <2>1, <2>2
<1>6. CASE ClickMore
  <2>. DEFINE asked == [of |-> subject, after |-> Cursor, reply |-> None]
  <2>1. Cursor \in Position
    <3>1. subject \in Subject
      BY DEF ListsInv, ListsTyped
    <3>. QED BY <1>6, <3>1 DEF ClickMore, Cursor, FirstCursor, MoreWaits, ListOrNothing, SheetOfRows
  <2>2. asked \in [of : Subject, after : Position, reply : {None} \cup SheetOfRows]
    BY <2>1 DEF ListsInv, ListsTyped
  <2>3. more' = asked /\ loading' = TRUE /\ UNCHANGED <<list, cache, query>>
    BY <1>6 DEF ClickMore
  <2>. HIDE DEF asked
  <2>. QED BY <2>2, <2>3, RequestIsSome DEF MoreWaits
<1>7. CASE ServeMore
  <2>. DEFINE p == PageOf(more.of, more.after)
  <2>1. more # None /\ more' = [more EXCEPT !.reply = p] /\ UNCHANGED <<list, loading, cache, query>>
    BY <1>7 DEF ServeMore
  <2>2. p \in SheetOfRows
    BY <2>1, PageIsRows DEF MoreWaits
  <2>. HIDE DEF p
  <2>3. more' \in [of : Subject, after : Position, reply : {None} \cup SheetOfRows]
    BY <2>1, <2>2 DEF MoreWaits
  <2>. QED BY <2>1, <2>3, RequestIsSome DEF MoreWaits
<1>8. CASE ArriveMore
  <2>1. more.reply \in SheetOfRows
    BY <1>8 DEF ArriveMore, MoreWaits
  <2>. QED BY <1>8, <2>1, AppendedWaits DEF ArriveMore
<1>9. CASE MoreRefused
  BY <1>9, EmptyIsRows, AppendedWaits DEF MoreRefused
<1>10. CASE MoreFails
  BY <1>10 DEF MoreFails, MoreWaits
<1>11. ASSUME NEW k \in Subject, NEW r, Change(k, r) PROVE MoreWaits'
  BY <1>11 DEF Change, MoreWaits
<1>. QED
  BY <1>1, <1>2, <1>3, <1>4, <1>5, <1>6, <1>7, <1>8, <1>9, <1>10, <1>11 DEF ListsNext

LEMMA ListsRest ==
    ASSUME MoreWaits, UNCHANGED lVars
    PROVE  MoreWaits'
BY DEF lVars, MoreWaits

(* A tab goes to the provider with the state of the click that sent it. *)
LEMMA SignInStates ==
    ASSUME StatesKnown, TabsRemember, BudgetKept, SignInNext
    PROVE  StatesKnown'
<1>1. ASSUME NEW t \in Tab, NEW tab, MoveTab(t, tab), tab.at # "provider" \/ tab.state # None
      PROVE  StatesKnown'
  BY <1>1 DEF StatesKnown, MoveTab, TabsRemember
<1>2. ASSUME NEW t \in Tab, NEW tab, DOMAIN tab = TabField, InitAuth(t, tab)
      PROVE  StatesKnown'
  <2>. DEFINE next == [tab EXCEPT !.at = "provider", !.state = clicks + 1, !.landed = None]
  <2>1. MoveTab(t, next)
    BY <1>2 DEF InitAuth
  <2>2. next.state = clicks + 1
    BY <1>2 DEF TabField
  <2>3. next.state # None
    BY <2>2, ClientAssumption DEF BudgetKept
  <2>. HIDE DEF next
  <2>. QED BY <1>1, <2>1, <2>3
<1>3. \A t \in Tab : DOMAIN uTabs[t] = TabField
  BY DEF TabsRemember, Remembers
<1>4. ASSUME NEW t \in Tab, SignIn(t) \/ AgentRefused(t)
      PROVE  StatesKnown'
  BY <1>2, <1>3, <1>4 DEF SignIn, AgentRefused
<1>5. ASSUME NEW t \in Tab, NEW at, at # "provider",
             \/ MoveTab(t, [uTabs[t] EXCEPT !.at = at])
             \/ MoveTab(t, [uTabs[t] EXCEPT !.at = at, !.sent = uCookie])
             \/ MoveTab(t, GivenUp(t, at))
      PROVE  StatesKnown'
  BY <1>1, <1>3, <1>5 DEF GivenUp, TabField
<1>6. FrontPage # "provider"
  BY DEF FrontPage
<1>7. ASSUME NEW t \in Tab,
             \/ OpenSite(t) \/ OpenAgent(t) \/ Refocus(t) \/ TokenGranted(t) \/ TokenFails(t)
             \/ GoBack(t) \/ Denied(t) \/ Approved(t) \/ CallbackFails(t) \/ AskSession(t)
             \/ SessionFound(t) \/ SessionIssued(t) \/ SessionRefused(t)
      PROVE  StatesKnown'
  <2>1. PICK at : /\ at # "provider"
                  /\ \/ MoveTab(t, [uTabs[t] EXCEPT !.at = at])
                     \/ MoveTab(t, [uTabs[t] EXCEPT !.at = at, !.sent = uCookie])
                     \/ MoveTab(t, GivenUp(t, at))
    BY <1>6, <1>7 DEF OpenSite, OpenAgent, Refocus, TokenGranted, TokenFails, GoBack, Denied,
       Approved, CallbackFails, AskSession, SessionFound, SessionIssued, SessionRefused
  <2>. QED BY <1>5, <2>1
<1>8. ASSUME NEW t \in Tab, Landed(t)
      PROVE  StatesKnown'
  <2>. DEFINE toAgent == uTabs[t].next = "agent"
              at      == CASE toAgent -> "agent"
                           [] ~toAgent /\ uSuspended -> "suspended"
                           [] OTHER -> "player"
              tab     == [uTabs[t] EXCEPT !.next = None, !.at = at,
                                          !.landed = IF toAgent THEN "agent" ELSE "site"]
  <2>1. at # "provider"
    OBVIOUS
  <2>2. MoveTab(t, tab)
    BY <1>8 DEF Landed
  <2>3. tab.at # "provider"
    <3>. HIDE DEF at
    <3>. QED BY <1>3, <2>1 DEF TabField
  <2>. HIDE DEF tab
  <2>. QED BY <1>1, <2>2, <2>3
<1>9. ASSUME UNCHANGED uTabs
      PROVE  StatesKnown'
  BY <1>9 DEF StatesKnown
<1>. QED
  BY <1>4, <1>7, <1>8, <1>9 DEF SignInNext, StateExpires, SessionEnds, SuspendPlayer

--------------------------------------------------------------------------------
(* Every page begins well, and keeps what it has while another one is used.    *)
PagesInv ==
    /\ page \in Page /\ BudgetKept
    /\ JourneySaved /\ BacklogSaved /\ SettingsSaved /\ InboxSaved /\ NotesSaved
    /\ AdminSaved /\ ProfileSaved
    /\ TabsRemember /\ StatesKnown
    /\ ListsInv /\ MoreWaits

LEMMA NewQueriesFetch ==
    /\ \A V : Fetches(NewQuery, V) /\ Fetches(NotAsked, V)
    /\ \A V : \A v \in V : Fetches(Cached(v), V)
    /\ \A v : Current(NewQuery, v) /\ Current(Cached(v), v)
    /\ \A F : Fits(NewQuery, F)
    /\ \A F : \A v \in F : Fits(Cached(v), F)
    /\ DOMAIN NewQuery = QueryField /\ DOMAIN NotAsked = QueryField
    /\ InFlight(NewQuery) /\ ~InFlight(NotAsked) /\ ~IsServed(NewQuery) /\ ~IsServed(NotAsked)
    /\ NewQuery.req = "asked" /\ NotAsked.data = None
BY DEF Fetches, Current, Fits, NewQuery, NotAsked, Cached, QueryField, QueryState, IsServed,
       InFlight

LEMMA NothingWrites ==
    \A ops : ~Writing({}, ops) /\ ~Settling({}, ops)
BY DEF Writing, Settling

LEMMA JourneyStarts ==
    ASSUME Init PROVE JourneySaved
<1>1. JourneyInit
  BY DEF Init
<1>2. /\ jStore.version = 1 /\ jStore.owner = FALSE /\ jStore.player = FALSE
      /\ jStore.owner \in BOOLEAN
      /\ jStore.comments = <<1, 2, 3>>
      /\ DOMAIN jStore = {"version", "comments", "next", "texts", "owner", "player"}
      /\ DOMAIN jQuery = Names /\ jQuery.journey = NewQuery /\ jQuery.comments = NewQuery
      /\ jQuery.follow = IF role = "owner" THEN NotAsked ELSE NewQuery
      /\ DOMAIN jForm = {"text", "comment", "journey", "editing"}
      /\ jForm.comment = None /\ ~jForm.journey /\ ~jForm.editing
      /\ jList.rows = <<>> /\ jList.cursor = None /\ jMore = None /\ jFollowing = FALSE
      /\ jWrites = {}
  BY <1>1 DEF JourneyInit, Names
<1>3. JourneySound
  <2>1. Fetches(jQuery.journey, Nat) /\ Fetches(jQuery.follow, BOOLEAN)
    BY <1>2, NewQueriesFetch
  <2>2. DOMAIN jQuery.comments = QueryField /\ jQuery.comments.req \in QueryState
    BY <1>2, NewQueriesFetch DEF QueryState
  <2>3. jStore.version \in Nat /\ jStore.owner \in BOOLEAN
    BY <1>2
  <2>. QED BY <1>2, <2>1, <2>2, <2>3 DEF JourneySound
<1>4. JourneyWaits
  BY <1>2, NewQueriesFetch DEF JourneyWaits
<1>5. JourneyFetched
  BY <1>2, NewQueriesFetch, NothingWrites DEF JourneyFetched
<1>. QED BY <1>3, <1>4, <1>5 DEF JourneySaved

LEMMA BacklogStarts ==
    ASSUME Init PROVE BacklogSaved
<1>1. bStore = <<1, 2>> /\ bQuery = NewQuery /\ bWrites = {} /\ bRemoving = None
  BY DEF Init, BacklogInit
<1>2. bStore \in Seq(Game)
  BY <1>1, BacklogAssumption
<1>3. BacklogSound
  BY <1>1, <1>2, NewQueriesFetch DEF BacklogSound
<1>4. BacklogFetched
  BY <1>1, NewQueriesFetch, NothingWrites DEF BacklogFetched
<1>. QED BY <1>3, <1>4 DEF BacklogSaved

LEMMA SettingsStart ==
    ASSUME Init PROVE SettingsSaved
<1>1. section \in Lists \cup {"preferences", "account"} /\ SettingsInit
  BY DEF Init, On
<1>2. /\ DOMAIN sStore = {"preferences", "rows", "account"}
      /\ sStore.preferences = [s \in Switch |-> TRUE]
      /\ sStore.rows = [e \in Exe |-> IF e = 1 \/ section = "hints" THEN Plain ELSE 0]
      /\ sStore.account = "there" /\ sWanted = sStore.preferences
      /\ DOMAIN sQuery = SettingsQueries /\ sQuery.me = NewQuery
      /\ sQuery.list = IF section \in Lists THEN NewQuery ELSE NotAsked
      /\ DOMAIN sForm = {"confirming", "editing", "typed", "leaving", "deleting", "sure"}
      /\ sForm.confirming = 0 /\ sForm.editing = 0 /\ ~sForm.leaving /\ ~sForm.deleting
      /\ ~sForm.sure /\ sWrites = {}
  BY <1>1 DEF SettingsInit, SettingsQueries
<1>3. sStore.preferences \in Preference /\ sStore.rows \in SettingsRow
  BY <1>2 DEF Preference, SettingsRow, Plain
<1>4. Fetches(sQuery.me, Preference) /\ Fetches(sQuery.list, SettingsRow)
  BY <1>2, NewQueriesFetch
<1>5. SettingsSound
  BY <1>1, <1>2, <1>3, <1>4 DEF SettingsSound
<1>6. SettingsFetched
  BY <1>2, NewQueriesFetch, NothingWrites
  DEF SettingsFetched, MeFetched, SwitchesWanted, ListFetched
<1>. QED BY <1>5, <1>6 DEF SettingsSaved

LEMMA InboxStarts ==
    ASSUME Init PROVE InboxSaved
<1>1. watched \in {"count", "history"} /\ signed \in BOOLEAN /\ InboxInit
  BY DEF Init, On
<1>2. /\ DOMAIN iStore = {"pending", "seen", "confirmed", "added"}
      /\ iStore.pending = {1} /\ iStore.confirmed = 0 /\ iStore.added = 0
      /\ DOMAIN iQuery = InboxQueries /\ iWrites = {}
      /\ iCards = [c \in Card |-> Collapsed]
      /\ \A name \in InboxQueries :
            iQuery[name] = IF name = "count" /\ ~signed THEN NotAsked ELSE NewQuery
  BY <1>1 DEF InboxInit, InboxQueries
<1>3. iStore.pending \in SUBSET Card /\ IsFiniteSet(iStore.pending)
  <2>1. IsFiniteSet({1})
    BY FS_Singleton
  <2>. QED BY <1>2, <2>1, CardAssumption
<1>4. \A name \in InboxQueries : Fetches(iQuery[name], InboxData(name))
  BY <1>2, NewQueriesFetch
<1>5. \A c \in Card : iCards[c] = Collapsed
  BY <1>2
<1>6. InboxSound
  BY <1>1, <1>2, <1>3, <1>4, <1>5 DEF InboxSound, Collapsed
<1>7. InboxFetched
  BY <1>2, NewQueriesFetch DEF InboxFetched
<1>. QED BY <1>6, <1>7 DEF InboxSaved

LEMMA NotesStart ==
    ASSUME Init PROVE NotesSaved
<1>1. direct \in BOOLEAN /\ NotificationsInit
  BY DEF Init, On
<1>2. /\ DOMAIN nStore = {"all", "unread", "profile"} /\ nStore.all = {1} /\ nStore.unread = {1}
      /\ DOMAIN nList = {"rows", "unread"} /\ nList.rows = {} /\ nList.unread = {}
      /\ DOMAIN nMarks = {"sent", "done"} /\ nMarks.sent \in Nat /\ nMarks.done = 0
  BY <1>1 DEF NotificationsInit
<1>3. CASE direct
  <2>1. /\ DOMAIN nQuery = NotificationQueries /\ nQuery.me = NewQuery
        /\ nQuery.page = NotAsked /\ nQuery.dot = NotAsked
    BY <1>1, <1>3 DEF NotificationsInit, NotificationQueries
  <2>2. NotesSound
    BY <1>2, <2>1, NewQueriesFetch DEF NotesSound, NotificationQueries
  <2>3. Fits(NotAsked, {None} \cup SUBSET nStore.unread)
    BY NewQueriesFetch DEF Fits
  <2>4. NotesFetched
    BY <1>2, <2>1, <2>3, NewQueriesFetch DEF NotesFetched, DotFetched, PageFetched, Shows
  <2>. QED BY <2>2, <2>4 DEF NotesSaved
<1>4. CASE ~direct
  <2>1. /\ DOMAIN nQuery = NotificationQueries /\ nQuery.me = Cached(1)
        /\ nQuery.page = NewQuery /\ nQuery.dot = Cached({1})
    BY <1>1, <1>4 DEF NotificationsInit, NotificationQueries
  <2>2. DOMAIN Cached(1) = QueryField /\ DOMAIN Cached({1}) = QueryField
    BY DEF Cached, QueryField
  <2>3. NotesSound
    BY <1>2, <2>1, <2>2, NewQueriesFetch DEF NotesSound, NotificationQueries
  <2>4. {1} \in {None} \cup SUBSET nStore.unread
    BY <1>2
  <2>5. NotesFetched
    BY <1>2, <2>1, <2>4, NewQueriesFetch DEF NotesFetched, DotFetched, PageFetched
  <2>. QED BY <2>3, <2>5 DEF NotesSaved
<1>. QED BY <1>1, <1>3, <1>4

LEMMA AdminStarts ==
    ASSUME Init PROVE AdminSaved
<1>1. /\ admin \in BOOLEAN /\ aQuery = NotAsked /\ aFresh = FALSE /\ aTab = "reports"
      /\ aDialog = None /\ aAway = FALSE /\ aWrites = {} /\ aOutdated = {}
  BY DEF Init, On, AdminInit
<1>2. AdminSound
  BY <1>1, NewQueriesFetch DEF AdminSound
<1>3. ActsExplained /\ ListCurrent
  BY <1>1, NewQueriesFetch DEF ActsExplained, ListCurrent, Mounted
<1>. QED BY <1>2, <1>3 DEF AdminSaved, AdminFetched

LEMMA ProfileStarts ==
    ASSUME Init PROVE ProfileSaved
<1>1. pRole \in {"editor", "avatar", "visitor", "guest"} /\ ProfileInit
  BY DEF Init, On
<1>2. /\ DOMAIN pStore = {"fields", "following", "reported"}
      /\ pStore.fields = [f \in Field |-> Discord] /\ pStore.following = FALSE
      /\ pStore.reported = FALSE
      /\ DOMAIN pQuery = ProfileQueries /\ \A name \in ProfileQueries : pQuery[name] = NewQuery
      /\ pEditor = None /\ pReport = None /\ pWrites = {}
      /\ DOMAIN pAvatar = {"open", "busy"} /\ pAvatar.open = FALSE /\ pAvatar.busy = FALSE
  BY <1>1 DEF ProfileInit
<1>3. pStore.fields \in Fields
  BY <1>2 DEF Fields, Discord
<1>4. ProfileStored
  BY <1>1, <1>2, <1>3, NewQueriesFetch DEF ProfileStored
<1>5. EditorSound /\ AvatarSound /\ ReportSound /\ ProfileWrites
  BY <1>2 DEF EditorSound, AvatarSound, ReportSound, ProfileWrites, Pending
<1>6. ProfileFetched
  BY <1>2, NewQueriesFetch DEF ProfileFetched
<1>. QED BY <1>4, <1>5, <1>6 DEF ProfileSaved

LEMMA PagesStart ==
    ASSUME Init PROVE PagesInv
<1>1. page \in Page /\ BudgetKept
  BY ClientAssumption DEF Init, BudgetKept
<1>2. TabsRemember /\ StatesKnown
  BY SignInAssumption
  DEF Init, SignInInit, TabsRemember, Remembers, TabField, SigningIn, StatesKnown
<1>3. MoreWaits
  BY ListsAssumption DEF Init, ListsInit, MoreWaits, ListOrNothing
<1>. QED
  BY <1>1, <1>2, <1>3, ListsStart, JourneyStarts, BacklogStarts, SettingsStart, InboxStarts,
     NotesStart, AdminStarts, ProfileStarts
  DEF PagesInv

(* No page is used but the one that is mounted. *)
LEMMA OthersRest ==
    ASSUME PagesInv, faults' = 0 => faults = 0
    PROVE  /\ UNCHANGED jVars => JourneySaved'
           /\ UNCHANGED bVars => BacklogSaved'
           /\ UNCHANGED sVars => SettingsSaved'
           /\ UNCHANGED iVars => InboxSaved'
           /\ UNCHANGED nVars => NotesSaved'
           /\ UNCHANGED aVars => AdminSaved'
           /\ UNCHANGED pVars => ProfileSaved'
           /\ UNCHANGED uVars => TabsRemember' /\ StatesKnown'
           /\ UNCHANGED lVars => MoreWaits'
<1>1. ASSUME UNCHANGED jVars PROVE JourneySaved'
  <2>1. JourneySaved
    BY DEF PagesInv
  <2>. QED BY <1>1, <2>1, JourneyRests DEF jVars, jUi, jHistory
<1>2. ASSUME UNCHANGED bVars PROVE BacklogSaved'
  <2>1. BacklogSaved
    BY DEF PagesInv
  <2>. QED BY <1>2, <2>1, BacklogRests DEF bVars
<1>3. ASSUME UNCHANGED sVars PROVE SettingsSaved'
  <2>1. SettingsSaved
    BY DEF PagesInv
  <2>. QED BY <1>3, <2>1, SettingsRest DEF sVars, SettingsSaved, SettingsSound
<1>4. ASSUME UNCHANGED iVars PROVE InboxSaved'
  <2>1. InboxSaved
    BY DEF PagesInv
  <2>. QED BY <1>4, <2>1, InboxShown DEF iVars, iUi
<1>5. ASSUME UNCHANGED nVars PROVE NotesSaved'
  <2>1. NotesSaved
    BY DEF PagesInv
  <2>. QED BY <1>5, <2>1, NotesRest DEF nVars
<1>6. ASSUME UNCHANGED aVars PROVE AdminSaved'
  <2>1. AdminSaved
    BY DEF PagesInv
  <2>2. UNCHANGED <<admin, aStore, aQuery, aFresh, aTab, aDialog, aAway, aWrites, aOutdated, aExcused>>
    BY <1>6 DEF aVars, aUi
  <2>3. ListCurrent => ListCurrent'
    BY <2>2 DEF ListCurrent, Mounted
  <2>4. DOMAIN aQuery' = QueryField
    BY <2>1, <2>2 DEF AdminSaved, AdminSound
  <2>. QED BY <2>1, <2>2, <2>3, <2>4, AdminListMoves
<1>7. ASSUME UNCHANGED pVars PROVE ProfileSaved'
  <2>1. ProfileSaved
    BY DEF PagesInv
  <2>. QED BY <1>7, <2>1, ProfileDialogs DEF pVars, pUi, pHistory
<1>8. ASSUME UNCHANGED uVars PROVE TabsRemember' /\ StatesKnown'
  BY <1>8 DEF uVars, PagesInv, TabsRemember, StatesKnown
<1>9. ASSUME UNCHANGED lVars PROVE MoreWaits'
  BY <1>9, ListsRest DEF PagesInv
<1>. QED BY <1>1, <1>2, <1>3, <1>4, <1>5, <1>6, <1>7, <1>8, <1>9

LEMMA PagesStep ==
    ASSUME PagesInv, [Next]_vars
    PROVE  PagesInv'
<1>1. BudgetKept' /\ (faults' = 0 => faults = 0)
  BY BudgetStays DEF PagesInv
<1>2. page' \in Page
  BY DEF Next, vars, PagesInv
<1>3. ListsInv'
  BY ListsStep DEF PagesInv
<1>4. JourneySaved'
  <2>1. JourneyNext \/ UNCHANGED jVars
    BY DEF Next, vars
  <2>. QED BY <1>1, <2>1, JourneyKeeps, OthersRest DEF PagesInv
<1>5. BacklogSaved'
  <2>1. BacklogNext \/ UNCHANGED bVars
    BY DEF Next, vars
  <2>. QED BY <1>1, <2>1, BacklogKeeps, OthersRest DEF PagesInv
<1>6. SettingsSaved'
  <2>1. SettingsNext \/ UNCHANGED sVars
    BY DEF Next, vars
  <2>. QED BY <1>1, <2>1, SettingsKeep, OthersRest DEF PagesInv
<1>7. InboxSaved'
  <2>1. InboxNext \/ UNCHANGED iVars
    BY DEF Next, vars
  <2>. QED BY <1>1, <2>1, InboxKeeps, OthersRest DEF PagesInv
<1>8. NotesSaved'
  <2>1. NotificationsNext \/ UNCHANGED nVars
    BY DEF Next, vars
  <2>. QED BY <1>1, <2>1, NotesKeep, OthersRest DEF PagesInv
<1>9. AdminSaved'
  <2>1. AdminNext \/ UNCHANGED aVars
    BY DEF Next, vars
  <2>. QED BY <1>1, <2>1, AdminKeeps, OthersRest DEF PagesInv
<1>10. ProfileSaved'
  <2>1. ProfileNext \/ UNCHANGED pVars
    BY DEF Next, vars
  <2>. QED BY <1>1, <2>1, ProfileKeeps, OthersRest DEF PagesInv
<1>11. TabsRemember' /\ StatesKnown'
  <2>1. SignInNext \/ UNCHANGED uVars
    BY DEF Next, vars
  <2>. QED BY <1>1, <2>1, SignInKeeps, SignInStates, OthersRest DEF PagesInv
<1>12. MoreWaits'
  <2>1. ListsNext \/ UNCHANGED lVars
    BY DEF Next, vars
  <2>. QED BY <1>1, <2>1, ListsKeepWaiting, OthersRest DEF PagesInv
<1>. QED
  BY <1>1, <1>2, <1>3, <1>4, <1>5, <1>6, <1>7, <1>8, <1>9, <1>10, <1>11, <1>12 DEF PagesInv

--------------------------------------------------------------------------------
(* What a page waits for is on its way: the request of every button, switch or  *)
(* dialog that is disabled until it is answered is in flight (the loading and  *)
(* pending flags of JourneyDetail, Backlog, Profile and the paged lists), and   *)
(* what is open is open on what is shown; for any number of rows and clicks.  *)
THEOREM PagesWait == Spec => []PagesTypeOK
<1>1. PagesInv => PagesTypeOK
  <2>. SUFFICES ASSUME PagesInv PROVE PagesTypeOK
    OBVIOUS
  <2>1. page \in Page /\ clicks \in 0 .. MaxClicks /\ faults \in 0 .. MaxFaults
    BY DEF PagesInv, BudgetKept
  <2>2. jMore # None => JourneyShown \/ jList.rows # <<>>
    BY DEF PagesInv, JourneySaved, JourneyWaits
  <2>3. bRemoving # None => \E w \in bWrites : w.op = "remove" /\ w.arg = bRemoving
    BY DEF PagesInv, BacklogSaved, BacklogSound
  <2>4. sForm.sure => sForm.deleting
    BY DEF PagesInv, SettingsSaved, SettingsSound
  <2>5. \A c \in Card : iCards[c].at # "collapsed" => CardShown(c)
    BY DEF PagesInv, InboxSaved, InboxSound
  <2>6. nMarks.sent \in Nat /\ nMarks.done \in Nat
    BY DEF PagesInv, NotesSaved, NotesSound
  <2>7. aDialog # None => admin /\ ~aAway
    BY DEF PagesInv, AdminSaved, AdminSound
  <2>8. pAvatar.busy = Pending(pWrites, "avatar")
    BY DEF PagesInv, ProfileSaved, AvatarSound, Pending
  <2>9. (pEditor # None /\ pEditor.saving) =>
          \E w \in pWrites : w.op = "update" /\ w.arg.id = pEditor.id
    BY DEF PagesInv, ProfileSaved, EditorSound
  <2>10. \A t \in Tab : uTabs[t].at = "provider" => uTabs[t].state # None
    BY DEF PagesInv, StatesKnown
  <2>11. loading = (more # None)
    BY DEF PagesInv, MoreWaits
  <2>. QED
    BY <2>1, <2>2, <2>3, <2>4, <2>5, <2>6, <2>7, <2>8, <2>9, <2>10, <2>11 DEF PagesTypeOK
<1>. QED BY <1>1, PagesStart, PagesStep, PTL DEF Spec

(* Once its requests are answered a page shows what the server keeps (the       *)
(* queries, mutations and onSuccess handlers of the pages), however refetches, *)
(* invalidations, failures and clicks have overlapped, but for the races that  *)
(* each part excludes.                                                       *)
THEOREM PagesSettle == Spec => []PagesShowSaved
<1>1. PagesInv => PagesShowSaved
  <2>. SUFFICES ASSUME PagesInv PROVE PagesShowSaved
    OBVIOUS
  <2>1. JourneyShowsSaved
    <3>. SUFFICES ASSUME JourneyQuiet, faults = 0, ~jLeft
                  PROVE  /\ jQuery.journey.data = jStore.version
                         /\ (role # "owner" /\ ~jOverlap) => jQuery.follow.data = jStore.owner
                         /\ ~jOverlap => jFollowing = jStore.player
      BY DEF JourneyShowsSaved
    <3>1. jWrites = {} /\ ~InFlight(jQuery.journey) /\ ~InFlight(jQuery.follow)
      BY DEF JourneyQuiet, Names
    <3>2. JourneyFetched
      BY DEF PagesInv, JourneySaved
    <3>. QED BY <3>1, <3>2, NothingWrites DEF JourneyFetched, Current
  <2>2. BacklogShowsOrder
    <3>. SUFFICES ASSUME bWrites = {}, ~InFlight(bQuery), ~bRaced
                  PROVE  Entries = bStore
      BY DEF BacklogShowsOrder
    <3>1. bQuery.data = bStore /\ bStore \in Seq(Game)
      BY NothingWrites DEF PagesInv, BacklogSaved, BacklogSound, BacklogFetched, Current
    <3>. QED BY <3>1, BacklogAssumption DEF Entries
  <2>3. SettingsShowSaved
    <3>. SUFFICES ASSUME sWrites = {}, \A name \in SettingsQueries : ~InFlight(sQuery[name]),
                         faults = 0, ~sOverlap, sStore.account = "there"
                  PROVE  /\ sQuery.me.data = sStore.preferences
                         /\ section = "preferences" => sQuery.me.data = sWanted
                         /\ section \in Lists => sQuery.list.data = sStore.rows
      BY DEF SettingsShowSaved
    <3>1. ~InFlight(sQuery.me) /\ ~InFlight(sQuery.list)
      BY DEF SettingsQueries
    <3>2. MeFetched /\ SwitchesWanted /\ ListFetched
      BY DEF PagesInv, SettingsSaved, SettingsFetched
    <3>. QED BY <3>1, <3>2, NothingWrites DEF MeFetched, SwitchesWanted, ListFetched, Current
  <2>4. InboxShowsSaved
    <3>. SUFFICES ASSUME iWrites = {}, \A name \in InboxQueries : ~InFlight(iQuery[name]), signed
                  PROVE  /\ "pending" \notin iMissed => iQuery.pending.data \subseteq iStore.pending
                         /\ (watched = "count" /\ watched \notin iMissed) =>
                              iQuery.count.data <= Cardinality(iStore.pending)
                         /\ (watched = "history" /\ watched \notin iMissed) =>
                              iQuery.history.data = iStore.confirmed + iStore.added
      BY DEF InboxShowsSaved
    <3>1. \A name \in InboxQueries : name \notin iMissed => iQuery[name].data \in Timely(name)
      BY NothingWrites DEF PagesInv, InboxSaved, InboxFetched, Fits
    <3>2. "pending" \notin iMissed => iQuery.pending.data \subseteq iStore.pending
      BY <3>1 DEF Timely, InboxQueries
    <3>3. ASSUME watched = "count", watched \notin iMissed
          PROVE  iQuery.count.data <= Cardinality(iStore.pending)
      <4>1. iQuery.count.data \in 0 .. Cardinality(iStore.pending)
        BY <3>1, <3>3 DEF Timely, InboxQueries
      <4>2. Cardinality(iStore.pending) \in Nat
        BY FS_CardinalityType DEF PagesInv, InboxSaved, InboxSound
      <4>. QED BY <4>1, <4>2
    <3>4. ASSUME watched = "history", watched \notin iMissed
          PROVE  iQuery.history.data = iStore.confirmed + iStore.added
      BY <3>1, <3>4 DEF Timely, InboxQueries
    <3>. QED BY <3>2, <3>3, <3>4
  <2>5. NotificationsShowRead
    <3>. SUFFICES ASSUME NotificationsQuiet
                  PROVE  /\ (nQuery.dot.data # None /\ "dot" \notin nMissed) =>
                              nQuery.dot.data \subseteq nStore.unread
                         /\ "page" \notin nMissed => nList.unread = nStore.unread \cap nList.rows
      BY DEF NotificationsShowRead
    <3>1. nMarks.done = 0 /\ ~InFlight(nQuery.dot) /\ ~InFlight(nQuery.page)
      BY DEF NotificationsQuiet, NotificationQueries, PagesInv, NotesSaved, NotesSound
    <3>. QED BY <3>1 DEF PagesInv, NotesSaved, NotesFetched, DotFetched, PageFetched, Fits, Shows
  <2>6. AdminSeesItsActs
    <3>. SUFFICES ASSUME aWrites = {}, faults = 0
                  PROVE  /\ aOutdated \subseteq aExcused
                         /\ (Mounted /\ ~InFlight(aQuery) /\ SuspendedList \notin aExcused) =>
                              aQuery.data = aStore
      BY DEF AdminSeesItsActs
    <3>. QED BY DEF PagesInv, AdminSaved, AdminFetched, ActsExplained, ListChanged, ListCurrent
  <2>7. ProfileShowsSaved
    <3>1. ReportSound /\ ProfileFetched /\ DOMAIN pQuery = ProfileQueries
      BY DEF PagesInv, ProfileSaved, ProfileStored
    <3>2. ASSUME pWrites = {}, NEW name \in ProfileQueries, ~InFlight(pQuery[name]),
                 name \notin pMissed
          PROVE  pQuery[name].data \in Right(name)
      BY <3>1, <3>2, NothingWrites DEF ProfileFetched, Fits
    <3>3. "me" \in ProfileQueries
      BY DEF ProfileQueries
    <3>. QED BY <3>1, <3>2, <3>3 DEF ProfileShowsSaved, ReportSound, Right, OwnPage
  <2>. QED BY <2>1, <2>2, <2>3, <2>4, <2>5, <2>6, <2>7 DEF PagesShowSaved
<1>. QED BY <1>1, PagesStart, PagesStep, PTL DEF Spec
================================================================================
