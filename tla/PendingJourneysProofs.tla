------------------------ MODULE PendingJourneysProofs ------------------------
(* Proofs of the safety properties of PendingJourneys, for any sessions, any  *)
(* number of requests and any bounds.                                        *)
EXTENDS PendingJourneys, FiniteSetTheorems, TLAPS

USE DEF Unknown

JourneyRows == [id : Nat, exe : Exe, started : Nat \cup {Unknown}, row : Nat,
                parts : SUBSET Played]

Flights == [at : {"journey", "hint", "delete", "exclusion"}, row : Rows]

(* TypeOK, with what a journey and a request in flight are.                  *)
Types == TypeOK /\ journeys \subseteq JourneyRows /\ confirming \cup excluding \subseteq Flights

(* The two outcomes of UpsertPendingJourney. *)
Longer(r, s) == [r EXCEPT !.ended = s.to, !.parts = @ \cup {s}]

Extends(s, r) ==
    /\ nextRow' = nextRow
    /\ r.exe = s.exe
    /\ r.started = s.from \/ Mergeable(r, s)
    /\ pending' = Without(r.id) \cup {Longer(r, s)}

NewRow(s) == [id |-> nextRow, exe |-> s.exe, started |-> s.from, ended |-> s.to, parts |-> {s}]

Adds(s) ==
    /\ nextRow' = nextRow + 1
    /\ SameStart(s) = {}
    /\ pending' = pending \cup {NewRow(s)}

--------------------------------------------------------------------------------
(* What createPending has in hand, by where it stands. *)
LEMMA CreateRecord ==
    ASSUME TypeOK, NEW c \in Slot
    PROVE  /\ create[c].at \in {"hint", "upsert", "journey"} => create[c].session \in Played
           /\ create[c].at = "upsert" => create[c].hinted \in BOOLEAN
           /\ create[c].at \in {"journey", "delete"} => create[c].id \in Nat
BY DEF TypeOK, CreateStates, Idle

LEMMA PlayedTyped ==
    ASSUME NEW s \in Played
    PROVE  s.exe \in Exe /\ s.from \in Nat /\ s.to \in Nat /\ s.from < s.to
BY PendingAssumption DEF Session

(* The transaction extends a row of the executable with the session, found by  *)
(* its start or near enough, or inserts a new one.                           *)
LEMMA UpsertDoes ==
    ASSUME NEW s, NEW id, UpsertPendingJourney(s, id)
    PROVE  (\E r \in pending : id = r.id /\ Extends(s, r)) \/ (id = nextRow /\ Adds(s))
<1>1. ASSUME NEW r \in SameStart(s), id = r.id, Take(r, s), nextRow' = nextRow
      PROVE  r \in pending /\ Extends(s, r)
  BY <1>1 DEF SameStart, Take, Extends, Longer
<1>2. ASSUME NEW r \in MergeTargets(s), id = r.id, Take(r, s), nextRow' = nextRow
      PROVE  r \in pending /\ Extends(s, r)
  BY <1>2 DEF MergeTargets, Mergeable, Take, Extends, Longer
<1>3. ASSUME SameStart(s) = {}, id = nextRow, Insert(s)
      PROVE  Adds(s)
  BY <1>3 DEF Insert, Adds, NewRow
<1>. QED BY <1>1, <1>2, <1>3 DEF UpsertPendingJourney

LEMMA LongerTyped ==
    ASSUME NEW r \in Rows, NEW s \in Played
    PROVE  /\ Longer(r, s) \in Rows
           /\ Longer(r, s).id = r.id /\ Longer(r, s).exe = r.exe
           /\ Longer(r, s).started = r.started /\ Longer(r, s).ended = s.to
           /\ Longer(r, s).parts = r.parts \cup {s}
BY PlayedTyped DEF Longer, Rows

LEMMA NewRowTyped ==
    ASSUME TypeOK, NEW s \in Played
    PROVE  /\ NewRow(s) \in Rows
           /\ NewRow(s).id = nextRow /\ NewRow(s).exe = s.exe
           /\ NewRow(s).started = s.from /\ NewRow(s).ended = s.to /\ NewRow(s).parts = {s}
BY PlayedTyped DEF NewRow, Rows, TypeOK

(* What the transaction leaves in the table is typed. *)
LEMMA UpsertTypes ==
    ASSUME TypeOK, NEW s \in Played, NEW id, UpsertPendingJourney(s, id)
    PROVE  /\ id \in Nat /\ nextRow' \in Nat /\ id < nextRow' /\ nextRow <= nextRow'
           /\ pending' \subseteq Rows
           /\ \A r, q \in pending' : (r.exe = q.exe /\ r.started = q.started) => r = q
           /\ \A r \in pending' : r.id < nextRow'
<1>1. ASSUME NEW r \in pending, id = r.id, Extends(s, r)
      PROVE  /\ id \in Nat /\ nextRow' \in Nat /\ id < nextRow' /\ nextRow <= nextRow'
             /\ pending' \subseteq Rows
             /\ \A p, q \in pending' : (p.exe = q.exe /\ p.started = q.started) => p = q
             /\ \A p \in pending' : p.id < nextRow'
  <2>1. r \in Rows
    BY DEF TypeOK
  <2>2. id \in Nat /\ nextRow' \in Nat /\ id < nextRow' /\ nextRow' = nextRow
    BY <1>1, <2>1 DEF TypeOK, Rows, Extends
  <2>3. pending' \subseteq Rows
    BY <1>1, <2>1, LongerTyped DEF TypeOK, Extends, Without
  <2>4. \A p \in pending' : p.id < nextRow'
    BY <1>1, <2>1, <2>2, LongerTyped DEF TypeOK, Extends, Without
  <2>5. \A q \in Without(r.id) : ~(q.exe = r.exe /\ q.started = r.started)
    BY DEF TypeOK, Without
  <2>6. \A p, q \in pending' : (p.exe = q.exe /\ p.started = q.started) => p = q
    BY <1>1, <2>1, <2>5, LongerTyped DEF TypeOK, Extends, Without
  <2>. QED BY <2>2, <2>3, <2>4, <2>6 DEF TypeOK
<1>2. ASSUME id = nextRow, Adds(s)
      PROVE  /\ id \in Nat /\ nextRow' \in Nat /\ id < nextRow' /\ nextRow <= nextRow'
             /\ pending' \subseteq Rows
             /\ \A r, q \in pending' : (r.exe = q.exe /\ r.started = q.started) => r = q
             /\ \A r \in pending' : r.id < nextRow'
  <2>1. \A r \in pending : ~(r.exe = s.exe /\ r.started = s.from)
    BY <1>2 DEF Adds, SameStart
  <2>2. \A r \in pending : r.id \in Nat
    BY DEF TypeOK, Rows
  <2>. QED BY <1>2, <2>1, <2>2, NewRowTyped DEF TypeOK, Adds
<1>. QED BY <1>1, <1>2, UpsertDoes

(* A journey is inserted with a new id. *)
LEMMA InsertTypes ==
    ASSUME Types, NEW exe \in Exe, NEW started \in Nat \cup {Unknown}, NEW row \in Nat,
           NEW parts \in SUBSET Played, InsertJourney(exe, started, row, parts)
    PROVE  /\ journeys' \subseteq JourneyRows /\ nextJourney' \in Nat
           /\ \A j \in journeys' : j.id < nextJourney' /\ j.exe \in Exe /\ j.parts \subseteq Played
BY DEF Types, TypeOK, InsertJourney, JourneyRows

--------------------------------------------------------------------------------
(* Types. *)

LEMMA TypesKept ==
    ASSUME Types, [Next]_vars
    PROVE  Types'
<1>. USE DEF Types
<1>1. ASSUME NEW c \in Slot, NEW s \in Played, Receive(c, s)
      PROVE  Types'
  BY <1>1, CreateRecord DEF Receive, At, Goto, TypeOK, CreateStates, tables, history, budget
<1>2. ASSUME NEW c \in Slot, LookUpHint(c)
      PROVE  Types'
  BY <1>2, CreateRecord DEF LookUpHint, At, Goto, TypeOK, CreateStates, tables, history, budget
<1>3. ASSUME NEW c \in Slot, LookUpFails(c)
      PROVE  Types'
  BY <1>3, CreateRecord DEF LookUpFails, At, Goto, Fault, TypeOK, CreateStates, tables, history, budget
<1>4. ASSUME NEW c \in Slot, Upsert(c)
      PROVE  Types'
  <2>. DEFINE s == create[c].session
  <2>1. s \in Played /\ create[c].hinted \in BOOLEAN
    BY <1>4, CreateRecord DEF Upsert, At
  <2>2. PICK id : /\ UpsertPendingJourney(s, id)
                  /\ Goto(c, IF create[c].hinted
                             THEN [at |-> "journey", session |-> s, id |-> id] ELSE Idle)
    BY <1>4 DEF Upsert
  <2>3. /\ id \in Nat /\ nextRow' \in Nat /\ pending' \subseteq Rows
        /\ \A r, q \in pending' : (r.exe = q.exe /\ r.started = q.started) => r = q
        /\ \A r \in pending' : r.id < nextRow'
    BY <2>1, <2>2, UpsertTypes
  <2>. HIDE DEF s
  <2>4. create' \in [Slot -> CreateStates]
    <3>1. [at |-> "journey", session |-> s, id |-> id] \in CreateStates
      BY <2>1, <2>3 DEF CreateStates
    <3>2. Idle \in CreateStates
      BY DEF CreateStates
    <3>3. (IF create[c].hinted THEN [at |-> "journey", session |-> s, id |-> id] ELSE Idle)
            \in CreateStates
      BY <3>1, <3>2
    <3>. QED BY <2>2, <3>3 DEF Goto, TypeOK
  <2>5. accepted' = accepted \cup {s}
    BY <1>4 DEF Upsert, s
  <2>. QED BY <1>4, <2>1, <2>3, <2>4, <2>5 DEF Upsert, TypeOK, budget
<1>5. ASSUME NEW c \in Slot, UpsertFails(c) \/ AutoFails(c) \/ AutoDeleteFails(c)
      PROVE  Types'
  BY <1>5, CreateRecord DEF UpsertFails, AutoFails, AutoDeleteFails, Goto, Fault, TypeOK, CreateStates, tables, history, budget
<1>6. ASSUME NEW c \in Slot, AutoInsert(c)
      PROVE  Types'
  <2>. DEFINE s == create[c].session
  <2>1. s \in Played /\ create[c].id \in Nat
    BY <1>6, CreateRecord DEF AutoInsert, At
  <2>2. InsertJourney(s.exe, s.from, 0, {s})
    BY <1>6 DEF AutoInsert
  <2>3. /\ journeys' \subseteq JourneyRows /\ nextJourney' \in Nat
        /\ \A j \in journeys' : j.id < nextJourney' /\ j.exe \in Exe /\ j.parts \subseteq Played
    BY <2>1, <2>2, PlayedTyped, InsertTypes
  <2>4. create' \in [Slot -> CreateStates]
    BY <1>6, <2>1 DEF AutoInsert, Goto, CreateStates, TypeOK
  <2>. QED BY <1>6, <2>3, <2>4 DEF AutoInsert, TypeOK, budget, history
<1>7. ASSUME NEW c \in Slot, AutoDuplicate(c)
      PROVE  Types'
  BY <1>7, CreateRecord DEF AutoDuplicate, At, Goto, TypeOK, CreateStates, tables, history, budget
<1>8. ASSUME NEW c \in Slot, AutoDelete(c)
      PROVE  Types'
  BY <1>8, CreateRecord DEF AutoDelete, Goto, Without, TypeOK, CreateStates, tables, history, budget
<1>9. ASSUME NEW r \in pending, ConfirmRead(r)
      PROVE  Types'
  BY <1>9, CreateRecord DEF ConfirmRead, Click, Flights, TypeOK, CreateStates, tables, history, budget
<1>10. ASSUME NEW f \in confirming, ConfirmInsert(f)
      PROVE  Types'
  <2>1. f \in Flights /\ f.row \in Rows
    BY DEF Flights
  <2>2. InsertJourney(f.row.exe, Unknown, f.row.id, f.row.parts)
    BY <1>10 DEF ConfirmInsert
  <2>3. /\ journeys' \subseteq JourneyRows /\ nextJourney' \in Nat
        /\ \A j \in journeys' : j.id < nextJourney' /\ j.exe \in Exe /\ j.parts \subseteq Played
    <3>1. f.row.exe \in Exe /\ f.row.id \in Nat /\ f.row.parts \in SUBSET Played
      BY <2>1 DEF Rows
    <3>. QED BY <2>2, <3>1, InsertTypes
  <2>4. confirming' \cup excluding' \subseteq Flights
    BY <1>10, <2>1 DEF ConfirmInsert, ConfirmGoto, Flights
  <2>5. \A g \in confirming' \cup excluding' : g.row \in Rows
    BY <2>4 DEF Flights
  <2>. QED BY <1>10, <2>3, <2>4, <2>5 DEF ConfirmInsert, TypeOK, budget, history
<1>11. ASSUME NEW f \in confirming, ConfirmHint(f)
      PROVE  Types'
  <2>1. f \in Flights /\ f.row.exe \in Exe
    BY DEF Flights, Rows
  <2>2. confirming' \cup excluding' \subseteq Flights
    BY <1>11, <2>1 DEF ConfirmHint, ConfirmGoto, Flights
  <2>3. \A g \in confirming' \cup excluding' : g.row \in Rows
    BY <2>2 DEF Flights
  <2>. QED BY <1>11, <2>1, <2>2, <2>3 DEF ConfirmHint, TypeOK, history, budget
<1>12. ASSUME NEW f \in confirming, ConfirmHintFails(f)
      PROVE  Types'
  BY <1>12, CreateRecord DEF ConfirmHintFails, ConfirmGoto, Flights, Fault, TypeOK, CreateStates, tables, history, budget
<1>13. ASSUME NEW f \in confirming, ConfirmDelete(f)
      PROVE  Types'
  BY <1>13, CreateRecord DEF ConfirmDelete, ConfirmEnds, Without, TypeOK, CreateStates, tables, history, budget
<1>14. ASSUME NEW f \in confirming, ConfirmFails(f) \/ ConfirmDeleteFails(f)
      PROVE  Types'
  BY <1>14, CreateRecord DEF ConfirmFails, ConfirmDeleteFails, ConfirmEnds, Fault, TypeOK, CreateStates, tables, history, budget
<1>15. ASSUME NEW r \in pending, Discard(r)
      PROVE  Types'
  BY <1>15, CreateRecord DEF Discard, Dismiss, Without, Row, Click, Rows, flights, TypeOK, CreateStates, tables, history, budget
<1>16. ASSUME NEW r \in pending, ExcludeRead(r)
      PROVE  Types'
  BY <1>16, CreateRecord DEF ExcludeRead, Click, Flights, TypeOK, CreateStates, tables, history, budget
<1>17. ASSUME NEW f \in excluding, ExcludeInsert(f)
      PROVE  Types'
  BY <1>17, CreateRecord DEF ExcludeInsert, Flights, Rows, TypeOK, CreateStates, tables, history, budget
<1>18. ASSUME NEW f \in excluding, ExcludeDelete(f)
      PROVE  Types'
  BY <1>18, CreateRecord DEF ExcludeDelete, Dismiss, Without, Row, Rows, TypeOK, CreateStates, tables, history, budget
<1>19. ASSUME NEW f \in excluding, ExcludeFails(f)
      PROVE  Types'
  BY <1>19, CreateRecord DEF ExcludeFails, Fault, TypeOK, CreateStates, tables, history, budget
<1>20. ASSUME NEW e \in Exe, ChangeExclusion(e) \/ ChangeHint(e)
      PROVE  Types'
  BY <1>20, CreateRecord DEF ChangeExclusion, ChangeHint, Click, flights, TypeOK, CreateStates, tables, history, budget
<1>21. ASSUME NEW j \in journeys, DeleteJourney(j)
      PROVE  Types'
  BY <1>21, CreateRecord DEF DeleteJourney, Click, flights, TypeOK, CreateStates, tables, history, budget
<1>22. ASSUME Crash
      PROVE  Types'
  BY <1>22, CreateRecord DEF Crash, Fault, TypeOK, CreateStates, tables, history, budget
<1>23. ASSUME UNCHANGED vars
      PROVE  Types'
  BY <1>23, CreateRecord DEF vars, flights, TypeOK, CreateStates, tables, history, budget
<1>. QED BY <1>1, <1>2, <1>3, <1>4, <1>5, <1>6, <1>7, <1>8, <1>9, <1>10, <1>11, <1>12, <1>13, <1>14, <1>15, <1>16, <1>17, <1>18, <1>19, <1>20, <1>21, <1>22, <1>23
     DEF Next, CreatePending, Confirm, Exclude

(* Every table, request in flight and history keeps its type, and a pending     *)
(* row is found by its executable and start (the unique index of             *)
(* pending_journeys); for any sessions and bounds.                           *)
THEOREM PendingTypes == Spec => []TypeOK
<1>1. Init => Types
  BY DEF Init, Types, TypeOK, CreateStates
<1>2. Types /\ [Next]_vars => Types'
  BY TypesKept
<1>3. Types => TypeOK
  BY DEF Types
<1>. QED BY <1>1, <1>2, <1>3, PTL DEF Spec

--------------------------------------------------------------------------------
(* The rows.                                                                 *)

(* A row's id is its own, and it holds sessions of its executable only.       *)
RowShape ==
    /\ \A r, q \in pending : r.id = q.id => r = q
    /\ \A r \in pending : \A s \in r.parts : s.exe = r.exe
    /\ RowsAreOneSitting

(* A session that no other can be merged with. *)
Lone(s) == \A t \in Played \ {s} : ~Continues(s, t) /\ ~Continues(t, s)

(* Its row holds nothing else. *)
LoneRows == \A r \in pending : \A s \in r.parts : Lone(s) => r.parts = {s}

RowsMove(s) == (\E r \in pending : Extends(s, r)) \/ Adds(s)

(* Only the transaction of createPending adds to the rows. *)
LEMMA OnlyUpsertAdds ==
    ASSUME Types, [Next]_vars
    PROVE  \/ \E c \in Slot : Upsert(c)
           \/ pending' \subseteq pending /\ nextRow' = nextRow /\ accepted' = accepted
<1>1. ASSUME NEW c \in Slot, CreatePending(c), ~Upsert(c)
      PROVE  pending' \subseteq pending /\ nextRow' = nextRow /\ accepted' = accepted
  BY <1>1 DEF CreatePending, Receive, LookUpHint, LookUpFails, UpsertFails, AutoInsert,
              AutoDuplicate, AutoFails, AutoDelete, AutoDeleteFails, Without, tables, history
<1>2. ASSUME Confirm
      PROVE  pending' \subseteq pending /\ nextRow' = nextRow /\ accepted' = accepted
  BY <1>2 DEF Confirm, ConfirmRead, ConfirmInsert, ConfirmFails, ConfirmHint, ConfirmHintFails,
              ConfirmDelete, ConfirmDeleteFails, Without, tables, history
<1>3. ASSUME Exclude
      PROVE  pending' \subseteq pending /\ nextRow' = nextRow /\ accepted' = accepted
  BY <1>3 DEF Exclude, ExcludeRead, ExcludeInsert, ExcludeDelete, ExcludeFails, Dismiss, Without,
              tables, history
<1>4. ASSUME \/ \E r \in pending : Discard(r)
             \/ \E j \in journeys : DeleteJourney(j)
             \/ \E e \in Exe : ChangeExclusion(e) \/ ChangeHint(e)
             \/ Crash \/ UNCHANGED vars
      PROVE  pending' \subseteq pending /\ nextRow' = nextRow /\ accepted' = accepted
  BY <1>4 DEF Discard, DeleteJourney, ChangeExclusion, ChangeHint, Crash, Dismiss, Without,
              tables, history, vars
<1>. QED BY <1>1, <1>2, <1>3, <1>4 DEF Next

LEMMA UpsertMoves ==
    ASSUME Types, NEW c \in Slot, Upsert(c)
    PROVE  create[c].session \in Played /\ RowsMove(create[c].session)
<1>1. create[c].session \in Played
  BY CreateRecord DEF Upsert, At, Types
<1>2. PICK id : UpsertPendingJourney(create[c].session, id)
  BY DEF Upsert
<1>. QED BY <1>1, <1>2, UpsertDoes DEF RowsMove

(* Sessions of one executable that start together are the same one. *)
LEMMA StartIsOwn ==
    ASSUME NEW s \in Played, NEW t \in Played, s.exe = t.exe, s.from = t.from
    PROVE  s = t
BY PlayedTyped, PendingAssumption

(* Fewer rows are as well-shaped. *)
LEMMA FewerRows ==
    ASSUME pending' \subseteq pending
    PROVE  (RowShape => RowShape') /\ (LoneRows => LoneRows')
BY DEF RowShape, RowsAreOneSitting, LoneRows

(* A row that was extended spans no pause longer than the merge window. *)
LEMMA ExtendedSits ==
    ASSUME Types, RowShape, NEW s \in Played, NEW r \in pending, Extends(s, r)
    PROVE  LET q == Longer(r, s)
           IN  /\ \A p \in q.parts : p.exe = q.exe
               /\ \E p \in q.parts : p.from = q.started
               /\ \E p \in q.parts : p.to = q.ended
               /\ \A p \in q.parts :
                    p.from = q.started \/ \E t \in q.parts : Continues(p, t)
<1>. DEFINE q == Longer(r, s)
<1>1. /\ q.exe = r.exe /\ q.started = r.started /\ q.ended = s.to
      /\ q.parts = r.parts \cup {s} /\ r \in Rows
  BY LongerTyped DEF Types, TypeOK
<1>. HIDE DEF q
<1>2. \A p \in q.parts : p.exe = q.exe
  BY <1>1 DEF RowShape, Extends
<1>3. s.from = r.started \/ \E t \in r.parts : Continues(s, t)
  BY <1>1 DEF Extends, Mergeable, RowShape, RowsAreOneSitting, Continues
<1>4. \A p \in r.parts : p.from = r.started \/ \E t \in r.parts : Continues(p, t)
  BY DEF RowShape, RowsAreOneSitting
<1>5. \E p \in r.parts : p.from = r.started
  BY DEF RowShape, RowsAreOneSitting
<1>6. q = Longer(r, s)
  BY DEF q
<1>. QED BY <1>1, <1>2, <1>3, <1>4, <1>5, <1>6

LEMMA RowsKept ==
    ASSUME Types, RowShape, [Next]_vars
    PROVE  RowShape'
<1>1. ASSUME NEW s \in Played, NEW r \in pending, Extends(s, r)
      PROVE  RowShape'
  <2>. DEFINE q == Longer(r, s)
  <2>1. q.id = r.id /\ r \in Rows
    BY LongerTyped DEF Types, TypeOK
  <2>2. /\ \A p \in q.parts : p.exe = q.exe
        /\ \E p \in q.parts : p.from = q.started
        /\ \E p \in q.parts : p.to = q.ended
        /\ \A p \in q.parts : p.from = q.started \/ \E t \in q.parts : Continues(p, t)
    BY <1>1, ExtendedSits
  <2>3. pending' = Without(r.id) \cup {q}
    BY <1>1 DEF Extends
  <2>. HIDE DEF q
  <2>. QED BY <2>1, <2>2, <2>3 DEF RowShape, RowsAreOneSitting, Without
<1>2. ASSUME NEW s \in Played, Adds(s)
      PROVE  RowShape'
  <2>. DEFINE q == NewRow(s)
  <2>1. /\ q.id = nextRow /\ q.exe = s.exe /\ q.started = s.from /\ q.ended = s.to
        /\ q.parts = {s}
    BY NewRowTyped DEF Types
  <2>2. \A r \in pending : r.id # q.id
    BY <2>1 DEF Types, TypeOK, Rows
  <2>3. pending' = pending \cup {q}
    BY <1>2 DEF Adds
  <2>. HIDE DEF q
  <2>. QED BY <2>1, <2>2, <2>3 DEF RowShape, RowsAreOneSitting
<1>. QED BY <1>1, <1>2, OnlyUpsertAdds, UpsertMoves, FewerRows DEF RowsMove

(* However requests interleave, repeat and fail, no pending row spans a pause  *)
(* longer than the merge window (UpsertPendingJourney); for any sessions, any *)
(* window and any number of requests.                                        *)
THEOREM RowsStayOneSitting == Spec => []RowsAreOneSitting
<1>1. Init => Types /\ RowShape
  BY DEF Init, Types, TypeOK, CreateStates, RowShape, RowsAreOneSitting
<1>2. Types /\ RowShape /\ [Next]_vars => (Types /\ RowShape)'
  BY TypesKept, RowsKept
<1>3. RowShape => RowsAreOneSitting
  BY DEF RowShape
<1>. QED BY <1>1, <1>2, <1>3, PTL DEF Spec

--------------------------------------------------------------------------------
(* A lone session stays alone. *)

LEMMA LoneNotJoined ==
    ASSUME Types, RowShape, LoneRows, NEW s \in Played, NEW r \in pending, Extends(s, r),
           NEW t \in r.parts \cup {s}, Lone(t)
    PROVE  t = s /\ r.parts = {s}
<1>1. PICK a \in r.parts, b \in r.parts : a.from = r.started /\ b.to = r.ended
  BY DEF RowShape, RowsAreOneSitting
<1>2. a \in Played /\ b \in Played /\ t \in Played
  BY DEF Types, TypeOK, Rows
<1>3. a.exe = s.exe /\ b.exe = s.exe
  BY DEF RowShape, Extends
<1>4. CASE r.started = s.from
  <2>1. a = s
    BY <1>1, <1>2, <1>3, <1>4, StartIsOwn
  <2>. QED BY <2>1 DEF LoneRows
<1>5. CASE Mergeable(r, s)
  <2>1. Continues(s, b) /\ b # s
    BY <1>1, <1>2, <1>3, <1>5, PlayedTyped DEF Mergeable, Continues
  <2>2. t # s
    BY <1>2, <2>1 DEF Lone
  <2>3. t = b
    BY <2>2 DEF LoneRows
  <2>. QED BY <1>2, <2>1, <2>3 DEF Lone
<1>. QED BY <1>4, <1>5 DEF Extends

LEMMA LoneRowsKept ==
    ASSUME Types, RowShape, LoneRows, [Next]_vars
    PROVE  LoneRows'
<1>1. ASSUME NEW s \in Played, NEW r \in pending, Extends(s, r)
      PROVE  LoneRows'
  <2>1. r \in Rows /\ Longer(r, s).parts = r.parts \cup {s}
    BY LongerTyped DEF Types, TypeOK
  <2>2. \A t \in Longer(r, s).parts : Lone(t) => Longer(r, s).parts = {t}
    BY <1>1, <2>1, LoneNotJoined
  <2>. QED BY <1>1, <2>2 DEF Extends, LoneRows, Without
<1>2. ASSUME NEW s \in Played, Adds(s)
      PROVE  LoneRows'
  BY <1>2, NewRowTyped DEF Adds, LoneRows, Types
<1>. QED BY <1>1, <1>2, OnlyUpsertAdds, UpsertMoves, FewerRows DEF RowsMove

--------------------------------------------------------------------------------
(* Nothing accepted falls between a pending row and a journey.               *)

(* In a journey, or removed by the user or the maintenance. *)
Placed(s) == (\E j \in journeys : s \in j.parts) \/ s \in dismissed

(* The lone sessions of the row, if it is there, can spare it. *)
Spare(id) == \A r \in pending : r.id = id => \A s \in r.parts : Lone(s) => Placed(s)

(* What a request of the agent holds: the row with its session, then a row     *)
(* that can be spared.                                                       *)
AutoHolds(f) ==
    /\ f.at \in {"journey", "delete"} => f.id < nextRow
    /\ f.at = "journey" => \A r \in pending : r.id = f.id => f.session \in r.parts
    /\ f.at = "delete" => Spare(f.id)

(* What a confirmation holds: a copy with the lone sessions of its row, then a *)
(* row that can be spared.                                                   *)
UserHolds(f) ==
    /\ f.row.id < nextRow
    /\ f.at = "journey" =>
         \A r \in pending : r.id = f.row.id => \A s \in r.parts : Lone(s) => s \in f.row.parts
    /\ f.at # "journey" => Spare(f.row.id)

(* An auto-confirmed journey holds the session it was found by. *)
JourneysHold ==
    \A j \in journeys : j.started # Unknown =>
        \E s \in j.parts : s.exe = j.exe /\ s.from = j.started

Flying ==
    /\ \A c \in Slot : AutoHolds(create[c])
    /\ \A f \in confirming : UserHolds(f)
    /\ JourneysHold

Shape == Types /\ RowShape /\ LoneRows

(* Journeys go only to the dismissed. *)
LEMMA OnlyDismissed ==
    ASSUME Types, [Next]_vars
    PROVE  /\ dismissed \subseteq dismissed'
           /\ \A j \in journeys : j \in journeys' \/ j.parts \subseteq dismissed'
<1>1. ASSUME NEW c \in Slot, CreatePending(c)
      PROVE  dismissed' = dismissed /\ journeys \subseteq journeys'
  BY <1>1 DEF CreatePending, Receive, LookUpHint, LookUpFails, Upsert, UpsertFails, AutoInsert,
              AutoDuplicate, AutoFails, AutoDelete, AutoDeleteFails, InsertJourney, tables,
              history
<1>2. ASSUME Confirm
      PROVE  dismissed' = dismissed /\ journeys \subseteq journeys'
  BY <1>2 DEF Confirm, ConfirmRead, ConfirmInsert, ConfirmFails, ConfirmHint, ConfirmHintFails,
              ConfirmDelete, ConfirmDeleteFails, InsertJourney, tables, history
<1>3. ASSUME \/ Exclude
             \/ \E r \in pending : Discard(r)
             \/ \E e \in Exe : ChangeExclusion(e) \/ ChangeHint(e)
             \/ Crash \/ UNCHANGED vars
      PROVE  dismissed \subseteq dismissed' /\ journeys' = journeys
  BY <1>3 DEF Exclude, ExcludeRead, ExcludeInsert, ExcludeDelete, ExcludeFails, Discard,
              ChangeExclusion, ChangeHint, Crash, Dismiss, tables, history, vars
<1>4. ASSUME NEW j \in journeys, DeleteJourney(j)
      PROVE  dismissed' = dismissed \cup j.parts /\ journeys' = journeys \ {j}
  BY <1>4 DEF DeleteJourney
<1>. QED BY <1>1, <1>2, <1>3, <1>4 DEF Next

LEMMA PlacedStays ==
    ASSUME Types, [Next]_vars, NEW s, Placed(s)
    PROVE  Placed(s)'
BY OnlyDismissed DEF Placed

(* A row with an old id is the row it was, with no lone session more. *)
LEMMA RowsGrow ==
    ASSUME Shape, [Next]_vars
    PROVE  /\ nextRow \in Nat /\ nextRow' \in Nat /\ nextRow <= nextRow'
           /\ \A r \in pending' : r.id < nextRow =>
                \E q \in pending : /\ q.id = r.id /\ q.parts \subseteq r.parts
                                   /\ \A s \in r.parts : Lone(s) => s \in q.parts
<1>. USE DEF Shape
<1>1. ASSUME NEW s \in Played, NEW r \in pending, Extends(s, r)
      PROVE  /\ nextRow' = nextRow
             /\ \A p \in pending' :
                  \E q \in pending : /\ q.id = p.id /\ q.parts \subseteq p.parts
                                     /\ \A t \in p.parts : Lone(t) => t \in q.parts
  <2>1. /\ Longer(r, s).parts = r.parts \cup {s} /\ Longer(r, s).id = r.id
    BY LongerTyped DEF Types, TypeOK
  <2>2. \A t \in Longer(r, s).parts : Lone(t) => t \in r.parts
    BY <1>1, <2>1, LoneNotJoined
  <2>. QED BY <1>1, <2>1, <2>2 DEF Extends, Without
<1>2. ASSUME NEW s \in Played, Adds(s)
      PROVE  /\ nextRow' = nextRow + 1
             /\ \A p \in pending' : p.id < nextRow => p \in pending
  BY <1>2, NewRowTyped DEF Adds, Types, TypeOK
<1>3. nextRow \in Nat
  BY DEF Types, TypeOK
<1>. QED BY <1>1, <1>2, <1>3, OnlyUpsertAdds, UpsertMoves DEF RowsMove

LEMMA SpareStays ==
    ASSUME Shape, [Next]_vars, NEW id, id < nextRow, Spare(id)
    PROVE  Spare(id)'
<1>1. SUFFICES ASSUME NEW r \in pending', r.id = id, NEW s \in r.parts, Lone(s)
               PROVE  Placed(s)'
  BY DEF Spare
<1>2. PICK q \in pending : q.id = id /\ s \in q.parts
  BY <1>1, RowsGrow
<1>3. Placed(s)
  BY <1>1, <1>2 DEF Spare
<1>. QED BY <1>3, PlacedStays DEF Shape

LEMMA AutoHoldsStays ==
    ASSUME Shape, [Next]_vars, NEW f, AutoHolds(f), f.at \in {"journey", "delete"} => f.id \in Nat
    PROVE  AutoHolds(f)'
<1>1. f.at \in {"journey", "delete"} => f.id < nextRow'
  BY RowsGrow DEF AutoHolds
<1>2. ASSUME f.at = "journey", NEW r \in pending', r.id = f.id
      PROVE  f.session \in r.parts
  BY <1>2, RowsGrow DEF AutoHolds
<1>3. f.at = "delete" => Spare(f.id)'
  BY SpareStays DEF AutoHolds
<1>. QED BY <1>1, <1>2, <1>3 DEF AutoHolds

LEMMA UserHoldsStays ==
    ASSUME Shape, [Next]_vars, NEW f \in Flights, UserHolds(f)
    PROVE  UserHolds(f)'
<1>1. f.row.id \in Nat
  BY DEF Flights, Rows
<1>2. f.row.id < nextRow'
  BY <1>1, RowsGrow DEF UserHolds
<1>3. ASSUME f.at = "journey", NEW r \in pending', r.id = f.row.id, NEW s \in r.parts, Lone(s)
      PROVE  s \in f.row.parts
  BY <1>3, RowsGrow DEF UserHolds
<1>4. f.at # "journey" => Spare(f.row.id)'
  BY SpareStays DEF UserHolds
<1>. QED BY <1>2, <1>3, <1>4 DEF UserHolds

(* A request of the agent goes on to w, the others stand where they stood. *)
LEMMA GotoHolds ==
    ASSUME Shape, Flying, [Next]_vars, NEW c \in Slot, NEW w, Goto(c, w), AutoHolds(w)'
    PROVE  (\A d \in Slot : AutoHolds(create[d]))'
<1>1. SUFFICES ASSUME NEW d \in Slot, NEW v, v = create'[d]
               PROVE  AutoHolds(v)'
  BY DEF AutoHolds, Spare, Placed
<1>2. CASE d = c
  BY <1>1, <1>2 DEF Goto, Shape, Types, TypeOK
<1>3. CASE d # c
  <2>1. v = create[d]
    BY <1>1, <1>3 DEF Goto, Shape, Types, TypeOK
  <2>2. AutoHolds(v) /\ (v.at \in {"journey", "delete"} => v.id \in Nat)
    BY <2>1, CreateRecord DEF Flying, Shape, Types
  <2>. QED BY <2>2, AutoHoldsStays
<1>. QED BY <1>2, <1>3

LEMMA CreateStaysHeld ==
    ASSUME Shape, Flying, [Next]_vars, UNCHANGED create
    PROVE  (\A d \in Slot : AutoHolds(create[d]))'
<1>1. SUFFICES ASSUME NEW d \in Slot, NEW v, v = create[d]
               PROVE  AutoHolds(v)'
  BY DEF AutoHolds, Spare, Placed
<1>2. AutoHolds(v) /\ (v.at \in {"journey", "delete"} => v.id \in Nat)
  BY <1>1, CreateRecord DEF Flying, Shape, Types
<1>. QED BY <1>2, AutoHoldsStays

(* A confirmation that is not over, and has not moved, stands where it stood. *)
LEMMA ConfirmingStays ==
    ASSUME Shape, Flying, [Next]_vars, NEW f \in confirming
    PROVE  UserHolds(f)'
BY UserHoldsStays DEF Flying, Shape, Types

LEMMA InsertPlaces ==
    ASSUME NEW exe, NEW started, NEW row, NEW parts, InsertJourney(exe, started, row, parts),
           NEW s \in parts
    PROVE  Placed(s)'
<1>1. PICK j : j = [id |-> nextJourney, exe |-> exe, started |-> started, row |-> row,
                    parts |-> parts]
  OBVIOUS
<1>2. j \in journeys' /\ s \in j.parts
  BY <1>1 DEF InsertJourney
<1>. QED BY <1>2 DEF Placed

(* The row of a lone session of which there is a journey can be spared. *)
LEMMA SpareOfSession ==
    ASSUME Shape, NEW s \in Played, NEW id, UNCHANGED pending, Placed(s)',
           \A r \in pending : r.id = id => s \in r.parts
    PROVE  Spare(id)'
<1>1. SUFFICES ASSUME NEW r \in pending, r.id = id, NEW t \in r.parts, Lone(t)
               PROVE  Placed(t)'
  BY DEF Spare
<1>2. t = s
  BY <1>1 DEF Shape, LoneRows
<1>. QED BY <1>2

--------------------------------------------------------------------------------
(* Each step of the agent's requests holds what it promises. *)
LEMMA CreateHolds ==
    ASSUME Shape, Flying, [Next]_vars, NEW c \in Slot, CreatePending(c)
    PROVE  (\A d \in Slot : AutoHolds(create[d]))'
<1>1. ASSUME NEW w, Goto(c, w), w.at \in {"idle", "hint", "upsert"}
      PROVE  (\A d \in Slot : AutoHolds(create[d]))'
  <2>1. AutoHolds(w)'
    BY <1>1 DEF AutoHolds
  <2>. QED BY <1>1, <2>1, GotoHolds
<1>2. ASSUME NEW s \in Played, Receive(c, s)
      PROVE  \E w : Goto(c, w) /\ w.at \in {"idle", "hint", "upsert"}
  BY <1>2 DEF Receive
<1>3. ASSUME \/ LookUpHint(c) \/ LookUpFails(c) \/ UpsertFails(c) \/ AutoFails(c)
             \/ AutoDelete(c) \/ AutoDeleteFails(c)
      PROVE  \E w : Goto(c, w) /\ w.at \in {"idle", "hint", "upsert"}
  BY <1>3 DEF LookUpHint, LookUpFails, UpsertFails, AutoFails, AutoDelete, AutoDeleteFails, Idle
<1>4. CASE Upsert(c)
  <2>. DEFINE session == create[c].session
  <2>1. PICK s \in Played : s = create[c].session
    BY <1>4, UpsertMoves DEF Shape
  <2>2. PICK id : /\ UpsertPendingJourney(s, id)
                  /\ Goto(c, IF create[c].hinted
                             THEN [at |-> "journey", session |-> s, id |-> id] ELSE Idle)
    BY <1>4, <2>1 DEF Upsert
  <2>3. id < nextRow'
    BY <2>2, UpsertTypes DEF Shape, Types
  <2>4. \A r \in pending' : r.id = id => s \in r.parts
    <3>1. ASSUME NEW r \in pending, id = r.id, Extends(s, r)
          PROVE  \A q \in pending' : q.id = id => s \in q.parts
      <4>1. Longer(r, s).parts = r.parts \cup {s}
        BY LongerTyped DEF Shape, Types, TypeOK
      <4>. QED BY <3>1, <4>1 DEF Extends, Without
    <3>2. ASSUME id = nextRow, Adds(s)
          PROVE  \A q \in pending' : q.id = id => s \in q.parts
      BY <3>2, NewRowTyped DEF Adds, Shape, Types, TypeOK, Rows
    <3>. QED BY <2>2, <3>1, <3>2, UpsertDoes
  <2>5. PICK w : w = [at |-> "journey", session |-> s, id |-> id]
    OBVIOUS
  <2>6. AutoHolds(w)'
    BY <2>3, <2>4, <2>5 DEF AutoHolds
  <2>7. Goto(c, w) \/ Goto(c, Idle)
    BY <2>2, <2>5
  <2>. QED BY <1>1, <2>6, <2>7, GotoHolds DEF Idle
<1>5. ASSUME AutoInsert(c) \/ AutoDuplicate(c)
      PROVE  (\A d \in Slot : AutoHolds(create[d]))'
  <2>1. PICK s \in Played, id \in Nat : s = create[c].session /\ id = create[c].id
    BY <1>5, CreateRecord DEF AutoInsert, AutoDuplicate, At, Shape, Types
  <2>2. AutoHolds(create[c]) /\ create[c].at = "journey"
    BY <1>5 DEF AutoInsert, AutoDuplicate, At, Flying
  <2>3. /\ UNCHANGED <<pending, nextRow>> /\ id < nextRow
        /\ \A r \in pending : r.id = id => s \in r.parts
    BY <1>5, <2>1, <2>2 DEF AutoInsert, AutoDuplicate, AutoHolds, tables
  <2>4. Placed(s)'
    <3>1. CASE AutoInsert(c)
      BY <2>1, <3>1, InsertPlaces DEF AutoInsert
    <3>2. CASE AutoDuplicate(c)
      <4>1. PICK j \in journeys : j.exe = s.exe /\ j.started = s.from
        BY <2>1, <3>2 DEF AutoDuplicate, Recorded
      <4>2. PICK p \in j.parts : p.exe = j.exe /\ p.from = j.started
        BY <4>1, PlayedTyped DEF Flying, JourneysHold
      <4>3. p \in Played
        BY DEF Shape, Types, TypeOK
      <4>4. s \in j.parts
        BY <4>1, <4>2, <4>3, StartIsOwn
      <4>. QED BY <3>2, <4>4 DEF AutoDuplicate, tables, Placed
    <3>. QED BY <1>5, <3>1, <3>2
  <2>5. Spare(id)'
    BY <2>3, <2>4, SpareOfSession
  <2>6. PICK w : w = [at |-> "delete", id |-> id]
    OBVIOUS
  <2>7. AutoHolds(w)'
    BY <2>3, <2>5, <2>6 DEF AutoHolds
  <2>8. Goto(c, w)
    BY <1>5, <2>1, <2>6 DEF AutoInsert, AutoDuplicate
  <2>. QED BY <2>7, <2>8, GotoHolds
<1>. QED BY <1>1, <1>2, <1>3, <1>4, <1>5 DEF CreatePending

(* Each step of a confirmation holds what it promises. *)
LEMMA ConfirmHolds ==
    ASSUME Shape, Flying, [Next]_vars, Confirm
    PROVE  \A f \in confirming' : UserHolds(f)'
<1>. SUFFICES ASSUME NEW g \in confirming', g \notin confirming PROVE UserHolds(g)'
  BY ConfirmingStays
<1>1. ASSUME NEW r \in pending, ConfirmRead(r)
      PROVE  UserHolds(g)'
  <2>1. g = [at |-> "journey", row |-> r] /\ UNCHANGED <<pending, nextRow>>
    BY <1>1 DEF ConfirmRead, tables
  <2>2. \A q \in pending : q.id = r.id => q = r
    BY DEF Shape, RowShape
  <2>3. r.id < nextRow
    BY DEF Shape, Types, TypeOK
  <2>. QED BY <2>1, <2>2, <2>3 DEF UserHolds
<1>2. ASSUME NEW f \in confirming, ConfirmInsert(f)
      PROVE  UserHolds(g)'
  <2>1. f \in Flights /\ UserHolds(f) /\ f.at = "journey"
    BY <1>2 DEF ConfirmInsert, Shape, Types, Flying
  <2>2. g = [f EXCEPT !.at = "hint"] /\ UNCHANGED <<pending, nextRow>>
    BY <1>2 DEF ConfirmInsert, ConfirmGoto
  <2>3. g.row = f.row /\ g.at = "hint"
    BY <2>1, <2>2 DEF Flights
  <2>4. \A s \in f.row.parts : Placed(s)'
    BY <1>2, InsertPlaces DEF ConfirmInsert
  <2>5. Spare(f.row.id)'
    BY <2>1, <2>2, <2>4 DEF UserHolds, Spare
  <2>. QED BY <2>1, <2>2, <2>3, <2>5 DEF UserHolds
<1>3. ASSUME NEW f \in confirming, ConfirmHint(f) \/ ConfirmHintFails(f)
      PROVE  UserHolds(g)'
  <2>1. f \in Flights /\ UserHolds(f) /\ f.at = "hint" /\ UserHolds(f)'
    BY <1>3, ConfirmingStays DEF ConfirmHint, ConfirmHintFails, Shape, Types, Flying
  <2>2. g = [f EXCEPT !.at = "delete"]
    BY <1>3 DEF ConfirmHint, ConfirmHintFails, ConfirmGoto
  <2>3. g.row = f.row /\ g.at = "delete"
    BY <2>1, <2>2 DEF Flights
  <2>. QED BY <2>1, <2>3 DEF UserHolds
<1>. QED
  BY <1>1, <1>2, <1>3
  DEF Confirm, ConfirmFails, ConfirmDelete, ConfirmDeleteFails, ConfirmEnds

LEMMA JourneysHoldKept ==
    ASSUME Shape, JourneysHold, [Next]_vars
    PROVE  JourneysHold'
<1>1. ASSUME NEW c \in Slot, AutoInsert(c)
      PROVE  JourneysHold'
  BY <1>1 DEF AutoInsert, InsertJourney, JourneysHold
<1>2. ASSUME NEW f \in confirming, ConfirmInsert(f)
      PROVE  JourneysHold'
  BY <1>2 DEF ConfirmInsert, InsertJourney, JourneysHold
<1>3. ASSUME journeys' \subseteq journeys
      PROVE  JourneysHold'
  BY <1>3 DEF JourneysHold
<1>4. ASSUME NEW c \in Slot, CreatePending(c), ~AutoInsert(c)
      PROVE  journeys' = journeys
  BY <1>4 DEF CreatePending, Receive, LookUpHint, LookUpFails, Upsert, UpsertFails,
              AutoDuplicate, AutoFails, AutoDelete, AutoDeleteFails, tables
<1>5. ASSUME NEW f \in confirming,
             \/ ConfirmFails(f) \/ ConfirmHint(f) \/ ConfirmHintFails(f)
             \/ ConfirmDelete(f) \/ ConfirmDeleteFails(f)
      PROVE  journeys' = journeys
  BY <1>5 DEF ConfirmFails, ConfirmHint, ConfirmHintFails, ConfirmDelete, ConfirmDeleteFails,
              tables
<1>6. ASSUME \/ \E r \in pending : ConfirmRead(r) \/ Discard(r)
             \/ Exclude \/ Crash \/ UNCHANGED vars
             \/ \E j \in journeys : DeleteJourney(j)
             \/ \E e \in Exe : ChangeExclusion(e) \/ ChangeHint(e)
      PROVE  journeys' \subseteq journeys
  BY <1>6 DEF ConfirmRead, Discard, Exclude, ExcludeRead, ExcludeInsert, ExcludeDelete,
              ExcludeFails, Crash, DeleteJourney, ChangeExclusion, ChangeHint, tables, vars
<1>. QED BY <1>1, <1>2, <1>3, <1>4, <1>5, <1>6 DEF Next, Confirm

LEMMA FlyingKept ==
    ASSUME Shape, Flying, [Next]_vars
    PROVE  Flying'
<1>1. JourneysHold'
  BY JourneysHoldKept DEF Flying
<1>2. ASSUME NEW c \in Slot, CreatePending(c)
      PROVE  (\A d \in Slot : AutoHolds(create[d]))' /\ (\A f \in confirming : UserHolds(f))'
  <2>1. confirming' = confirming
    BY <1>2 DEF CreatePending, Receive, LookUpHint, LookUpFails, Upsert, UpsertFails, AutoInsert,
                AutoDuplicate, AutoFails, AutoDelete, AutoDeleteFails
  <2>. QED BY <1>2, <2>1, CreateHolds, ConfirmingStays
<1>3. CASE Confirm
  <2>1. create' = create
    BY <1>3 DEF Confirm, ConfirmRead, ConfirmInsert, ConfirmFails, ConfirmHint, ConfirmHintFails,
                ConfirmDelete, ConfirmDeleteFails
  <2>. QED BY <1>1, <1>3, <2>1, ConfirmHolds, CreateStaysHeld DEF Flying
<1>4. CASE Crash
  <2>1. AutoHolds(Idle)'
    BY DEF AutoHolds, Idle
  <2>2. (\A d \in Slot : AutoHolds(create[d]))'
    BY <1>4, <2>1 DEF Crash
  <2>. QED BY <1>1, <1>4, <2>2 DEF Crash, Flying
<1>5. ASSUME UNCHANGED <<create, confirming>>
      PROVE  Flying'
  BY <1>1, <1>5, CreateStaysHeld, ConfirmingStays DEF Flying
<1>6. ASSUME \/ Exclude \/ UNCHANGED vars
             \/ \E r \in pending : Discard(r)
             \/ \E j \in journeys : DeleteJourney(j)
             \/ \E e \in Exe : ChangeExclusion(e) \/ ChangeHint(e)
      PROVE  UNCHANGED <<create, confirming>>
  BY <1>6 DEF Exclude, ExcludeRead, ExcludeInsert, ExcludeDelete, ExcludeFails, Discard,
              DeleteJourney, ChangeExclusion, ChangeHint, flights, vars
<1>. QED BY <1>1, <1>2, <1>3, <1>4, <1>5, <1>6 DEF Next, Flying

--------------------------------------------------------------------------------
(* LoneSessionsStay.                                                         *)

LoneKept == \A s \in accepted : Lone(s) => (\E r \in pending : s \in r.parts) \/ Placed(s)

(* A row goes when it can be spared, or by the user's or the maintenance's     *)
(* will.                                                                     *)
LEMMA RowsLeave ==
    ASSUME Shape, Flying, [Next]_vars, NEW r \in pending, r \notin pending',
           \A c \in Slot : ~Upsert(c), NEW s \in r.parts, Lone(s)
    PROVE  Placed(s)'
<1>1. ASSUME NEW id, Spare(id), pending' = Without(id)
      PROVE  Placed(s)'
  <2>1. Placed(s)
    BY <1>1 DEF Spare, Without
  <2>. QED BY <2>1, PlacedStays DEF Shape
<1>2. ASSUME NEW id, Dismiss(id)
      PROVE  Placed(s)'
  BY <1>2 DEF Dismiss, Row, Without, Placed
<1>3. ASSUME NEW c \in Slot, AutoDelete(c)
      PROVE  \E id : Spare(id) /\ pending' = Without(id)
  BY <1>3 DEF AutoDelete, At, Flying, AutoHolds
<1>4. ASSUME NEW f \in confirming, ConfirmDelete(f)
      PROVE  \E id : Spare(id) /\ pending' = Without(id)
  BY <1>4 DEF ConfirmDelete, Flying, UserHolds
<1>5. ASSUME \/ \E q \in pending : Discard(q)
             \/ \E f \in excluding : ExcludeDelete(f)
      PROVE  \E id : Dismiss(id)
  BY <1>5 DEF Discard, ExcludeDelete
<1>6. ASSUME NEW c \in Slot, CreatePending(c), ~AutoDelete(c)
      PROVE  pending' = pending
  BY <1>6 DEF CreatePending, Receive, LookUpHint, LookUpFails, UpsertFails, AutoInsert,
              AutoDuplicate, AutoFails, AutoDeleteFails, tables
<1>7. ASSUME \/ \E q \in pending : ConfirmRead(q) \/ ExcludeRead(q)
             \/ \E f \in confirming : \/ ConfirmInsert(f) \/ ConfirmFails(f) \/ ConfirmHint(f)
                                      \/ ConfirmHintFails(f) \/ ConfirmDeleteFails(f)
             \/ \E f \in excluding : ExcludeInsert(f) \/ ExcludeFails(f)
             \/ \E j \in journeys : DeleteJourney(j)
             \/ \E e \in Exe : ChangeExclusion(e) \/ ChangeHint(e)
             \/ Crash \/ UNCHANGED vars
      PROVE  pending' = pending
  BY <1>7 DEF ConfirmRead, ExcludeRead, ConfirmInsert, ConfirmFails, ConfirmHint,
              ConfirmHintFails, ConfirmDeleteFails, ExcludeInsert, ExcludeFails, DeleteJourney,
              ChangeExclusion, ChangeHint, Crash, tables, vars
<1>. QED BY <1>1, <1>2, <1>3, <1>4, <1>5, <1>6, <1>7 DEF Next, Confirm, Exclude

LEMMA LoneStays ==
    ASSUME Shape, Flying, LoneKept, [Next]_vars
    PROVE  LoneKept'
<1>1. ASSUME NEW c \in Slot, Upsert(c)
      PROVE  LoneKept'
  <2>1. PICK s \in Played : s = create[c].session /\ RowsMove(s)
    BY <1>1, UpsertMoves DEF Shape
  <2>2. accepted' = accepted \cup {s}
    BY <1>1, <2>1 DEF Upsert
  <2>3. /\ \E r \in pending' : s \in r.parts
        /\ \A q \in pending : \E r \in pending' : q.parts \subseteq r.parts
    <3>1. ASSUME NEW r \in pending, Extends(s, r)
          PROVE  /\ \E p \in pending' : s \in p.parts
                 /\ \A q \in pending : \E p \in pending' : q.parts \subseteq p.parts
      <4>1. Longer(r, s).parts = r.parts \cup {s}
        BY LongerTyped DEF Shape, Types, TypeOK
      <4>2. \A q \in pending : q \in Without(r.id) \/ q = r
        BY DEF Without, Shape, RowShape
      <4>. QED BY <3>1, <4>1, <4>2 DEF Extends
    <3>2. ASSUME Adds(s)
          PROVE  /\ \E p \in pending' : s \in p.parts
                 /\ \A q \in pending : \E p \in pending' : q.parts \subseteq p.parts
      BY <3>2, NewRowTyped DEF Adds, Shape, Types
    <3>. QED BY <2>1, <3>1, <3>2 DEF RowsMove
  <2>4. ASSUME NEW t \in accepted', Lone(t)
        PROVE  (\E r \in pending' : t \in r.parts) \/ Placed(t)'
    <3>1. CASE t = s
      BY <2>3, <3>1
    <3>2. CASE t \in accepted
      <4>1. (\E r \in pending : t \in r.parts) \/ Placed(t)
        BY <2>4, <3>2 DEF LoneKept
      <4>. QED BY <2>3, <4>1, PlacedStays DEF Shape
    <3>. QED BY <2>2, <3>1, <3>2
  <2>. QED BY <2>4 DEF LoneKept
<1>2. ASSUME \A c \in Slot : ~Upsert(c), accepted' = accepted
      PROVE  LoneKept'
  <2>1. ASSUME NEW t \in accepted', Lone(t)
        PROVE  (\E r \in pending' : t \in r.parts) \/ Placed(t)'
    <3>1. (\E r \in pending : t \in r.parts) \/ Placed(t)
      BY <1>2, <2>1 DEF LoneKept
    <3>2. ASSUME NEW r \in pending, t \in r.parts
          PROVE  r \in pending' \/ Placed(t)'
      BY <1>2, <2>1, <3>2, RowsLeave
    <3>. QED BY <3>1, <3>2, PlacedStays DEF Shape
  <2>. QED BY <2>1 DEF LoneKept
<1>3. (\E c \in Slot : Upsert(c)) \/ accepted' = accepted
  BY OnlyUpsertAdds DEF Shape
<1>. QED BY <1>1, <1>2, <1>3

(* A session the API accepted, with which no other can be merged, is in a      *)
(* pending row or a journey until the user or the maintenance removes it      *)
(* (confirm and auto-confirm, journeys/handler.go); for any sessions, requests *)
(* and failures.                                                             *)
THEOREM LoneSessionsAreKept == Spec => []LoneSessionsStay
<1>. DEFINE IInv == Shape /\ Flying /\ LoneKept
<1>1. Init => IInv
  <2>. SUFFICES ASSUME Init PROVE IInv
    OBVIOUS
  <2>1. Shape
    BY DEF Init, Shape, Types, TypeOK, CreateStates, RowShape, RowsAreOneSitting, LoneRows
  <2>2. Flying /\ LoneKept
    BY DEF Init, Flying, AutoHolds, Idle, UserHolds, JourneysHold, LoneKept
  <2>. QED BY <2>1, <2>2
<1>2. IInv /\ [Next]_vars => IInv'
  <2>. SUFFICES ASSUME IInv, [Next]_vars PROVE IInv'
    OBVIOUS
  <2>1. Shape'
    BY TypesKept, RowsKept, LoneRowsKept DEF Shape
  <2>. QED BY <2>1, FlyingKept, LoneStays
<1>3. IInv => LoneSessionsStay
  BY DEF LoneKept, Lone, Placed, LoneSessionsStay
<1>. QED BY <1>1, <1>2, <1>3, PTL DEF Spec

--------------------------------------------------------------------------------
(* ConfirmedOnce.                                                            *)

JourneysOf(id) == {j \in journeys : j.row = id}

Inserting(id) == \E f \in confirming : f.row.id = id /\ f.at = "journey"
Inserted(id)  == \E f \in confirming : f.row.id = id /\ f.at # "journey"

(* A journey of this row may yet be inserted. *)
Confirmable(id) == Inserting(id) \/ ((\E r \in pending : r.id = id) /\ ~Inserted(id))

(* One confirmation runs at a time, and ids are used once. *)
OneAtATime ==
    /\ nextRow > 0
    /\ IsFiniteSet(journeys)
    /\ \A f, g \in confirming : f = g
    /\ \A f \in confirming : f.row.id < nextRow
    /\ \A j \in journeys : j.row < nextRow

(* A row has one journey more than there were faults, and that only once it    *)
(* can have no other.                                                        *)
Counted(id) ==
    /\ Cardinality(JourneysOf(id)) <= 1 + faults
    /\ Confirmable(id) => Cardinality(JourneysOf(id)) <= faults

LEMMA FewJourneys ==
    ASSUME OneAtATime, NEW id
    PROVE  IsFiniteSet(JourneysOf(id)) /\ Cardinality(JourneysOf(id)) \in Nat
<1>1. JourneysOf(id) \subseteq journeys
  BY DEF JourneysOf
<1>. QED BY <1>1, FS_Subset, FS_CardinalityType DEF OneAtATime

LEMMA NoneYet ==
    ASSUME Types, OneAtATime, NEW id \in Nat, nextRow <= id
    PROVE  Cardinality(JourneysOf(id)) = 0
<1>1. JourneysOf(id) = {}
  BY DEF JourneysOf, OneAtATime, Types, TypeOK, JourneyRows
<1>. QED BY <1>1, FS_EmptySet

(* A step that inserts no journey of the row, and lets none be inserted, or    *)
(* fails.                                                                    *)
LEMMA CountStays ==
    ASSUME Types, OneAtATime, NEW id \in Nat, Counted(id),
           JourneysOf(id)' \subseteq JourneysOf(id), faults' \in {faults, faults + 1},
           Confirmable(id)' => Confirmable(id) \/ faults' = faults + 1 \/ nextRow <= id
    PROVE  Counted(id)'
<1>1. /\ Cardinality(JourneysOf(id)) \in Nat /\ Cardinality(JourneysOf(id)') \in Nat
      /\ Cardinality(JourneysOf(id)') <= Cardinality(JourneysOf(id))
  BY FewJourneys, FS_Subset, FS_CardinalityType
<1>2. nextRow <= id => Cardinality(JourneysOf(id)) = 0
  BY NoneYet
<1>3. faults \in Nat
  BY DEF Types, TypeOK
<1>4. Cardinality(JourneysOf(id))' = Cardinality(JourneysOf(id)')
  OBVIOUS
<1>. QED BY <1>1, <1>2, <1>3, <1>4 DEF Counted

LEMMA FaultOrNot ==
    ASSUME Types, [Next]_vars
    PROVE  faults' \in {faults, faults + 1}
<1>1. ASSUME NEW c \in Slot, CreatePending(c)
      PROVE  faults' \in {faults, faults + 1}
  BY <1>1 DEF CreatePending, Receive, LookUpHint, LookUpFails, Upsert, UpsertFails, AutoInsert,
              AutoDuplicate, AutoFails, AutoDelete, AutoDeleteFails, Fault, budget
<1>2. ASSUME Confirm \/ Exclude
      PROVE  faults' \in {faults, faults + 1}
  BY <1>2 DEF Confirm, ConfirmRead, ConfirmInsert, ConfirmFails, ConfirmHint, ConfirmHintFails,
              ConfirmDelete, ConfirmDeleteFails, Exclude, ExcludeRead, ExcludeInsert,
              ExcludeDelete, ExcludeFails, Fault, budget
<1>3. ASSUME \/ \E r \in pending : Discard(r)
             \/ \E j \in journeys : DeleteJourney(j)
             \/ \E e \in Exe : ChangeExclusion(e) \/ ChangeHint(e)
             \/ Crash \/ UNCHANGED vars
      PROVE  faults' \in {faults, faults + 1}
  BY <1>3 DEF Discard, DeleteJourney, ChangeExclusion, ChangeHint, Crash, Fault, vars, budget
<1>. QED BY <1>1, <1>2, <1>3 DEF Next

(* Rows with an id that was used are rows that were there. *)
LEMMA OldRows ==
    ASSUME Types, [Next]_vars, NEW id, \E r \in pending' : r.id = id
    PROVE  (\E r \in pending : r.id = id) \/ id = nextRow
<1>1. ASSUME NEW s \in Played, NEW r \in pending, Extends(s, r)
      PROVE  \E q \in pending : q.id = id
  BY <1>1, LongerTyped DEF Extends, Without, Types, TypeOK
<1>2. ASSUME NEW s \in Played, Adds(s)
      PROVE  (\E r \in pending : r.id = id) \/ id = nextRow
  BY <1>2, NewRowTyped DEF Adds, Types
<1>. QED BY <1>1, <1>2, OnlyUpsertAdds, UpsertMoves DEF RowsMove

LEMMA NextRowGrows ==
    ASSUME Types, [Next]_vars
    PROVE  nextRow \in Nat /\ nextRow' \in Nat /\ nextRow <= nextRow'
BY OnlyUpsertAdds, UpsertMoves DEF RowsMove, Extends, Adds, Types, TypeOK

--------------------------------------------------------------------------------
(* Each kind of step keeps one confirmation at a time, and counts.           *)

Once == OneAtATime /\ \A id \in Nat \ {0} : Counted(id)

LEMMA OnceOfOthers ==
    ASSUME Types, Once, [Next]_vars, confirming' = confirming, IsFiniteSet(journeys'),
           \A j \in journeys' : j \in journeys \/ j.row = 0
    PROVE  Once'
<1>1. OneAtATime'
  BY NextRowGrows DEF Once, OneAtATime, Types, TypeOK, Flights, Rows, JourneyRows
<1>2. ASSUME NEW id \in Nat \ {0}
      PROVE  Counted(id)'
  <2>1. JourneysOf(id)' \subseteq JourneysOf(id)
    BY DEF JourneysOf
  <2>2. Confirmable(id)' => Confirmable(id) \/ nextRow <= id
    BY OldRows, NextRowGrows DEF Confirmable, Inserting, Inserted
  <2>. QED BY <2>1, <2>2, FaultOrNot, CountStays DEF Once
<1>. QED BY <1>1, <1>2 DEF Once

(* A step that does not touch the journeys, and after which every confirmation *)
(* in flight is one of before, or follows a fault.                           *)
LEMMA OnceOfConfirm ==
    ASSUME Types, Types', Once, [Next]_vars, journeys' = journeys,
           \A f, g \in confirming' : f = g,
           \A f \in confirming' : f.row.id < nextRow',
           \A id \in Nat \ {0} :
               Confirmable(id)' => Confirmable(id) \/ faults' = faults + 1 \/ nextRow <= id
    PROVE  Once'
<1>1. OneAtATime'
  BY NextRowGrows DEF Once, OneAtATime, Types, JourneyRows
<1>2. ASSUME NEW id \in Nat \ {0}
      PROVE  Counted(id)'
  <2>1. JourneysOf(id)' \subseteq JourneysOf(id)
    BY DEF JourneysOf
  <2>. QED BY <1>2, <2>1, FaultOrNot, CountStays DEF Once
<1>. QED BY <1>1, <1>2 DEF Once

LEMMA OnceOfInsert ==
    ASSUME Types, Once, [Next]_vars, NEW f \in confirming, ConfirmInsert(f)
    PROVE  Once'
<1>. DEFINE hint == [f EXCEPT !.at = "hint"]
            new == [id |-> nextJourney, exe |-> f.row.exe, started |-> Unknown,
                    row |-> f.row.id, parts |-> f.row.parts]
<1>1. f \in Flights /\ f.at = "journey" /\ f.row.id \in Nat /\ f.row.id < nextRow
  BY DEF ConfirmInsert, Types, Flights, Rows, Once, OneAtATime
<1>2. hint.row = f.row /\ hint.at = "hint"
  BY <1>1 DEF Flights
<1>3. confirming' = {hint}
  BY DEF ConfirmInsert, ConfirmGoto, Once, OneAtATime
<1>4. journeys' = journeys \cup {new} /\ new.row = f.row.id
  BY DEF ConfirmInsert, InsertJourney
<1>5. UNCHANGED <<pending, nextRow, faults>>
  BY DEF ConfirmInsert, budget
<1>. HIDE DEF hint, new
<1>6. OneAtATime'
  <2>1. IsFiniteSet(journeys')
    BY <1>4, FS_AddElement DEF Once, OneAtATime
  <2>. QED BY <1>1, <1>2, <1>3, <1>4, <1>5, <2>1 DEF Once, OneAtATime
<1>7. ASSUME NEW id \in Nat \ {0}, id # f.row.id
      PROVE  Counted(id)'
  <2>1. JourneysOf(id)' \subseteq JourneysOf(id)
    BY <1>4, <1>7 DEF JourneysOf
  <2>2. \A g \in confirming : g = f
    BY DEF Once, OneAtATime
  <2>3. Confirmable(id)' => Confirmable(id)
    BY <1>2, <1>3, <1>5, <1>7, <2>2 DEF Confirmable, Inserting, Inserted
  <2>. QED BY <1>5, <2>1, <2>3, CountStays DEF Once
<1>8. ASSUME NEW id \in Nat \ {0}, id = f.row.id
      PROVE  Counted(id)'
  <2>1. Confirmable(id)
    BY <1>1, <1>8 DEF Confirmable, Inserting
  <2>2. ~Confirmable(id)'
    BY <1>2, <1>3, <1>8 DEF Confirmable, Inserting, Inserted
  <2>3. JourneysOf(id)' = JourneysOf(id) \cup {new}
    BY <1>4, <1>8 DEF JourneysOf
  <2>4. /\ Cardinality(JourneysOf(id)) \in Nat
        /\ Cardinality(JourneysOf(id)') <= Cardinality(JourneysOf(id)) + 1
        /\ Cardinality(JourneysOf(id)') \in Nat
    <3>1. IsFiniteSet(JourneysOf(id)) /\ Cardinality(JourneysOf(id)) \in Nat
      BY FewJourneys DEF Once
    <3>2. Cardinality(JourneysOf(id) \cup {new})
            \in {Cardinality(JourneysOf(id)), Cardinality(JourneysOf(id)) + 1}
      BY <3>1, FS_AddElement
    <3>3. Cardinality(JourneysOf(id)') = Cardinality(JourneysOf(id) \cup {new})
      BY <2>3
    <3>. QED BY <3>1, <3>2, <3>3
  <2>5. Cardinality(JourneysOf(id)) <= faults /\ faults \in Nat
    BY <1>8, <2>1 DEF Once, Counted, Types, TypeOK
  <2>6. Cardinality(JourneysOf(id))' = Cardinality(JourneysOf(id)')
    OBVIOUS
  <2>. QED BY <1>5, <2>2, <2>4, <2>5, <2>6 DEF Counted
<1>. QED BY <1>6, <1>7, <1>8 DEF Once

LEMMA OnceKept ==
    ASSUME Types, Once, [Next]_vars
    PROVE  Once'
<1>0. Types'
  BY TypesKept
<1>1. ASSUME NEW c \in Slot, CreatePending(c)
      PROVE  Once'
  <2>1. confirming' = confirming
    BY <1>1 DEF CreatePending, Receive, LookUpHint, LookUpFails, Upsert, UpsertFails, AutoInsert,
                AutoDuplicate, AutoFails, AutoDelete, AutoDeleteFails
  <2>2. IsFiniteSet(journeys') /\ \A j \in journeys' : j \in journeys \/ j.row = 0
    <3>1. CASE AutoInsert(c)
      <4>. DEFINE s == create[c].session
                  new == [id |-> nextJourney, exe |-> s.exe, started |-> s.from, row |-> 0,
                          parts |-> {s}]
      <4>1. journeys' = journeys \cup {new} /\ new.row = 0
        BY <3>1 DEF AutoInsert, InsertJourney
      <4>. HIDE DEF new
      <4>. QED BY <4>1, FS_AddElement DEF Once, OneAtATime
    <3>2. CASE ~AutoInsert(c)
      <4>1. journeys' = journeys
        BY <1>1, <3>2 DEF CreatePending, Receive, LookUpHint, LookUpFails, Upsert, UpsertFails,
              AutoDuplicate, AutoFails, AutoDelete, AutoDeleteFails, tables
      <4>. QED BY <4>1 DEF Once, OneAtATime
    <3>. QED BY <3>1, <3>2
  <2>. QED BY <2>1, <2>2, OnceOfOthers
<1>2. ASSUME \/ Exclude \/ UNCHANGED vars
             \/ \E r \in pending : Discard(r)
             \/ \E j \in journeys : DeleteJourney(j)
             \/ \E e \in Exe : ChangeExclusion(e) \/ ChangeHint(e)
      PROVE  Once'
  <2>1. confirming' = confirming /\ journeys' \subseteq journeys
    BY <1>2 DEF Exclude, ExcludeRead, ExcludeInsert, ExcludeDelete, ExcludeFails, Discard,
                DeleteJourney, ChangeExclusion, ChangeHint, flights, tables, vars
  <2>2. IsFiniteSet(journeys')
    BY <2>1, FS_Subset DEF Once, OneAtATime
  <2>. QED BY <2>1, <2>2, OnceOfOthers
<1>3. ASSUME NEW r \in pending, ConfirmRead(r)
      PROVE  Once'
  <2>1. /\ confirming = {} /\ confirming' = {[at |-> "journey", row |-> r]}
        /\ UNCHANGED <<pending, nextRow, journeys>>
    BY <1>3 DEF ConfirmRead, VelocityAllows, tables
  <2>2. \A id : Confirmable(id)' => Confirmable(id)
    BY <2>1 DEF Confirmable, Inserting, Inserted
  <2>. QED BY <1>0, <2>1, <2>2, OnceOfConfirm DEF Types, TypeOK
<1>4. ASSUME NEW f \in confirming,
             ConfirmFails(f) \/ ConfirmDelete(f) \/ ConfirmDeleteFails(f)
      PROVE  Once'
  <2>1. \A g \in confirming : g = f
    BY DEF Once, OneAtATime
  <2>2. confirming' = {} /\ UNCHANGED <<nextRow, journeys>>
    BY <1>4, <2>1 DEF ConfirmFails, ConfirmDelete, ConfirmDeleteFails, ConfirmEnds, tables
  <2>3. \/ faults' = faults + 1
        \/ pending' = Without(f.row.id)
    BY <1>4 DEF ConfirmFails, ConfirmDelete, ConfirmDeleteFails, Fault
  <2>4. \A id : Confirmable(id)' => Confirmable(id) \/ faults' = faults + 1
    BY <2>1, <2>2, <2>3 DEF Confirmable, Inserting, Inserted, Without
  <2>. QED BY <1>0, <2>2, <2>4, OnceOfConfirm
<1>5. ASSUME NEW f \in confirming, ConfirmHint(f) \/ ConfirmHintFails(f)
      PROVE  Once'
  <2>. DEFINE g == [f EXCEPT !.at = "delete"]
  <2>1. \A h \in confirming : h = f
    BY DEF Once, OneAtATime
  <2>2. f \in Flights /\ f.at = "hint" /\ f.row.id < nextRow
    BY <1>5 DEF ConfirmHint, ConfirmHintFails, Types, Once, OneAtATime
  <2>3. g.row = f.row /\ g.at = "delete"
    BY <2>2 DEF Flights
  <2>4. confirming' = {g} /\ UNCHANGED <<pending, nextRow, journeys>>
    BY <1>5, <2>1 DEF ConfirmHint, ConfirmHintFails, ConfirmGoto, tables
  <2>. HIDE DEF g
  <2>5. \A id : Confirmable(id)' => Confirmable(id)
    BY <2>1, <2>2, <2>3, <2>4 DEF Confirmable, Inserting, Inserted
  <2>. QED BY <1>0, <2>2, <2>3, <2>4, <2>5, OnceOfConfirm
<1>6. CASE Crash
  <2>1. confirming' = {} /\ journeys' = journeys /\ faults' = faults + 1
    BY <1>6 DEF Crash, Fault, tables
  <2>. QED BY <1>0, <2>1, OnceOfConfirm
<1>. QED BY <1>1, <1>2, <1>3, <1>4, <1>5, <1>6, OnceOfInsert DEF Next, Confirm

(* A pending row confirmed by the user becomes one journey, and at most one    *)
(* more for every failed statement or crash (confirm, journeys/handler.go);   *)
(* for any sessions, requests and failures.                                  *)
THEOREM ConfirmedAtMostOnce == Spec => []ConfirmedOnce
<1>. DEFINE IInv == Types /\ Once
<1>1. Init => IInv
  <2>. SUFFICES ASSUME Init PROVE IInv
    OBVIOUS
  <2>1. Types
    BY DEF Init, Types, TypeOK, CreateStates
  <2>2. OneAtATime
    BY FS_EmptySet DEF Init, OneAtATime
  <2>3. ASSUME NEW id \in Nat \ {0} PROVE Counted(id)
    <3>1. JourneysOf(id) = {}
      BY DEF Init, JourneysOf
    <3>. QED BY <3>1, FS_EmptySet DEF Init, Counted
  <2>. QED BY <2>1, <2>2, <2>3 DEF Once
<1>2. IInv /\ [Next]_vars => IInv'
  BY TypesKept, OnceKept
<1>3. IInv => ConfirmedOnce
  BY DEF Once, Counted, JourneysOf, Types, TypeOK, ConfirmedOnce
<1>. QED BY <1>1, <1>2, <1>3, PTL DEF Spec
================================================================================
