---------------------------- MODULE WebListsProofs ----------------------------
(****************************************************************************)
(* Proofs about the paged lists of the web app, for every screen, any number  *)
(* of rows, changes, failures and pages of any size: a list is in order and    *)
(* without repetitions, and has every row at its end.                        *)
(*                                                                          *)
(* Neither is inductive.  A page is served for the rows of one moment and      *)
(* shown at another; so every page on its way, cached or shown is a Sheet of   *)
(* its subject, whose cursor lies below its rows, and a later page continues   *)
(* the list that it was asked for (MoreContinues), as long as the list is not  *)
(* torn.  For the end of the list, what a sheet does not show of the rows that *)
(* were there all along lies below its cursor (Covers).                      *)
(****************************************************************************)
EXTENDS WebPages, FiniteSetTheorems, SequenceTheorems, TLAPS

Position == 1 .. MaxRow

(* A list of rows of k, each below the one before it. *)
Falling(s, k) ==
    /\ s \in Seq({k} \X Position)
    /\ \A i, j \in 1 .. Len(s) : i < j => s[j][2] < s[i][2]

AllAbove(s, r) == \A i \in 1 .. Len(s) : r <= s[i][2]

Sheet(p, k) ==
    /\ Falling(p.rows, k)
    /\ p.cursor # None => p.rows # <<>> /\ p.cursor \in Position /\ AllAbove(p.rows, p.cursor)

(* The rows of k that were on the server all along. *)
Lasting(k) == (1 .. MaxRow - 1) \ gone[k]

Covers(p, k, R) ==
    \A r \in R : (\E i \in 1 .. Len(p.rows) : p.rows[i] = <<k, r>>) \/ (p.cursor # None /\ r < p.cursor)

(* The screens whose lists are complete at their end. *)
Thorough == screen.service.cursor # "next" /\ ~screen.service.swallows

ListsTyped ==
    /\ screen \in Screen /\ subject \in Subject
    /\ server = [k \in Subject |-> server[k]] /\ gone = [k \in Subject |-> gone[k]]
    /\ cache = [k \in Subject |-> cache[k]] /\ query = [k \in Subject |-> query[k]]
    /\ loading \in BOOLEAN /\ torn \in BOOLEAN
    /\ \A k \in Subject : server[k] \subseteq Position /\ Lasting(k) \subseteq server[k]
    /\ more # None => loading /\ DOMAIN more = {"of", "after", "reply"}

PagesAreSheets ==
    \A k \in Subject :
        /\ cache[k] # None =>
             Sheet(cache[k], k) /\ (Thorough => Covers(cache[k], k, Lasting(k)))
        /\ query[k] \notin {None, Asked} =>
             Sheet(query[k], k) /\ (Thorough => Covers(query[k], k, Lasting(k)))

(* What is shown, with the cursor of the list. *)
ShownFalls ==
    ~torn =>
        IF screen.keeps
        THEN /\ Falling(Shown, subject) /\ list.rows \in Seq({subject} \X Position)
             /\ list.rows = <<>> => list.cursor = None
             /\ list.cursor # None => list.cursor \in Position /\ AllAbove(Shown, list.cursor)
        ELSE /\ Sheet(list, subject)
             /\ (Thorough /\ cache[subject] # None) => Covers(list, subject, Lasting(subject))

MoreContinues ==
    (~torn /\ more # None) =>
        /\ more.of = subject
        /\ more.after # None /\ more.after \in Position /\ AllAbove(Shown, more.after)
        /\ ~screen.keeps => more.after = list.cursor
        /\ more.reply # None =>
             /\ Sheet(more.reply, subject)
             /\ \A i \in 1 .. Len(more.reply.rows) : more.reply.rows[i][2] < more.after
             /\ Thorough => Covers(more.reply, subject, {r \in Lasting(subject) : r < more.after})

ListsInv == ListsTyped /\ PagesAreSheets /\ ShownFalls /\ MoreContinues

--------------------------------------------------------------------------------
(* Descending gives the rows of a set their ranks: what is ranked is finite, so  *)
(* that the ranks, which are distinct, are all taken.                        *)
Rank(S, r) == Cardinality({q \in S : q[2] >= r[2]})

LEMMA PositionsFinite ==
    ASSUME NEW P \in SUBSET Position
    PROVE  IsFiniteSet(P) /\ Cardinality(P) \in Nat
<1>1. IsFiniteSet(Position)
  BY ListsAssumption, FS_Interval DEF Position
<1>2. IsFiniteSet(P)
  BY <1>1, FS_Subset
<1>. QED BY <1>2, FS_CardinalityType

LEMMA Ranks ==
    ASSUME NEW S, IsFiniteSet(S), \A q \in S : q[2] \in Nat,
           \A p, q \in S : p[2] = q[2] => p = q
    PROVE  /\ \A r \in S : Rank(S, r) \in 1 .. Cardinality(S)
           /\ \A p, q \in S : p[2] < q[2] => Rank(S, q) < Rank(S, p)
           /\ \A i \in 1 .. Cardinality(S) : \E r \in S : Rank(S, r) = i
<1>. DEFINE Up(r) == {q \in S : q[2] >= r[2]}
<1>1. Cardinality(S) \in Nat
  BY FS_CardinalityType
<1>2. ASSUME NEW r \in S
      PROVE  IsFiniteSet(Up(r)) /\ Cardinality(Up(r)) \in Nat /\ Cardinality(Up(r)) <= Cardinality(S)
  <2>1. Up(r) \in SUBSET S
    OBVIOUS
  <2>. HIDE DEF Up
  <2>. QED BY <2>1, FS_Subset, FS_CardinalityType
<1>3. ASSUME NEW r \in S PROVE Rank(S, r) \in 1 .. Cardinality(S)
  <2>1. r \in Up(r)
    OBVIOUS
  <2>2. Cardinality(Up(r)) # 0
    <3>1. Up(r) # {}
      BY <2>1
    <3>. HIDE DEF Up
    <3>. QED BY <1>2, <3>1, FS_EmptySet
  <2>3. Rank(S, r) = Cardinality(Up(r))
    BY DEF Rank
  <2>. HIDE DEF Up
  <2>. QED BY <1>1, <1>2, <2>2, <2>3
<1>4. ASSUME NEW p \in S, NEW q \in S, p[2] < q[2] PROVE Rank(S, q) < Rank(S, p)
  <2>1. Up(q) \in SUBSET Up(p) /\ p \in Up(p) /\ p \notin Up(q)
    BY <1>4
  <2>2. Rank(S, p) = Cardinality(Up(p)) /\ Rank(S, q) = Cardinality(Up(q))
    BY DEF Rank
  <2>. HIDE DEF Up
  <2>3. Cardinality(Up(q)) <= Cardinality(Up(p)) /\ Cardinality(Up(q)) # Cardinality(Up(p))
    BY <1>2, <2>1, FS_Subset
  <2>. QED BY <1>2, <2>2, <2>3
<1>5. ASSUME NEW i \in 1 .. Cardinality(S) PROVE \E r \in S : Rank(S, r) = i
  <2>. DEFINE T == 1 .. Cardinality(S)
              f == [r \in S |-> Rank(S, r)]
  <2>1. f \in [S -> T]
    BY <1>3
  <2>2. ASSUME NEW p \in S, NEW q \in S, f[p] = f[q] PROVE p = q
    <3>1. ~(p[2] < q[2]) /\ ~(q[2] < p[2])
      BY <1>1, <1>3, <1>4, <2>2
    <3>. QED BY <3>1
  <2>3. f \in Injection(S, T)
    BY <2>1, <2>2 DEF Injection, IsInjective
  <2>4. IsFiniteSet(T) /\ Cardinality(T) = Cardinality(S)
    BY <1>1, FS_Interval
  <2>5. f \in Surjection(S, T)
    <3>. HIDE DEF f, T
    <3>. QED BY <2>3, <2>4, FS_Injection
  <2>. QED BY <2>5 DEF Surjection
<1>. QED BY <1>3, <1>4, <1>5

(* The rows of k at some positions. *)
RowsAt(k, P) == {<<k, r>> : r \in P}

LEMMA RowsAtRanked ==
    ASSUME NEW k, NEW P \in SUBSET Position
    PROVE  LET S == RowsAt(k, P)
           IN  /\ IsFiniteSet(S) /\ Cardinality(S) \in Nat
               /\ P # {} => Cardinality(S) # 0
               /\ \A r \in S : Rank(S, r) \in 1 .. Cardinality(S)
               /\ \A p, q \in S : p[2] < q[2] => Rank(S, q) < Rank(S, p)
               /\ \A i \in 1 .. Cardinality(S) : \E r \in S : Rank(S, r) = i
<1>. DEFINE S == RowsAt(k, P)
            f == [r \in P |-> <<k, r>>]
<1>1. f \in Surjection(P, S)
  BY DEF Surjection, RowsAt
<1>2. IsFiniteSet(S)
  <2>1. IsFiniteSet(P)
    BY PositionsFinite
  <2>. HIDE DEF S, f
  <2>. QED BY <1>1, <2>1, FS_Surjection
<1>3. ASSUME NEW q \in S PROVE q[2] \in Nat /\ q = <<k, q[2]>>
  <2>1. PICK r \in P : q = <<k, r>>
    BY DEF RowsAt
  <2>2. r \in Nat
    BY ListsAssumption DEF Position
  <2>. QED BY <2>1, <2>2
<1>4. \A p, q \in S : p[2] = q[2] => p = q
  BY <1>3
<1>5. P # {} => S # {}
  BY DEF RowsAt
<1>. HIDE DEF S
<1>6. P # {} => Cardinality(S) # 0
  BY <1>2, <1>5, FS_EmptySet
<1>7. QED BY <1>2, <1>3, <1>4, <1>6, Ranks, FS_CardinalityType DEF S

Lines(s, k, P) ==
    /\ Falling(s, k)
    /\ P # {} => s # <<>>
    /\ \A i \in 1 .. Len(s) : s[i][2] \in P
    /\ \A r \in P : \E i \in 1 .. Len(s) : s[i] = <<k, r>>

LEMMA DescendingIs ==
    ASSUME NEW k, NEW P \in SUBSET Position, NEW s, s = Descending(RowsAt(k, P))
    PROVE  Lines(s, k, P)
<1>. DEFINE S == RowsAt(k, P)
            n == Cardinality(S)
<1>1. n \in Nat /\ (P # {} => n # 0)
  BY RowsAtRanked
<1>2. \A q \in S : q \in {k} \X Position /\ q[2] \in P /\ q[2] \in Nat
  BY ListsAssumption DEF RowsAt, Position
<1>3. s = [i \in 1 .. n |-> CHOOSE r \in S : Rank(S, r) = i]
  BY DEF Descending, Rank
<1>4. ASSUME NEW i \in 1 .. n PROVE s[i] \in S /\ Rank(S, s[i]) = i
  <2>1. \E r \in S : Rank(S, r) = i
    BY RowsAtRanked
  <2>2. s[i] = CHOOSE r \in S : Rank(S, r) = i
    BY <1>3
  <2>. HIDE DEF S
  <2>. QED BY <2>1, <2>2
<1>. HIDE DEF S, n
<1>5. DOMAIN s = 1 .. n /\ s = [i \in 1 .. n |-> s[i]]
  BY <1>3
<1>6. s \in Seq({k} \X Position) /\ Len(s) = n
  <2>1. s \in [1 .. n -> {k} \X Position]
    BY <1>2, <1>4, <1>5
  <2>. QED BY <1>1, <2>1
<1>7. ASSUME NEW i \in 1 .. n, NEW j \in 1 .. n, i < j PROVE s[j][2] < s[i][2]
  <2>1. s[i] \in S /\ s[j] \in S /\ Rank(S, s[i]) = i /\ Rank(S, s[j]) = j
    BY <1>4
  <2>2. ~(s[i][2] < s[j][2])
    BY <1>7, <2>1, RowsAtRanked DEF S
  <2>3. s[i][2] # s[j][2]
    <3>1. s[i][2] = s[j][2] => s[i] = s[j]
      BY <2>1 DEF S, RowsAt
    <3>. QED BY <1>7, <2>1, <3>1
  <2>4. s[i][2] \in Nat /\ s[j][2] \in Nat
    BY <1>2, <2>1
  <2>. QED BY <2>2, <2>3, <2>4
<1>8. ASSUME NEW r \in P PROVE \E i \in 1 .. n : s[i] = <<k, r>>
  <2>1. <<k, r>> \in S
    BY DEF S, RowsAt
  <2>. DEFINE i == Rank(S, <<k, r>>)
  <2>2. i \in 1 .. n
    BY <2>1, RowsAtRanked DEF S, n
  <2>3. s[i] \in S /\ Rank(S, s[i]) = i
    BY <1>4, <2>2
  <2>4. s[i][2] = r
    <3>1. /\ ~(s[i][2] < <<k, r>>[2]) /\ ~(<<k, r>>[2] < s[i][2])
      BY <1>1, <2>1, <2>2, <2>3, RowsAtRanked DEF S
    <3>2. s[i][2] \in Nat /\ r \in Nat
      BY <1>2, <2>1, <2>3
    <3>. QED BY <3>1, <3>2
  <2>5. s[i] = <<k, r>>
    BY <2>3, <2>4 DEF S, RowsAt
  <2>. QED BY <2>2, <2>5
<1>9. P # {} => s # <<>>
  BY <1>1, <1>6
<1>10. \A i \in 1 .. Len(s) : s[i][2] \in P
  BY <1>2, <1>4, <1>6
<1>11. Falling(s, k)
  BY <1>6, <1>7 DEF Falling
<1>. QED BY <1>6, <1>8, <1>9, <1>10, <1>11 DEF Lines

(* A set of positions that is not empty has a least and a greatest. *)
LEMMA Ends ==
    ASSUME NEW P \in SUBSET Position, P # {}
    PROVE  (\E r \in P : \A q \in P : r <= q) /\ (\E r \in P : \A q \in P : q <= r)
<1>. DEFINE s == Descending(RowsAt(0, P))
<1>1. /\ s \in Seq({0} \X Position) /\ s # <<>>
      /\ \A i, j \in 1 .. Len(s) : i < j => s[j][2] < s[i][2]
      /\ \A i \in 1 .. Len(s) : s[i][2] \in P
      /\ \A r \in P : \E i \in 1 .. Len(s) : s[i] = <<0, r>>
  BY DescendingIs DEF Falling, Lines
<1>. HIDE DEF s
<1>2. Len(s) \in Nat \ {0} /\ 1 \in 1 .. Len(s) /\ Len(s) \in 1 .. Len(s)
  BY <1>1
<1>3. \A r \in P : r \in Nat
  BY ListsAssumption DEF Position
<1>4. ASSUME NEW q \in P PROVE s[Len(s)][2] <= q /\ q <= s[1][2]
  <2>1. PICK i \in 1 .. Len(s) : s[i][2] = q
    BY <1>1
  <2>2. i < Len(s) => s[Len(s)][2] < q
    BY <1>1, <1>2, <2>1
  <2>3. 1 < i => q < s[1][2]
    BY <1>1, <1>2, <2>1
  <2>4. s[1][2] \in Nat /\ s[Len(s)][2] \in Nat /\ q \in Nat
    BY <1>1, <1>2, <1>3
  <2>5. i = Len(s) \/ i < Len(s)
    BY <1>2
  <2>6. i = 1 \/ 1 < i
    BY <1>2
  <2>. QED BY <2>1, <2>2, <2>3, <2>4, <2>5, <2>6
<1>. QED BY <1>1, <1>2, <1>4

LEMMA NewestIs ==
    ASSUME NEW S \in SUBSET Position, NEW n \in Nat \ {0}
    PROVE  /\ Newest(S, n) \subseteq S
           /\ S # {} => Newest(S, n) # {}
           /\ \A r \in Newest(S, n), q \in S \ Newest(S, n) : q < r
<1>. DEFINE Over(r) == {q \in S : q > r}
<1>1. \A r \in S : r \in Nat
  BY ListsAssumption DEF Position
<1>2. ASSUME NEW r \in S PROVE IsFiniteSet(Over(r)) /\ Cardinality(Over(r)) \in Nat
  <2>1. Over(r) \in SUBSET Position
    OBVIOUS
  <2>. HIDE DEF Over
  <2>. QED BY <2>1, PositionsFinite
<1>3. Newest(S, n) = {r \in S : Cardinality(Over(r)) < n}
  BY DEF Newest
<1>4. S # {} => Newest(S, n) # {}
  <2>. SUFFICES ASSUME S # {} PROVE Newest(S, n) # {}
    OBVIOUS
  <2>1. PICK r \in S : \A q \in S : q <= r
    BY Ends
  <2>2. Over(r) = {}
    BY <1>1, <2>1
  <2>. HIDE DEF Over
  <2>3. Cardinality(Over(r)) = 0
    BY <2>2, FS_EmptySet
  <2>. QED BY <1>3, <2>3
<1>5. ASSUME NEW r \in Newest(S, n), NEW q \in S \ Newest(S, n) PROVE q < r
  <2>1. SUFFICES ASSUME r <= q PROVE FALSE
    BY <1>1, <1>3
  <2>2. r \in S /\ Over(q) \in SUBSET Over(r)
    BY <1>1, <1>3, <2>1
  <2>. HIDE DEF Over
  <2>3. Cardinality(Over(q)) <= Cardinality(Over(r))
    BY <1>2, <2>2, FS_Subset
  <2>. QED BY <1>2, <1>3, <2>2, <2>3
<1>. QED BY <1>3, <1>4, <1>5

(* What an endpoint answers: a sheet, below the cursor it was asked for, that    *)
(* leaves nothing out above its own.                                         *)
LEMMA PageIs ==
    ASSUME NEW k \in Subject, server[k] \subseteq Position, NEW after, NEW p, p = PageOf(k, after)
    PROVE  /\ Sheet(p, k)
           /\ \A i \in 1 .. Len(p.rows) : p.rows[i][2] \in Below(k, after)
           /\ screen.service.cursor # "next" => Covers(p, k, Below(k, after))
<1>. DEFINE all  == Below(k, after)
            page1 == Newest(all, PageSize)
            rest == all \ page1
            last == CHOOSE r \in page1 : \A q \in page1 : r <= q
            sent == rest # {} \/ (screen.service.cursor = "full" /\ Cardinality(page1) = PageSize)
            next == CHOOSE r \in Newest(rest, 1) : TRUE
<1>1. /\ p.rows = Descending(RowsAt(k, page1))
      /\ p.cursor = IF ~sent THEN None ELSE IF screen.service.cursor = "next" THEN next ELSE last
  BY DEF PageOf, RowsAt
<1>2. all \in SUBSET Position
  BY DEF Below
<1>3. /\ page1 \subseteq all
      /\ all # {} => page1 # {}
      /\ \A r \in page1, q \in rest : q < r
  BY <1>2, NewestIs, ClientAssumption
<1>4. /\ Falling(p.rows, k)
      /\ page1 # {} => p.rows # <<>>
      /\ \A i \in 1 .. Len(p.rows) : p.rows[i][2] \in page1
      /\ \A r \in page1 : \E i \in 1 .. Len(p.rows) : p.rows[i] = <<k, r>>
  <2>1. page1 \in SUBSET Position
    BY <1>2, <1>3
  <2>2. p.rows = Descending(RowsAt(k, page1))
    BY <1>1
  <2>. HIDE DEF page1
  <2>3. Lines(p.rows, k, page1)
    BY <2>1, <2>2, DescendingIs
  <2>. QED BY <2>3 DEF Lines
<1>5. ASSUME sent PROVE page1 # {}
  <2>1. CASE rest # {}
    BY <1>3, <2>1
  <2>2. CASE Cardinality(page1) = PageSize
    <3>1. Cardinality(page1) # 0
      BY <2>2, ClientAssumption
    <3>. HIDE DEF page1
    <3>. QED BY <3>1, FS_EmptySet
  <2>. QED BY <1>5, <2>1, <2>2
<1>6. ASSUME sent PROVE last \in page1 /\ \A q \in page1 : last <= q
  <2>1. page1 \in SUBSET Position /\ page1 # {}
    BY <1>2, <1>3, <1>5, <1>6
  <2>. HIDE DEF page1
  <2>2. \E r \in page1 : \A q \in page1 : r <= q
    BY <2>1, Ends
  <2>. QED BY <2>2
<1>7. ASSUME rest # {} PROVE next \in rest
  <2>1. rest \in SUBSET Position /\ 1 \in Nat \ {0}
    BY <1>2
  <2>. HIDE DEF rest
  <2>2. Newest(rest, 1) \subseteq rest /\ Newest(rest, 1) # {}
    BY <1>7, <2>1, NewestIs
  <2>. QED BY <2>2
<1>. HIDE DEF page1, all, last, next
<1>8. \A r \in Position : r \in Nat
  BY ListsAssumption DEF Position
<1>9. ASSUME p.cursor # None
      PROVE  p.rows # <<>> /\ p.cursor \in Position /\ AllAbove(p.rows, p.cursor)
  <2>1. sent
    BY <1>1, <1>9
  <2>2. CASE screen.service.cursor # "next"
    BY <1>1, <1>2, <1>3, <1>4, <1>5, <1>6, <2>1, <2>2 DEF AllAbove
  <2>3. CASE screen.service.cursor = "next"
    <3>1. p.cursor = next /\ rest # {}
      BY <1>1, <2>1, <2>3
    <3>2. next \in all /\ \A r \in page1 : next < r
      BY <1>3, <1>7, <3>1
    <3>3. p.rows # <<>> /\ p.cursor \in Position
      BY <1>2, <1>4, <1>5, <2>1, <3>1, <3>2
    <3>4. ASSUME NEW i \in 1 .. Len(p.rows) PROVE p.cursor <= p.rows[i][2]
      <4>1. p.rows[i][2] \in page1 /\ next < p.rows[i][2]
        BY <1>4, <3>2
      <4>2. p.rows[i][2] \in Nat /\ next \in Nat
        BY <1>2, <1>3, <1>8, <3>2, <4>1
      <4>. QED BY <3>1, <4>1, <4>2
    <3>. QED BY <3>3, <3>4 DEF AllAbove
  <2>. QED BY <2>2, <2>3
<1>10. ASSUME screen.service.cursor # "next", NEW r \in all
       PROVE  (\E i \in 1 .. Len(p.rows) : p.rows[i] = <<k, r>>) \/ (p.cursor # None /\ r < p.cursor)
  <2>1. CASE r \in page1
    BY <1>4, <2>1
  <2>2. CASE r \in rest
    <3>1. p.cursor = last /\ sent
      BY <1>1, <1>10, <2>2
    <3>2. last \in page1 /\ last \in Position
      BY <1>2, <1>3, <1>6, <3>1
    <3>. QED BY <1>3, <2>2, <3>1, <3>2, ListsAssumption DEF Position
  <2>. QED BY <2>1, <2>2
<1>. QED BY <1>3, <1>4, <1>9, <1>10 DEF Sheet, Covers, all

--------------------------------------------------------------------------------
(* Only the feed keeps its later pages, and its service swallows errors. *)
LEMMA OnlyTheFeedKeeps ==
    ASSUME screen \in Screen, screen.keeps
    PROVE  ~screen.moves /\ screen.service.swallows /\ ~Thorough
BY DEF Screen, FeedScreen, ActivityScreen, FollowersScreen, FollowingScreen, GamesScreen,
       HistoryScreen, GameJourneysScreen, NotificationsScreen, ReportsScreen, UsersScreen, GetFeedItems,
       GetPlayerActivity, GetUserJourneys, GetPlayerGames, GetGameJourneys, GetNotifications,
       GetFollowers, GetFollowing, ListReports, ListRecentUsers, Thorough

LEMMA EmptyIsSheet ==
    ASSUME NEW k
    PROVE  Sheet(EmptyPage, k)
BY DEF EmptyPage, Sheet, Falling

(* Rows below all rows of a list may follow them. *)
LEMMA RowsFollow ==
    ASSUME NEW k, NEW s, NEW t, Falling(s, k), Falling(t, k),
           NEW after \in Position, AllAbove(s, after),
           \A i \in 1 .. Len(t) : t[i][2] < after
    PROVE  /\ Falling(s \o t, k)
           /\ \A c \in Position : (t # <<>> /\ AllAbove(t, c)) => AllAbove(s \o t, c)
           /\ \A i \in 1 .. Len(s) : i \in 1 .. Len(s \o t) /\ (s \o t)[i] = s[i]
           /\ \A i \in 1 .. Len(t) : \E j \in 1 .. Len(s \o t) : (s \o t)[j] = t[i]
<1>1. /\ s \in Seq({k} \X Position) /\ t \in Seq({k} \X Position)
      /\ Len(s) \in Nat /\ Len(t) \in Nat
  BY DEF Falling
<1>2. /\ s \o t \in Seq({k} \X Position) /\ Len(s \o t) = Len(s) + Len(t)
      /\ \A i \in 1 .. Len(s) : (s \o t)[i] = s[i]
      /\ \A i \in 1 .. Len(t) : (s \o t)[Len(s) + i] = t[i]
  BY <1>1
<1>3. \A i \in 1 .. Len(s \o t) :
        \/ i \in 1 .. Len(s) /\ (s \o t)[i] = s[i]
        \/ /\ i - Len(s) \in 1 .. Len(t) /\ i > Len(s)
           /\ (s \o t)[i] = t[i - Len(s)]
  <2>. SUFFICES ASSUME NEW i \in 1 .. Len(s \o t), i \notin 1 .. Len(s)
                PROVE  /\ i - Len(s) \in 1 .. Len(t) /\ i > Len(s)
                       /\ (s \o t)[i] = t[i - Len(s)]
    BY <1>2
  <2>1. i - Len(s) \in 1 .. Len(t) /\ i > Len(s) /\ Len(s) + (i - Len(s)) = i
    BY <1>1, <1>2
  <2>. QED BY <1>2, <2>1
<1>4. \A r \in Position : r \in Nat
  BY ListsAssumption DEF Position
<1>5. /\ \A i \in 1 .. Len(s) : s[i][2] \in Nat /\ after <= s[i][2]
      /\ \A i \in 1 .. Len(t) : t[i][2] \in Nat
  <2>1. \A i \in 1 .. Len(s) : s[i] \in {k} \X Position
    BY <1>1
  <2>2. \A i \in 1 .. Len(t) : t[i] \in {k} \X Position
    BY <1>1
  <2>. QED BY <1>4, <2>1, <2>2 DEF AllAbove
<1>. DEFINE u == s \o t
<1>6. ASSUME NEW i \in 1 .. Len(u), NEW j \in 1 .. Len(u), i < j PROVE u[j][2] < u[i][2]
  <2>1. CASE j \in 1 .. Len(s)
    <3>1. i \in 1 .. Len(s)
      BY <1>1, <1>2, <1>6, <2>1
    <3>. QED BY <1>2, <1>6, <2>1, <3>1 DEF Falling
  <2>2. CASE j \notin 1 .. Len(s) /\ i \in 1 .. Len(s)
    <3>1. u[i] = s[i] /\ u[j] = t[j - Len(s)] /\ j - Len(s) \in 1 .. Len(t)
      BY <1>3, <2>2
    <3>2. t[j - Len(s)][2] < after /\ after <= s[i][2]
      BY <1>5, <2>2, <3>1
    <3>. QED BY <1>4, <1>5, <2>2, <3>1, <3>2
  <2>3. CASE j \notin 1 .. Len(s) /\ i \notin 1 .. Len(s)
    <3>1. /\ u[i] = t[i - Len(s)] /\ i - Len(s) \in 1 .. Len(t)
          /\ u[j] = t[j - Len(s)] /\ j - Len(s) \in 1 .. Len(t)
      BY <1>3, <2>3
    <3>2. i - Len(s) < j - Len(s)
      BY <1>1, <1>2, <1>6
    <3>. QED BY <3>1, <3>2 DEF Falling
  <2>. QED BY <2>1, <2>2, <2>3
<1>7. Falling(u, k)
  BY <1>2, <1>6 DEF Falling
<1>8. ASSUME NEW c \in Position, t # <<>>, AllAbove(t, c), NEW i \in 1 .. Len(u)
      PROVE  c <= u[i][2]
  <2>1. CASE i \in 1 .. Len(s)
    <3>1. 1 \in 1 .. Len(t)
      BY <1>1, <1>8
    <3>2. c <= t[1][2] /\ t[1][2] < after /\ after <= s[i][2]
      BY <1>5, <1>8, <2>1, <3>1 DEF AllAbove
    <3>. QED BY <1>2, <1>4, <1>5, <2>1, <3>1, <3>2
  <2>2. CASE i \notin 1 .. Len(s)
    BY <1>3, <1>8, <2>2 DEF AllAbove
  <2>. QED BY <2>1, <2>2
<1>9. \A i \in 1 .. Len(s) : i \in 1 .. Len(u) /\ u[i] = s[i]
  BY <1>1, <1>2
<1>10. \A i \in 1 .. Len(t) : \E j \in 1 .. Len(u) : u[j] = t[i]
  <2>. SUFFICES ASSUME NEW i \in 1 .. Len(t) PROVE \E j \in 1 .. Len(u) : u[j] = t[i]
    OBVIOUS
  <2>1. Len(s) + i \in 1 .. Len(u) /\ u[Len(s) + i] = t[i]
    BY <1>1, <1>2
  <2>. QED BY <2>1
<1>. QED BY <1>7, <1>8, <1>9, <1>10 DEF AllAbove

--------------------------------------------------------------------------------
(* The first page *)

(* A list of which only the request for the first page has changed. *)
LEMMA QuerySet ==
    ASSUME ListsInv, NEW k \in Subject, NEW v, query' = [query EXCEPT ![k] = v],
           v \notin {None, Asked} => Sheet(v, k) /\ (Thorough => Covers(v, k, Lasting(k))),
           UNCHANGED <<screen, subject, server, cache, list, loading, more, torn, gone>>
    PROVE  ListsInv'
<1>1. \A j \in Subject : query'[j] = IF j = k THEN v ELSE query[j]
  BY DEF ListsInv, ListsTyped
<1>2. ListsTyped'
  BY DEF ListsInv, ListsTyped, Lasting
<1>3. PagesAreSheets'
  BY <1>1 DEF ListsInv, PagesAreSheets, Thorough, Lasting
<1>4. ShownFalls'
  BY DEF ListsInv, ShownFalls, Shown, FirstRows, Thorough, Lasting
<1>5. MoreContinues'
  BY DEF ListsInv, MoreContinues, Shown, FirstRows, Thorough, Lasting
<1>. QED BY <1>2, <1>3, <1>4, <1>5 DEF ListsInv

LEMMA ServedPage ==
    ASSUME ListsInv, NEW k \in Subject, NEW p, p = PageOf(k, None)
    PROVE  Sheet(p, k) /\ (Thorough => Covers(p, k, Lasting(k)))
<1>1. server[k] \subseteq Position /\ Lasting(k) \subseteq server[k]
  BY DEF ListsInv, ListsTyped
<1>2. Lasting(k) \subseteq Below(k, None)
  BY <1>1 DEF Below
<1>3. Sheet(p, k) /\ (Thorough => Covers(p, k, Below(k, None)))
  BY <1>1, PageIs DEF Thorough
<1>. QED BY <1>2, <1>3 DEF Covers

LEMMA GotPage ==
    ASSUME ListsInv, NEW k \in Subject, NEW p, Got(k, p), p # None \/ p = EmptyPage,
           Sheet(p, k), Thorough => Covers(p, k, Lasting(k))
    PROVE  ListsInv'
<1>. USE DEF Got
<1>1. /\ \A j \in Subject : cache'[j] = IF j = k THEN p ELSE cache[j]
      /\ \A j \in Subject : query'[j] = IF j = k THEN None ELSE query[j]
  BY DEF ListsInv, ListsTyped
<1>2. ListsTyped'
  BY DEF ListsInv, ListsTyped, Lasting, Copied, CopyFirst
<1>3. PagesAreSheets'
  BY <1>1 DEF ListsInv, PagesAreSheets, Thorough, Lasting
<1>4. CASE k = subject /\ CopyFirst(p) /\ screen.keeps
  <2>1. list' = list /\ (~torn' => ~torn /\ ~loading /\ list.rows = <<>>)
    BY <1>4 DEF CopyFirst
  <2>2. p.rows \o <<>> = p.rows
    BY ConcatEmptySeq DEF Sheet, Falling
  <2>3. ~torn' => Shown' = p.rows
    <3>1. FirstRows' = p.rows
      BY <1>1, <1>4 DEF FirstRows, EmptyPage
    <3>. QED BY <1>4, <2>1, <2>2, <3>1 DEF Shown
  <2>4. ShownFalls'
    BY <1>4, <2>1, <2>3 DEF ListsInv, ShownFalls, Sheet
  <2>5. MoreContinues'
    BY <1>4, <2>1 DEF ListsInv, ListsTyped, MoreContinues
  <2>. QED BY <1>2, <1>3, <2>4, <2>5 DEF ListsInv
<1>5. CASE k = subject /\ CopyFirst(p) /\ ~screen.keeps
  <2>1. list' = p /\ torn' = loading
    BY <1>5 DEF CopyFirst
  <2>2. ShownFalls'
    BY <1>5, <2>1 DEF ListsInv, ShownFalls, Thorough, Lasting
  <2>3. MoreContinues'
    BY <1>5, <2>1 DEF ListsInv, ListsTyped, MoreContinues
  <2>. QED BY <1>2, <1>3, <2>2, <2>3 DEF ListsInv
<1>6. CASE (k # subject \/ IsOld(k, p)) /\ UNCHANGED <<list, torn>>
  <2>1. UNCHANGED <<screen, subject, list, torn, loading, more, gone>> /\ cache'[subject] = cache[subject]
    BY <1>1, <1>6 DEF ListsInv, ListsTyped, IsOld
  <2>2. Shown' = Shown
    BY <2>1 DEF Shown, FirstRows
  <2>3. ShownFalls'
    BY <2>1, <2>2 DEF ListsInv, ShownFalls, Thorough, Lasting
  <2>4. MoreContinues'
    BY <2>1, <2>2 DEF ListsInv, MoreContinues, Thorough, Lasting
  <2>. QED BY <1>2, <1>3, <2>3, <2>4 DEF ListsInv
<1>. QED BY <1>4, <1>5, <1>6 DEF Copied

LEMMA FirstPageKeeps ==
    ASSUME ListsInv, NEW k \in Subject, Ask \/ Serve(k) \/ Arrive(k) \/ Refused(k) \/ Fails(k)
    PROVE  ListsInv'
<1>1. CASE Ask
  BY <1>1, QuerySet DEF Ask, ListsInv, ListsTyped
<1>2. CASE Serve(k)
  <2>. DEFINE p == PageOf(k, None)
  <2>1. /\ query' = [query EXCEPT ![k] = p]
        /\ UNCHANGED <<screen, subject, server, cache, list, loading, more, torn, gone>>
    BY <1>2 DEF Serve
  <2>2. Sheet(p, k) /\ (Thorough => Covers(p, k, Lasting(k)))
    BY ServedPage
  <2>. HIDE DEF p
  <2>. QED BY <2>1, <2>2, QuerySet
<1>3. CASE Arrive(k)
  BY <1>3, GotPage DEF Arrive, ListsInv, PagesAreSheets
<1>4. CASE Refused(k)
  <2>1. Got(k, EmptyPage) /\ ~Thorough /\ Sheet(EmptyPage, k)
    BY <1>4, EmptyIsSheet DEF Refused, Thorough
  <2>. QED BY <2>1, GotPage
<1>5. CASE Fails(k)
  BY <1>5, QuerySet DEF Fails
<1>. QED BY <1>1, <1>2, <1>3, <1>4, <1>5

--------------------------------------------------------------------------------
(* Load more *)

(* The next page is asked for below everything that is shown. *)
LEMMA ClickMoreKeeps ==
    ASSUME ListsInv, ClickMore
    PROVE  ListsInv'
<1>. USE DEF ClickMore
<1>1. ListsTyped'
  BY DEF ListsInv, ListsTyped, Lasting
<1>2. PagesAreSheets'
  BY DEF ListsInv, PagesAreSheets, Thorough, Lasting
<1>3. Shown' = Shown /\ (~torn' => ~torn)
  BY DEF Shown, FirstRows
<1>4. ShownFalls'
  BY <1>3 DEF ListsInv, ShownFalls, Thorough, Lasting
<1>5. ASSUME ~torn'
      PROVE  Cursor \in Position /\ AllAbove(Shown, Cursor)
  <2>1. CASE screen.keeps /\ list.cursor # None
    BY <1>3, <1>5, <2>1 DEF ListsInv, ShownFalls, Cursor
  <2>2. CASE screen.keeps /\ list.cursor = None
    <3>1. cache[subject] # None /\ Cursor = cache[subject].cursor /\ list.rows = <<>>
      BY <1>5, <2>2 DEF Cursor, FirstCursor
    <3>2. Sheet(cache[subject], subject)
      BY <3>1 DEF ListsInv, PagesAreSheets, ListsTyped
    <3>3. Shown = cache[subject].rows
      BY <2>2, <3>1, <3>2, ConcatEmptySeq DEF Shown, FirstRows, Sheet, Falling
    <3>. QED BY <3>1, <3>2, <3>3 DEF Sheet
  <2>3. CASE ~screen.keeps
    BY <1>3, <1>5, <2>3 DEF ListsInv, ShownFalls, Cursor, Shown, Sheet
  <2>. QED BY <2>1, <2>2, <2>3
<1>6. MoreContinues'
  BY <1>3, <1>5 DEF MoreContinues, Cursor
<1>. QED BY <1>1, <1>2, <1>4, <1>6 DEF ListsInv

LEMMA ServeMoreKeeps ==
    ASSUME ListsInv, ServeMore
    PROVE  ListsInv'
<1>. DEFINE p == PageOf(more.of, more.after)
<1>1. /\ more # None /\ more.reply = None /\ more' = [more EXCEPT !.reply = p]
      /\ UNCHANGED <<screen, subject, server, cache, query, list, loading, torn, gone>>
  BY DEF ServeMore
<1>2. ListsTyped'
  BY <1>1 DEF ListsInv, ListsTyped, Lasting
<1>3. PagesAreSheets'
  BY <1>1 DEF ListsInv, PagesAreSheets, Thorough, Lasting
<1>4. Shown' = Shown
  BY <1>1 DEF Shown, FirstRows
<1>5. ShownFalls'
  BY <1>1, <1>4 DEF ListsInv, ShownFalls, Thorough, Lasting
<1>6. ASSUME ~torn
      PROVE  /\ Sheet(p, subject)
             /\ \A i \in 1 .. Len(p.rows) : p.rows[i][2] < more.after
             /\ Thorough => Covers(p, subject, {r \in Lasting(subject) : r < more.after})
  <2>1. more.of = subject /\ more.after # None
    BY <1>1, <1>6 DEF ListsInv, MoreContinues
  <2>2. subject \in Subject /\ server[subject] \subseteq Position
        /\ Lasting(subject) \subseteq server[subject]
    BY DEF ListsInv, ListsTyped
  <2>3. Below(subject, more.after) = {r \in server[subject] : r < more.after}
    BY <2>1 DEF Below
  <2>4. /\ Sheet(p, subject)
        /\ \A i \in 1 .. Len(p.rows) : p.rows[i][2] \in Below(subject, more.after)
        /\ Thorough => Covers(p, subject, Below(subject, more.after))
    BY <2>1, <2>2, PageIs DEF Thorough
  <2>. HIDE DEF p
  <2>. QED BY <2>2, <2>3, <2>4 DEF Covers
<1>. HIDE DEF p
<1>7. more'.of = more.of /\ more'.after = more.after /\ more'.reply = p
  BY <1>1 DEF ListsInv, ListsTyped
<1>8. MoreContinues'
  BY <1>1, <1>4, <1>6, <1>7 DEF ListsInv, MoreContinues, Thorough, Lasting
<1>. QED BY <1>2, <1>3, <1>5, <1>8 DEF ListsInv

(* A page that continues the list is appended to it. *)
LEMMA AppendedKeeps ==
    ASSUME ListsInv, more # None, NEW p, list' = Appended(p), more' = None, loading' = FALSE,
           UNCHANGED <<screen, subject, server, cache, query, torn, gone>>,
           ~torn => /\ Sheet(p, subject)
                    /\ \A i \in 1 .. Len(p.rows) : p.rows[i][2] < more.after
                    /\ Thorough => Covers(p, subject, {r \in Lasting(subject) : r < more.after})
    PROVE  ListsInv'
<1>1. ListsTyped'
  BY DEF ListsInv, ListsTyped, Lasting
<1>2. PagesAreSheets'
  BY DEF ListsInv, PagesAreSheets, Thorough, Lasting
<1>3. MoreContinues'
  BY DEF MoreContinues
<1>4. ASSUME ~torn, screen.keeps
      PROVE  ShownFalls'
  <2>1. /\ Falling(Shown, subject) /\ list.rows \in Seq({subject} \X Position)
        /\ Sheet(p, subject) /\ Falling(p.rows, subject)
        /\ more.after \in Position /\ AllAbove(Shown, more.after)
        /\ \A i \in 1 .. Len(p.rows) : p.rows[i][2] < more.after
    BY <1>4 DEF ListsInv, ShownFalls, MoreContinues, Sheet
  <2>2. FirstRows \in Seq({subject} \X Position)
    BY DEF FirstRows, ListsInv, PagesAreSheets, ListsTyped, Sheet, Falling
  <2>3. p.rows \in Seq({subject} \X Position)
    BY <2>1 DEF Falling
  <2>4. list'.rows = list.rows \o p.rows /\ list'.cursor = p.cursor
    BY DEF Appended
  <2>5. Shown' = Shown \o p.rows
    <3>1. Shown' = FirstRows \o (list.rows \o p.rows)
      BY <1>4, <2>4 DEF Shown, FirstRows
    <3>2. Shown = FirstRows \o list.rows
      BY <1>4 DEF Shown
    <3>3. (FirstRows \o list.rows) \o p.rows = FirstRows \o (list.rows \o p.rows)
      <4>. DEFINE Row == {subject} \X Position
                  rows == list.rows
                  new == p.rows
      <4>1. FirstRows \in Seq(Row) /\ rows \in Seq(Row) /\ new \in Seq(Row)
        BY <2>1, <2>2, <2>3
      <4>. HIDE DEF Row, rows, new
      <4>2. (FirstRows \o rows) \o new = FirstRows \o (rows \o new)
        BY <4>1, ConcatAssociative
      <4>. QED BY <4>2 DEF rows, new
    <3>. QED BY <3>1, <3>2, <3>3
  <2>6. Falling(Shown', subject)
        /\ \A c \in Position : (p.rows # <<>> /\ AllAbove(p.rows, c)) => AllAbove(Shown', c)
    BY <2>1, <2>5, RowsFollow
  <2>7. list'.rows \in Seq({subject} \X Position)
        /\ (list'.rows = <<>> => p.rows = <<>>)
    BY <2>1, <2>3, <2>4, ConcatEqualIffEmpty, ConcatProperties
  <2>8. p.cursor # None => p.rows # <<>> /\ p.cursor \in Position /\ AllAbove(p.rows, p.cursor)
    BY <2>1 DEF Sheet
  <2>. QED BY <1>4, <2>4, <2>6, <2>7, <2>8 DEF ShownFalls
<1>5. ASSUME ~torn, ~screen.keeps
      PROVE  ShownFalls'
  <2>1. /\ Shown = list.rows /\ Sheet(list, subject) /\ Falling(list.rows, subject)
        /\ Sheet(p, subject) /\ Falling(p.rows, subject)
        /\ more.after \in Position /\ AllAbove(list.rows, more.after)
        /\ more.after = list.cursor
        /\ \A i \in 1 .. Len(p.rows) : p.rows[i][2] < more.after
    BY <1>5 DEF ListsInv, ShownFalls, MoreContinues, Sheet, Shown
  <2>2. list'.rows = list.rows \o p.rows /\ list'.cursor = p.cursor
    BY DEF Appended
  <2>3. /\ Falling(list'.rows, subject)
        /\ \A c \in Position : (p.rows # <<>> /\ AllAbove(p.rows, c)) => AllAbove(list'.rows, c)
        /\ \A i \in 1 .. Len(list.rows) : i \in 1 .. Len(list'.rows) /\ list'.rows[i] = list.rows[i]
        /\ \A i \in 1 .. Len(p.rows) : \E j \in 1 .. Len(list'.rows) : list'.rows[j] = p.rows[i]
    <3>. DEFINE s == list.rows
                t == p.rows
                after == more.after
    <3>1. /\ Falling(s, subject) /\ Falling(t, subject)
          /\ after \in Position /\ AllAbove(s, after)
          /\ \A i \in 1 .. Len(t) : t[i][2] < after
      BY <2>1
    <3>2. list'.rows = s \o t
      BY <2>2
    <3>. HIDE DEF s, t, after
    <3>3. /\ Falling(s \o t, subject)
          /\ \A c \in Position : (t # <<>> /\ AllAbove(t, c)) => AllAbove(s \o t, c)
          /\ \A i \in 1 .. Len(s) : i \in 1 .. Len(s \o t) /\ (s \o t)[i] = s[i]
          /\ \A i \in 1 .. Len(t) : \E j \in 1 .. Len(s \o t) : (s \o t)[j] = t[i]
      BY <3>1, RowsFollow
    <3>. QED BY <3>2, <3>3 DEF s, t
  <2>4. Sheet(list', subject)
    <3>1. ASSUME p.cursor # None
          PROVE  /\ list'.rows # <<>> /\ p.cursor \in Position
                 /\ AllAbove(list'.rows, p.cursor)
      <4>1. p.rows # <<>> /\ p.cursor \in Position /\ AllAbove(p.rows, p.cursor)
        BY <2>1, <3>1 DEF Sheet
      <4>2. list'.rows # <<>>
        BY <2>1, <2>2, <4>1, ConcatEqualIffEmpty DEF Falling
      <4>. QED BY <2>3, <4>1, <4>2
    <3>. QED BY <2>2, <2>3, <3>1 DEF Sheet
  <2>5. ASSUME Thorough, cache[subject] # None
        PROVE  Covers(list', subject, Lasting(subject))
    <3>. SUFFICES ASSUME NEW r \in Lasting(subject)
                  PROVE  \/ \E i \in 1 .. Len(list'.rows) : list'.rows[i] = <<subject, r>>
                         \/ list'.cursor # None /\ r < list'.cursor
      BY DEF Covers
    <3>1. /\ Covers(list, subject, Lasting(subject))
          /\ Covers(p, subject, {q \in Lasting(subject) : q < more.after})
      BY <1>5, <2>5 DEF ListsInv, ShownFalls
    <3>2. CASE \E i \in 1 .. Len(list.rows) : list.rows[i] = <<subject, r>>
      BY <2>3, <3>2
    <3>3. CASE r < list.cursor
      <4>1. \/ \E i \in 1 .. Len(p.rows) : p.rows[i] = <<subject, r>>
            \/ p.cursor # None /\ r < p.cursor
        BY <2>1, <3>1, <3>3 DEF Covers
      <4>. QED BY <2>2, <2>3, <4>1
    <3>. QED BY <3>1, <3>2, <3>3 DEF Covers
  <2>. QED BY <1>5, <2>4, <2>5 DEF ShownFalls, Thorough, Lasting
<1>6. ShownFalls'
  BY <1>4, <1>5 DEF ShownFalls
<1>. QED BY <1>1, <1>2, <1>3, <1>6 DEF ListsInv

LEMMA MoreKeeps ==
    ASSUME ListsInv, ArriveMore \/ MoreRefused \/ MoreFails
    PROVE  ListsInv'
<1>1. CASE ArriveMore
  <2>. DEFINE p == more.reply
  <2>1. /\ more # None /\ list' = Appended(p) /\ more' = None /\ loading' = FALSE
        /\ UNCHANGED <<screen, subject, server, cache, query, torn, gone>>
    BY <1>1 DEF ArriveMore
  <2>2. ~torn => /\ Sheet(p, subject)
                 /\ \A i \in 1 .. Len(p.rows) : p.rows[i][2] < more.after
                 /\ Thorough => Covers(p, subject, {r \in Lasting(subject) : r < more.after})
    BY <1>1 DEF ArriveMore, ListsInv, MoreContinues
  <2>. HIDE DEF p
  <2>. QED BY <2>1, <2>2, AppendedKeeps
<1>2. CASE MoreRefused
  <2>1. /\ more # None /\ list' = Appended(EmptyPage) /\ more' = None /\ loading' = FALSE
        /\ UNCHANGED <<screen, subject, server, cache, query, torn, gone>>
        /\ ~Thorough
    BY <1>2 DEF MoreRefused, Thorough
  <2>2. /\ Sheet(EmptyPage, subject)
        /\ \A i \in 1 .. Len(EmptyPage.rows) : EmptyPage.rows[i][2] < more.after
    BY EmptyIsSheet DEF EmptyPage
  <2>. QED BY <2>1, <2>2, AppendedKeeps
<1>3. CASE MoreFails
  <2>. USE <1>3 DEF MoreFails
  <2>1. ListsTyped'
    BY DEF ListsInv, ListsTyped, Lasting
  <2>2. PagesAreSheets'
    BY DEF ListsInv, PagesAreSheets, Thorough, Lasting
  <2>3. ShownFalls'
    BY DEF ListsInv, ShownFalls, Shown, FirstRows, Thorough, Lasting
  <2>. QED BY <2>1, <2>2, <2>3 DEF ListsInv, MoreContinues
<1>. QED BY <1>1, <1>2, <1>3

--------------------------------------------------------------------------------
(* The page of another subject replaces the list if there is one, and a later   *)
(* page that is in flight then, or no page at all, tears it.                 *)
LEMMA SubjectMoves ==
    ASSUME ListsInv, NEW k \in Subject, Move(k)
    PROVE  ListsInv'
<1>. USE DEF Move
<1>1. ~screen.keeps
  BY OnlyTheFeedKeeps DEF ListsInv, ListsTyped
<1>2. UNCHANGED <<screen, server, cache, loading, more, gone>> /\ subject' = k
  OBVIOUS
<1>3. \A j \in Subject : query'[j] \in {query[j], Asked}
  BY DEF ListsInv, ListsTyped
<1>4. ListsTyped'
  <2>1. torn' \in BOOLEAN
    BY <1>1 DEF ListsInv, ListsTyped, CopyFirst
  <2>2. query' = [j \in Subject |-> query'[j]]
    BY DEF ListsInv, ListsTyped
  <2>. QED BY <1>2, <2>1, <2>2 DEF ListsInv, ListsTyped, Lasting
<1>5. PagesAreSheets'
  BY <1>2, <1>3 DEF ListsInv, PagesAreSheets, Thorough, Lasting
<1>6. ~torn' => ~loading /\ cache[k] # None /\ list' = cache[k]
  BY <1>1 DEF CopyFirst
<1>7. ShownFalls'
  BY <1>1, <1>2, <1>6 DEF ListsInv, PagesAreSheets, ShownFalls, Thorough, Lasting
<1>8. MoreContinues'
  BY <1>2, <1>6 DEF ListsInv, ListsTyped, MoreContinues
<1>. QED BY <1>4, <1>5, <1>7, <1>8 DEF ListsInv

(* A row that comes or goes was not there all along. *)
LEMMA ChangeKeeps ==
    ASSUME ListsInv, NEW k \in Subject, NEW r \in 1 .. MaxRow, Change(k, r)
    PROVE  ListsInv'
<1>1. UNCHANGED <<screen, subject, cache, query, list, loading, more, torn>>
  BY DEF Change
<1>2. /\ server' = [server EXCEPT ![k] = server'[k]]
      /\ server'[k] \in {server[k] \ {r}, server[k] \cup {r}}
      /\ gone' = [gone EXCEPT ![k] = gone[k] \cup {r}]
  BY DEF Change, ListsInv, ListsTyped
<1>3. \A j \in Subject : /\ Lasting(j)' \subseteq Lasting(j) /\ server'[j] \subseteq Position
                         /\ Lasting(j)' \subseteq server'[j]
  BY <1>2 DEF ListsInv, ListsTyped, Lasting, Position
<1>4. ListsTyped'
  BY <1>1, <1>2, <1>3 DEF ListsInv, ListsTyped
<1>5. Thorough' = Thorough /\ Shown' = Shown
  BY <1>1 DEF Thorough, Shown, FirstRows
<1>6. \A p : \A j \in Subject : Covers(p, j, Lasting(j)) => Covers(p, j, Lasting(j)')
  BY <1>3 DEF Covers
<1>7. PagesAreSheets'
  BY <1>1, <1>5, <1>6 DEF ListsInv, PagesAreSheets
<1>8. subject \in Subject
  BY DEF ListsInv, ListsTyped
<1>9. ShownFalls'
  BY <1>1, <1>5, <1>6, <1>8 DEF ListsInv, ShownFalls
<1>10. MoreContinues'
  <2>1. Covers(more.reply, subject, {q \in Lasting(subject) : q < more.after})
          => Covers(more.reply, subject, {q \in Lasting(subject)' : q < more.after})
    BY <1>1, <1>3, <1>8 DEF Covers
  <2>. QED BY <1>1, <1>5, <2>1 DEF ListsInv, MoreContinues
<1>. QED BY <1>4, <1>7, <1>9, <1>10 DEF ListsInv

--------------------------------------------------------------------------------
LEMMA ListsStart ==
    ASSUME Init
    PROVE  ListsInv
<1>1. /\ screen \in Screen /\ subject = First /\ loading = FALSE /\ torn = FALSE /\ more = None
      /\ server = [k \in Subject |-> 1 .. MaxRow - 1] /\ gone = [k \in Subject |-> {}]
      /\ cache = [k \in Subject |-> None]
      /\ query = [k \in Subject |-> IF k = First THEN Asked ELSE None]
      /\ list = EmptyPage
  BY DEF Init, On, ListsInit, EmptyPage, Screen
<1>2. ListsTyped
  <2>1. \A k \in Subject : server[k] = 1 .. MaxRow - 1 /\ Lasting(k) = 1 .. MaxRow - 1
    BY <1>1 DEF Lasting
  <2>2. 1 .. MaxRow - 1 \subseteq Position
    BY ListsAssumption DEF Position
  <2>. QED BY <1>1, <2>1, <2>2 DEF ListsTyped, Subject
<1>3. PagesAreSheets /\ MoreContinues
  BY <1>1 DEF PagesAreSheets, MoreContinues
<1>4. subject \in Subject /\ cache[subject] = None
  BY <1>1 DEF Subject
<1>5. Sheet(list, subject) /\ list.rows = <<>> /\ list.cursor = None
  BY <1>1, EmptyIsSheet DEF EmptyPage
<1>6. Shown = <<>>
  BY <1>4, <1>5 DEF Shown, FirstRows
<1>7. ShownFalls
  BY <1>4, <1>5, <1>6 DEF ShownFalls, Sheet, Falling
<1>. QED BY <1>2, <1>3, <1>7 DEF ListsInv

LEMMA ListsStep ==
    ASSUME ListsInv, [Next]_vars
    PROVE  ListsInv'
<1>1. CASE ListsNext
  <2>1. CASE Ask \/ \E k \in Subject : Serve(k) \/ Arrive(k) \/ Refused(k) \/ Fails(k)
    BY <2>1, FirstPageKeeps DEF Subject
  <2>2. CASE \E k \in Subject : Move(k)
    BY <2>2, SubjectMoves
  <2>3. CASE ClickMore
    BY <2>3, ClickMoreKeeps
  <2>4. CASE ServeMore
    BY <2>4, ServeMoreKeeps
  <2>5. CASE ArriveMore \/ MoreRefused \/ MoreFails
    BY <2>5, MoreKeeps
  <2>6. CASE \E k \in Subject, r \in 1 .. MaxRow : Change(k, r)
    BY <2>6, ChangeKeeps
  <2>. QED BY <1>1, <2>1, <2>2, <2>3, <2>4, <2>5, <2>6 DEF ListsNext
<1>2. CASE UNCHANGED lVars
  <2>. USE <1>2 DEF lVars
  <2>1. ListsTyped'
    BY DEF ListsInv, ListsTyped, Lasting
  <2>2. PagesAreSheets'
    BY DEF ListsInv, PagesAreSheets, Thorough, Lasting
  <2>3. Shown' = Shown
    BY DEF Shown, FirstRows
  <2>4. ShownFalls' /\ MoreContinues'
    BY <2>3 DEF ListsInv, ShownFalls, MoreContinues, Thorough, Lasting
  <2>. QED BY <2>1, <2>2, <2>4 DEF ListsInv
<1>. QED BY <1>1, <1>2 DEF Next, vars

(* A list shows the rows of its subject in the server's order and none of them  *)
(* twice (the loadMore functions of the screens), whatever is fetched again,  *)
(* changes on the server or fails, unless its first page or its subject was   *)
(* replaced under a later page; for pages and lists of any length.           *)
THEOREM ListsFall == Spec => []ListsDescend
<1>1. ListsInv => ListsDescend
  <2>. SUFFICES ASSUME ListsInv, ~torn, NEW i \in DOMAIN Shown, NEW j \in DOMAIN Shown
                PROVE  Shown[i][1] = subject /\ (i < j => Shown[i][2] > Shown[j][2])
    BY DEF ListsDescend
  <2>1. Falling(Shown, subject)
    BY DEF ListsInv, ShownFalls, Shown, Sheet
  <2>2. Shown \in Seq({subject} \X Position) /\ i \in 1 .. Len(Shown) /\ j \in 1 .. Len(Shown)
    BY <2>1 DEF Falling
  <2>3. Shown[i] \in {subject} \X Position /\ Shown[j] \in {subject} \X Position
    BY <2>2
  <2>4. Shown[i][2] \in Nat /\ Shown[j][2] \in Nat
    BY <2>3, ListsAssumption DEF Position
  <2>. QED BY <2>1, <2>2, <2>3, <2>4 DEF Falling
<1>. QED BY <1>1, ListsStart, ListsStep, PTL DEF Spec

(* A list without a Load more button shows every row that was there all along,  *)
(* where the endpoint's cursor is the last row that it sent and its service    *)
(* lets failures through (utils/api.ts); for pages and lists of any length.   *)
THEOREM ListsAreComplete == Spec => []CompleteAtEnd
<1>1. ListsInv => CompleteAtEnd
  <2>. SUFFICES ASSUME ListsInv, AtEnd, ~torn, Thorough, NEW row \in Everything(subject)
                PROVE  \E i \in DOMAIN Shown : Shown[i] = row
    BY DEF CompleteAtEnd, Thorough
  <2>1. ~screen.keeps
    BY OnlyTheFeedKeeps DEF ListsInv, ListsTyped
  <2>2. /\ Shown = list.rows /\ list.cursor = None
        /\ Falling(list.rows, subject) /\ Covers(list, subject, Lasting(subject))
    BY <2>1 DEF ListsInv, ShownFalls, Shown, AtEnd, Cursor, Sheet
  <2>3. DOMAIN Shown = 1 .. Len(Shown)
    BY <2>2 DEF Falling
  <2>4. PICK r \in Lasting(subject) : row = <<subject, r>>
    BY DEF Everything, Lasting
  <2>. QED BY <2>2, <2>3, <2>4 DEF Covers
<1>. QED BY <1>1, ListsStart, ListsStep, PTL DEF Spec
================================================================================
