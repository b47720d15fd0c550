--------------------------- MODULE Platform_proofs ---------------------------
(***************************************************************************)
(* The Platform surface, for any handlers, hosts, threads, checkpoints,    *)
(* graphs and limits: the inductive invariant of each of its components,   *)
(* and what MCPlatform states of them all. The composition is the last     *)
(* section.                                                                *)
(***************************************************************************)
EXTENDS MCPlatform, Sequences, SequenceTheorems, FiniteSetTheorems, TLAPS

--------------------------------------------------------------------------------
(***************************************************************************)
(* Lists in order: a finite set has one for every strict total order, and  *)
(* it has each element at the place that the number of elements before it  *)
(* names.                                                                  *)
(***************************************************************************)
\* A strict order that is total on S.
Orders(R, S) ==
  /\ \A x \in S : <<x, x>> \notin R
  /\ \A x, y, z \in S : <<x, y>> \in R /\ <<y, z>> \in R => <<x, z>> \in R
  /\ \A x, y \in S : x = y \/ <<x, y>> \in R \/ <<y, x>> \in R

\* The list s is in the order R.
InOrder(s, R) == \A i, j \in DOMAIN s : i < j => <<s[i], s[j]>> \in R

\* The elements of S before x.
Before(R, S, x) == {y \in S : <<y, x>> \in R}

\* An element has fewer before it than one that comes later.
LEMMA BeforeGrows ==
  ASSUME NEW S, IsFiniteSet(S), NEW R, Orders(R, S), NEW x \in S, NEW y \in S, <<x, y>> \in R
  PROVE  /\ IsFiniteSet(Before(R, S, x)) /\ Cardinality(Before(R, S, x)) \in Nat
         /\ Cardinality(Before(R, S, y)) \in Nat
         /\ Cardinality(Before(R, S, x)) < Cardinality(Before(R, S, y))
<1> DEFINE b == Before(R, S, x) c == Before(R, S, y)
<1>1. b \subseteq S /\ c \subseteq S /\ x \notin b /\ b \cup {x} \subseteq c
  BY DEF Before, Orders
<1>2. IsFiniteSet(b) /\ IsFiniteSet(c)
  BY <1>1, FS_Subset
<1>3. Cardinality(b \cup {x}) = Cardinality(b) + 1
  BY <1>1, <1>2, FS_AddElement
<1>4. Cardinality(b \cup {x}) <= Cardinality(c)
  BY <1>1, <1>2, FS_Subset
<1>5. Cardinality(b) \in Nat /\ Cardinality(c) \in Nat
  BY <1>2, FS_CardinalityType
<1> HIDE DEF b, c
<1>6. IsFiniteSet(b) /\ Cardinality(b) \in Nat /\ Cardinality(c) \in Nat
      /\ Cardinality(b) < Cardinality(c)
  BY <1>2, <1>3, <1>4, <1>5
<1> QED
  BY <1>6 DEF b, c

\* A finite set can be listed in order: place everyone by how many come before.
LEMMA SortExists ==
  ASSUME NEW S, IsFiniteSet(S), NEW R, Orders(R, S)
  PROVE  \E s \in [1..Cardinality(S) -> S] : InOrder(s, R)
<1> DEFINE n == Cardinality(S)
           r == [x \in S |-> Cardinality(Before(R, S, x)) + 1]
<1>1. n \in Nat
  BY FS_CardinalityType
<1>2. ASSUME NEW x \in S
      PROVE  Cardinality(Before(R, S, x)) \in Nat /\ Cardinality(Before(R, S, x)) < n
  <2>1. Before(R, S, x) \subseteq S \ {x}
    BY DEF Before, Orders
  <2>2. IsFiniteSet(S \ {x}) /\ Cardinality(S \ {x}) = n - 1
    BY FS_RemoveElement
  <2>3. IsFiniteSet(Before(R, S, x)) /\ Cardinality(Before(R, S, x)) <= n - 1
    BY <2>1, <2>2, FS_Subset
  <2> QED
    BY <1>1, <2>3, FS_CardinalityType
<1>3. r \in [S -> 1..n]
  BY <1>1, <1>2
<1>4. ASSUME NEW x \in S, NEW y \in S, <<x, y>> \in R
      PROVE  r[x] < r[y]
  BY <1>2, <1>4, BeforeGrows
<1> HIDE DEF r
<1>5. \A x \in S : r[x] \in Nat
  BY <1>1, <1>3
<1>6. ASSUME NEW x \in S, NEW y \in S, r[x] = r[y]
      PROVE  x = y
  <2>1. ~(r[x] < r[y]) /\ ~(r[y] < r[x])
    BY <1>5, <1>6
  <2>2. <<x, y>> \notin R /\ <<y, x>> \notin R
    BY <1>4, <2>1
  <2> QED
    BY <2>2 DEF Orders
<1>7. r \in Injection(S, 1..n)
  BY <1>3, <1>6 DEF Injection, IsInjective
<1>8. IsFiniteSet(1..n) /\ Cardinality(1..n) = n
  BY <1>1, FS_Interval
<1>9. r \in Surjection(S, 1..n)
  BY <1>7, <1>8, FS_Injection
<1>10. \A i \in 1..n : \E x \in S : r[x] = i
  BY <1>9 DEF Surjection
<1> DEFINE s == [i \in 1..n |-> CHOOSE x \in S : r[x] = i]
<1>11. \A i \in 1..n : s[i] \in S /\ r[s[i]] = i
  BY <1>10
<1>12. s \in [1..n -> S]
  BY <1>11
<1> HIDE DEF s
<1>13. ASSUME NEW i \in 1..n, NEW j \in 1..n, i < j
       PROVE  <<s[i], s[j]>> \in R
  <2>1. s[i] \in S /\ s[j] \in S /\ r[s[i]] = i /\ r[s[j]] = j
    BY <1>11
  <2>2. s[i] # s[j] /\ <<s[j], s[i]>> \notin R
    BY <1>1, <1>4, <1>13, <2>1
  <2> QED
    BY <2>1, <2>2 DEF Orders
<1>14. InOrder(s, R)
  BY <1>12, <1>13 DEF InOrder
<1> QED
  BY <1>12, <1>14

\* A list in order has every element, each at the place of how many come before.
LEMMA SortPlaces ==
  ASSUME NEW S, IsFiniteSet(S), NEW R, Orders(R, S),
         NEW s \in [1..Cardinality(S) -> S], InOrder(s, R)
  PROVE  /\ Cardinality(S) \in Nat
         /\ \A x \in S : \E i \in 1..Cardinality(S) : s[i] = x
         /\ \A i \in 1..Cardinality(S) : Cardinality(Before(R, S, s[i])) = i - 1
<1> DEFINE n == Cardinality(S)
<1>1. n \in Nat /\ IsFiniteSet(1..n) /\ Cardinality(1..n) = n
  BY FS_CardinalityType, FS_Interval
<1>2. \A i, j \in 1..n : i < j => <<s[i], s[j]>> \in R
  BY DEF InOrder
<1> HIDE DEF n
<1>3. s \in [1..n -> S]
  BY DEF n
<1>a. \A i, j \in 1..n : i < j \/ j < i \/ i = j
  BY <1>1
<1>b. \A i \in 1..n : <<s[i], s[i]>> \notin R
  BY <1>3 DEF Orders
<1>c. \A i, j \in 1..n : ~(<<s[i], s[j]>> \in R /\ <<s[j], s[i]>> \in R)
  BY <1>3 DEF Orders
<1>4. \A i, j \in 1..n : <<s[i], s[j]>> \in R => i < j
  BY <1>2, <1>a, <1>b, <1>c
<1>5. ASSUME NEW i \in 1..n, NEW j \in 1..n, s[i] = s[j]
      PROVE  i = j
  BY <1>2, <1>5, <1>a, <1>b
<1>6. s \in Injection(1..n, S)
  BY <1>3, <1>5 DEF Injection, IsInjective
<1>7. s \in Surjection(1..n, S)
  BY <1>1, <1>6, FS_Injection DEF n
<1>8. \A x \in S : \E i \in 1..n : s[i] = x
  BY <1>7 DEF Surjection
<1>9. ASSUME NEW i \in 1..n
      PROVE  Cardinality(Before(R, S, s[i])) = i - 1
  <2> DEFINE b == Before(R, S, s[i])
             f == [j \in 1..i - 1 |-> s[j]]
  <2>1. \A j \in 1..i - 1 : j \in 1..n /\ j < i
    BY <1>1
  <2>2. \A j \in 1..n : j < i => j \in 1..i - 1
    BY <1>1
  <2>3. f \in [1..i - 1 -> b]
    BY <1>2, <1>3, <2>1 DEF Before
  <2>4. \A x \in b : \E j \in 1..i - 1 : f[j] = x
    BY <1>4, <1>8, <2>2 DEF Before
  <2>5. \A j, k \in 1..i - 1 : f[j] = f[k] => j = k
    BY <1>5, <2>1
  <2> HIDE DEF f, b
  <2>6. f \in Surjection(1..i - 1, b) /\ f \in Injection(1..i - 1, b)
    BY <2>3, <2>4, <2>5 DEF Surjection, Injection, IsInjective
  <2>7. IsFiniteSet(1..i - 1) /\ Cardinality(1..i - 1) = i - 1
    BY <1>1, FS_Interval
  <2>8. Cardinality(b) = Cardinality(1..i - 1)
    BY <2>6, <2>7, FS_Surjection
  <2> QED
    BY <2>7, <2>8 DEF b
<1> QED
  BY <1>1, <1>8, <1>9 DEF n

--------------------------------------------------------------------------------
(***************************************************************************)
(* The history of a thread (ThreadHistory): a page has the newest of what  *)
(* is behind the cursor, so nothing that was there all along is passed     *)
(* over.                                                                   *)
(***************************************************************************)
\* The cardinalities of ThreadHistory are the library's.
LEMMA HistoryCounts ==
  /\ \A S : H!Cardinality(S) = Cardinality(S)
  /\ \A S : H!IsFiniteSet(S) <=> IsFiniteSet(S)
BY DEF H!Cardinality, Cardinality, H!IsFiniteSet, IsFiniteSet

\* What a concatenation has, and where.
LEMMA Joined ==
  ASSUME NEW S, NEW s \in Seq(S), NEW t \in Seq(S)
  PROVE  /\ s \o t \in Seq(S) /\ Len(s \o t) = Len(s) + Len(t)
         /\ Len(s) \in Nat /\ Len(t) \in Nat
         /\ \A i \in 1..Len(s) : (s \o t)[i] = s[i]
         /\ \A i \in 1..Len(t) : (s \o t)[Len(s) + i] = t[i]
         /\ \A i \in 1..Len(s \o t) :
              i \in 1..Len(s) \/ (i - Len(s) \in 1..Len(t) /\ Len(s) + (i - Len(s)) = i)
<1>1. /\ s \o t \in Seq(S) /\ Len(s \o t) = Len(s) + Len(t)
      /\ Len(s) \in Nat /\ Len(t) \in Nat
      /\ \A i \in 1..Len(s) : (s \o t)[i] = s[i]
      /\ \A i \in 1..Len(t) : (s \o t)[Len(s) + i] = t[i]
  OBVIOUS
<1>2. \A i \in 1..Len(s \o t) :
        i \in 1..Len(s) \/ (i - Len(s) \in 1..Len(t) /\ Len(s) + (i - Len(s)) = i)
  BY <1>1
<1> QED
  BY <1>1, <1>2

\* The order of checkpoints: they are numbered as they are made.
GreaterIn(S) == {x \in S \X S : x[1] > x[2]}

\* Sorted of ThreadHistory lists checkpoints, the newest first.
LEMMA HistorySorted ==
  ASSUME NEW S \in SUBSET Nat, IsFiniteSet(S)
  PROVE  LET s == H!Sorted(S)  n == Cardinality(S) IN
           /\ n \in Nat /\ s \in [1..n -> S]
           /\ \A x \in S : \E i \in 1..n : s[i] = x
           /\ \A i, j \in 1..n : i < j => s[i] > s[j]
<1> DEFINE R == GreaterIn(S) n == Cardinality(S) s == H!Sorted(S)
<1>1. \A x, y \in S : <<x, y>> \in R <=> x > y
  BY DEF GreaterIn
<1>2. Orders(R, S)
  BY <1>1 DEF Orders
<1> HIDE DEF R
<1>3. PICK r \in [1..n -> S] : InOrder(r, R)
  BY <1>2, SortExists
<1>4. \A i, j \in DOMAIN r : i < j => r[i] > r[j]
  BY <1>1, <1>3 DEF InOrder
<1>5. s = CHOOSE q \in [1..n -> S] : \A i, j \in DOMAIN q : i < j => q[i] > q[j]
  BY HistoryCounts DEF H!Sorted
<1> HIDE DEF s
<1>6. s \in [1..n -> S] /\ \A i, j \in DOMAIN s : i < j => s[i] > s[j]
  BY <1>3, <1>4, <1>5
<1>7. InOrder(s, R)
  BY <1>1, <1>6 DEF InOrder
<1>8. n \in Nat /\ \A x \in S : \E i \in 1..n : s[i] = x
  BY <1>2, <1>6, <1>7, SortPlaces
<1> QED
  BY <1>6, <1>8 DEF s

\* What a page of the history may still show.
Behind == {c \in H!After(hClient.before) : H!Admits(c)}

\* A page has the newest of what is behind the cursor and admitted.
LEMMA HistoryPage ==
  ASSUME H!TypeOK, H!UsedFinite
  PROVE  LET p == H!Page  limit == hClient.limit IN
           /\ Behind \subseteq hSaved
           /\ \A c \in Behind : hClient.before # 0 => c < hClient.before
           /\ p \in Seq(Behind) /\ Len(p) <= limit /\ limit \in Nat /\ limit >= 1
           /\ \A i, j \in 1..Len(p) : i < j => p[i] > p[j]
           /\ \A c \in Behind : \/ \E i \in 1..Len(p) : p[i] = c
                                \/ Len(p) = limit /\ c < p[Len(p)]
<1> DEFINE p == H!Page
           limit == hClient.limit
           n == Cardinality(Behind)
           s == H!Sorted(Behind)
           m == IF limit < n THEN limit ELSE n
<1>1. limit \in Nat /\ limit >= 1
  BY HistoryLimits DEF H!TypeOK, H!Bounds
<1>2. /\ Behind \subseteq hSaved /\ \A c \in Behind : hClient.before # 0 => c < hClient.before
  BY DEF Behind, H!After
<1>3. Behind \in SUBSET Nat /\ Behind \subseteq hUsed
  BY <1>2, HistoryLimits DEF H!TypeOK, H!Bounds
<1>4. IsFiniteSet(Behind)
  BY <1>3, FS_Subset, HistoryCounts DEF H!UsedFinite
<1>5. /\ n \in Nat /\ s \in [1..n -> Behind]
      /\ \A x \in Behind : \E i \in 1..n : s[i] = x
      /\ \A i, j \in 1..n : i < j => s[i] > s[j]
  BY <1>3, <1>4, HistorySorted
<1> HIDE DEF limit, n, s
<1>6. s \in Seq(Behind) /\ Len(s) = n
  BY <1>5
<1>7. p = SubSeq(s, 1, m)
  BY <1>6 DEF H!Page, H!Cut, Behind, s, limit
<1> HIDE DEF p
<1>8. m \in Nat /\ m <= n /\ m <= limit /\ (m = n \/ m = limit)
  BY <1>1, <1>5
<1>9. \A i \in 1..m : i \in 1..n /\ s[i] \in Behind
  BY <1>5, <1>8
<1> HIDE DEF m
<1>10. p \in Seq(Behind) /\ Len(p) = m /\ \A i \in 1..m : p[i] = s[i]
  <2>1. /\ p \in Seq(Behind)
        /\ Len(p) = IF 1 <= m THEN m - 1 + 1 ELSE 0
        /\ \A i \in 1..m - 1 + 1 : p[i] = s[1 + i - 1]
    BY <1>7, <1>8, <1>9, SubSeqProperties
  <2> QED
    BY <1>8, <2>1
<1>11. \A i, j \in 1..Len(p) : i < j => p[i] > p[j]
  BY <1>5, <1>9, <1>10
<1>12. ASSUME NEW c \in Behind
       PROVE  \/ \E i \in 1..Len(p) : p[i] = c
              \/ Len(p) = limit /\ c < p[Len(p)]
  <2>1. PICK k \in 1..n : s[k] = c
    BY <1>5
  <2>2. CASE k <= m
    <3>1. k \in 1..m
      BY <1>5, <1>8, <2>2
    <3> QED
      BY <1>10, <2>1, <3>1
  <2>3. CASE k > m
    <3>1. m = limit /\ m \in 1..n /\ m < k
      BY <1>1, <1>5, <1>8, <2>3
    <3>2. s[m] > s[k]
      BY <1>5, <3>1
    <3>3. s[m] \in Nat /\ c \in Nat
      BY <1>3, <1>5, <3>1
    <3>4. m \in 1..m
      BY <1>8, <3>1
    <3>5. p[m] = s[m]
      BY <1>10, <3>4
    <3> QED
      BY <1>10, <2>1, <3>1, <3>2, <3>3, <3>5
  <2> QED
    BY <1>5, <1>8, <2>2, <2>3
<1> QED
  BY <1>1, <1>2, <1>8, <1>10, <1>11, <1>12 DEF p, limit

\* A client of the history that has used the set U.
HClientType(U) ==
  [pc : {"idle", "paging", "done", "failed"}, filtered : BOOLEAN, limit : 1..MaxLimit,
   before : U \cup {0}, got : Seq(U), steady : SUBSET U, pruned : BOOLEAN, misled : BOOLEAN]

\* A history starts empty, and nobody pages through it.
LEMMA HistoryInit == H!Init => H!Inv
<1> SUFFICES ASSUME H!Init PROVE H!Inv
  OBVIOUS
<1>1. <<>> \in Seq(hUsed) /\ Len(<<>>) = 0
  OBVIOUS
<1>2. /\ hClient \in HClientType(hUsed) /\ hClient.pc = "idle"
      /\ hClient.got = <<>> /\ hClient.before = 0
  BY <1>1, HistoryLimits DEF H!Init, H!NoClient, H!Bounds, HClientType
<1>3. H!TypeOK
  BY <1>2 DEF H!TypeOK, H!Init, HClientType
<1>4. H!UsedFinite
  BY FS_EmptySet, HistoryCounts DEF H!UsedFinite, H!Init
<1> QED
  BY <1>1, <1>2, <1>3, <1>4
     DEF H!Inv, H!CursorIsLast, H!ShownOrBehind, H!HistoryCovers, H!NothingSkipped, H!AllShown,
         H!HistoryDescends

\* put and pruning: the cursor of a client stays while nothing is pruned.
LEMMA HistoryWrites ==
  ASSUME H!Inv, NEW c \in CheckpointIds, H!Save(c) \/ H!Prune(c)
  PROVE  H!Inv'
<1> USE DEF H!Inv
<1>1. /\ hSaved \subseteq hUsed /\ hUsed \subseteq CheckpointIds /\ hRuns \subseteq hUsed
      /\ hClient \in HClientType(hUsed)
  BY DEF H!TypeOK, HClientType
<1>2. /\ hUsed' \in {hUsed, hUsed \cup {c}} /\ hUsed' \subseteq CheckpointIds
      /\ hSaved' \subseteq hUsed' /\ hRuns' \subseteq hUsed' /\ hRuns \subseteq hRuns'
      /\ hUsed \subseteq hUsed'
  BY <1>1 DEF H!Save, H!Prune
<1>3. /\ hClient' \in HClientType(hUsed)
      /\ hClient'.pc = hClient.pc /\ hClient'.filtered = hClient.filtered
      /\ hClient'.limit = hClient.limit /\ hClient'.before = hClient.before
      /\ hClient'.got = hClient.got /\ hClient'.steady = hClient.steady
      /\ hClient'.misled = hClient.misled
      /\ ~hClient'.pruned => ~hClient.pruned /\ (hClient.pc = "paging" => hSaved \subseteq hSaved')
      /\ hClient.pc # "paging" => hClient'.pruned = hClient.pruned
  <2>1. CASE H!Save(c)
    BY <1>1, <2>1 DEF H!Save
  <2>2. CASE H!Prune(c)
    <3> DEFINE b == hClient.pruned \/ hClient.pc = "paging"
    <3>1. hClient' = [hClient EXCEPT !.pruned = b] /\ b \in BOOLEAN
      BY <1>1, <2>2 DEF H!Prune, HClientType
    <3> HIDE DEF b
    <3>2. /\ hClient' \in HClientType(hUsed)
          /\ hClient'.pc = hClient.pc /\ hClient'.filtered = hClient.filtered
          /\ hClient'.limit = hClient.limit /\ hClient'.before = hClient.before
          /\ hClient'.got = hClient.got /\ hClient'.steady = hClient.steady
          /\ hClient'.misled = hClient.misled /\ hClient'.pruned = b
      BY <1>1, <3>1 DEF HClientType
    <3>3. hClient.pruned \in BOOLEAN
      BY <1>1 DEF HClientType
    <3> QED
      BY <3>2, <3>3 DEF b
  <2> QED
    BY <2>1, <2>2
<1>4. H!TypeOK'
  <2>1. Seq(hUsed) \subseteq Seq(hUsed')
    BY <1>2
  <2>2. hClient' \in HClientType(hUsed')
    BY <1>2, <1>3, <2>1 DEF HClientType
  <2> QED
    BY <1>2, <2>2 DEF H!TypeOK, HClientType
<1>5. H!UsedFinite'
  <2>1. IsFiniteSet(hUsed)
    BY HistoryCounts DEF H!UsedFinite
  <2>2. IsFiniteSet(hUsed \cup {c})
    BY <2>1, FS_AddElement
  <2>3. IsFiniteSet(hUsed')
    BY <1>2, <2>1, <2>2
  <2> QED
    BY <2>3, HistoryCounts DEF H!UsedFinite
<1>6. H!CursorIsLast'
  BY <1>3 DEF H!CursorIsLast
<1>7. H!ShownOrBehind'
  <2> SUFFICES ASSUME hClient.pc = "paging", ~hClient'.pruned
               PROVE  /\ hClient.before # 0 => hClient.before \in hSaved'
                      /\ \A d \in hClient.steady :
                           \/ d \in H!ToSet(hClient.got)
                           \/ /\ d \in hSaved' /\ (hClient.before # 0 => d < hClient.before)
                              /\ hClient.filtered => d \in hRuns'
    BY <1>3 DEF H!ShownOrBehind, H!After, H!Admits, H!ToSet
  <2>1. /\ hClient.before # 0 => hClient.before \in hSaved
        /\ \A d \in hClient.steady :
             d \in H!ToSet(hClient.got) \/ (d \in H!After(hClient.before) /\ H!Admits(d))
        /\ hSaved \subseteq hSaved'
    BY <1>3 DEF H!ShownOrBehind
  <2> QED
    BY <1>2, <2>1 DEF H!After, H!Admits
<1>8. H!HistoryCovers' /\ H!HistoryDescends'
  BY <1>3 DEF H!HistoryCovers, H!NothingSkipped, H!AllShown, H!HistoryDescends, H!ToSet
<1> QED
  BY <1>4, <1>5, <1>6, <1>7, <1>8

\* A client asks for its first page: nothing is behind it yet.
LEMMA HistoryBegins ==
  ASSUME H!Inv, NEW filtered \in BOOLEAN, NEW limit \in 1..MaxLimit, H!Begins(filtered, limit)
  PROVE  H!Inv'
<1> DEFINE steady == IF filtered THEN hSaved \cap hRuns ELSE hSaved
<1>1. /\ hSaved' = hSaved /\ hRuns' = hRuns /\ hUsed' = hUsed
      /\ hClient' = [H!NoClient EXCEPT !.pc = "paging", !.filtered = filtered, !.limit = limit,
                                       !.steady = steady]
      /\ steady \subseteq hSaved /\ steady \subseteq hUsed
      /\ \A d \in steady : filtered => d \in hRuns
  BY DEF H!Begins, H!Inv, H!TypeOK
<1>2. <<>> \in Seq(hUsed) /\ Len(<<>>) = 0
  OBVIOUS
<1> HIDE DEF steady
<1>3. /\ hClient' \in HClientType(hUsed)
      /\ hClient'.pc = "paging" /\ hClient'.got = <<>> /\ hClient'.before = 0
      /\ hClient'.steady = steady /\ hClient'.filtered = filtered
  BY <1>1, <1>2 DEF HClientType, H!NoClient
<1>4. H!TypeOK'
  BY <1>1, <1>3 DEF H!Inv, H!TypeOK, HClientType
<1>5. H!UsedFinite'
  BY <1>1 DEF H!Inv, H!UsedFinite
<1> QED
  BY <1>1, <1>2, <1>3, <1>4, <1>5
     DEF H!Inv, H!CursorIsLast, H!ShownOrBehind, H!After, H!Admits, H!HistoryCovers,
         H!NothingSkipped, H!AllShown, H!HistoryDescends

\* The next page: what it leaves out is behind the new cursor.
LEMMA HistoryShows ==
  ASSUME H!Inv, H!History, H!ShowsPage
  PROVE  H!Inv'
<1> DEFINE p == H!Page
           g == hClient.got
           w == g \o p
           last == IF p = <<>> THEN hClient.before ELSE p[Len(p)]
           limit == hClient.limit
<1>1. /\ hClient.pc = "paging" /\ hSaved' = hSaved /\ hRuns' = hRuns /\ hUsed' = hUsed
      /\ hClient' = [hClient EXCEPT !.got = w, !.before = last,
                                    !.pc = IF Len(p) < limit THEN "done" ELSE "paging"]
  BY DEF H!History, H!ShowsPage
<1>2. /\ hSaved \subseteq hUsed /\ hUsed \subseteq CheckpointIds /\ hRuns \subseteq hUsed
      /\ hClient \in HClientType(hUsed) /\ \A c \in hUsed : c \in Nat /\ c # 0
  BY HistoryLimits DEF H!Inv, H!TypeOK, HClientType, H!Bounds
<1>3. /\ Behind \subseteq hSaved
      /\ \A c \in Behind : hClient.before # 0 => c < hClient.before
      /\ p \in Seq(Behind) /\ Len(p) <= limit /\ limit \in Nat /\ limit >= 1
      /\ \A i, j \in 1..Len(p) : i < j => p[i] > p[j]
      /\ \A c \in Behind : (\E i \in 1..Len(p) : p[i] = c) \/ (Len(p) = limit /\ c < p[Len(p)])
  BY HistoryPage DEF H!Inv
<1> HIDE DEF p
<1>4. p \in Seq(hUsed) /\ g \in Seq(hUsed)
  BY <1>2, <1>3 DEF HClientType
<1>5. /\ w \in Seq(hUsed) /\ Len(w) = Len(g) + Len(p) /\ Len(g) \in Nat /\ Len(p) \in Nat
      /\ \A i \in 1..Len(g) : w[i] = g[i]
      /\ \A i \in 1..Len(p) : w[Len(g) + i] = p[i]
      /\ \A i \in 1..Len(w) : i \in 1..Len(g) \/ (i - Len(g) \in 1..Len(p) /\ Len(g) + (i - Len(g)) = i)
  BY <1>4, Joined
<1>6. p # <<>> => Len(p) \in 1..Len(p) /\ Len(p) >= 1 /\ p[Len(p)] \in Behind
  BY <1>3, <1>5
<1>7. last \in hUsed \cup {0}
  BY <1>2, <1>3, <1>6 DEF HClientType
<1>8. hClient.before = IF g = <<>> THEN 0 ELSE g[Len(g)]
  BY DEF H!Inv, H!CursorIsLast
<1> HIDE DEF w, last, limit, g
<1>9. /\ hClient' \in HClientType(hUsed)
      /\ hClient'.pc = (IF Len(p) < limit THEN "done" ELSE "paging")
      /\ hClient'.filtered = hClient.filtered /\ hClient'.got = w /\ hClient'.before = last
      /\ hClient'.steady = hClient.steady /\ hClient'.pruned = hClient.pruned
      /\ hClient'.misled = hClient.misled
  BY <1>1, <1>2, <1>5, <1>7 DEF HClientType
<1>10. H!TypeOK'
  BY <1>1, <1>2, <1>9 DEF H!TypeOK, HClientType
<1>11. H!UsedFinite'
  BY <1>1 DEF H!Inv, H!UsedFinite
<1>12. last = IF w = <<>> THEN 0 ELSE w[Len(w)]
  <2>1. CASE p = <<>>
    <3>1. w = g
      BY <1>4, <2>1 DEF w
    <3> QED
      BY <1>8, <2>1, <3>1 DEF last
  <2>2. CASE p # <<>>
    <3>1. w # <<>> /\ w[Len(w)] = p[Len(p)]
      BY <1>5, <1>6, <2>2
    <3> QED
      BY <2>2, <3>1 DEF last
  <2> QED
    BY <2>1, <2>2
<1>13. H!CursorIsLast'
  BY <1>9, <1>12 DEF H!CursorIsLast
<1>14. /\ H!ToSet(g) \subseteq H!ToSet(w)
       /\ \A i \in 1..Len(p) : p[i] \in H!ToSet(w)
  <2>1. H!ToSet(g) = {g[i] : i \in 1..Len(g)} /\ H!ToSet(w) = {w[i] : i \in 1..Len(w)}
    <3>1. DOMAIN g = 1..Len(g) /\ DOMAIN w = 1..Len(w)
      BY <1>4, <1>5
    <3> QED
      BY <3>1 DEF H!ToSet
  <2>2. \A i \in 1..Len(g) : i \in 1..Len(w)
    BY <1>5
  <2>3. \A i \in 1..Len(p) : Len(g) + i \in 1..Len(w)
    BY <1>5
  <2> QED
    BY <1>5, <2>1, <2>2, <2>3
<1>15. ~hClient.pruned => \A c \in hClient.steady : c \in H!ToSet(g) \/ c \in Behind
  BY <1>1 DEF H!Inv, H!ShownOrBehind, Behind, H!After, g
<1>16. H!ShownOrBehind'
  <2> SUFFICES ASSUME ~(Len(p) < limit), ~hClient.pruned
               PROVE  /\ last \in hSaved
                      /\ \A c \in hClient.steady :
                           c \in H!ToSet(w) \/ (c \in hSaved /\ c < last /\ H!Admits(c))
    BY <1>1, <1>9 DEF H!ShownOrBehind, H!After, H!Admits, H!ToSet
  <2>1. p # <<>>
    BY <1>3, <1>5
  <2>2. last = p[Len(p)] /\ last \in hSaved
    BY <1>3, <1>6, <2>1 DEF last
  <2>3. \A c \in Behind : H!Admits(c)
    BY DEF Behind
  <2> QED
    BY <1>3, <1>14, <1>15, <2>2, <2>3
<1>17. H!HistoryCovers'
  <2>1. ASSUME Len(p) < limit, ~hClient.pruned
        PROVE  hClient.steady \subseteq H!ToSet(w)
    <3>1. Len(p) # limit
      BY <1>3, <1>5, <2>1
    <3> QED
      BY <1>3, <1>14, <1>15, <2>1, <3>1
  <2>2. ASSUME ~hClient.pruned, NEW c \in hClient.steady, c \notin H!ToSet(w)
        PROVE  w # <<>> /\ c < w[Len(w)]
    <3>1. Len(p) = limit /\ c < p[Len(p)]
      BY <1>3, <1>14, <1>15, <2>2
    <3>2. p # <<>>
      BY <1>3, <1>5, <3>1
    <3> QED
      BY <1>5, <1>6, <3>1, <3>2
  <2> QED
    BY <1>9, <2>1, <2>2 DEF H!HistoryCovers, H!NothingSkipped, H!AllShown, H!ToSet
<1>18. H!HistoryDescends'
  <2> SUFFICES ASSUME NEW i \in 1..Len(w), NEW j \in 1..Len(w), i < j
               PROVE  w[i] > w[j]
    BY <1>9 DEF H!HistoryDescends
  <2>1. \A k, l \in 1..Len(g) : k < l => g[k] > g[l]
    BY DEF H!Inv, H!HistoryDescends, g
  <2>2. CASE j \in 1..Len(g)
    <3>1. i \in 1..Len(g)
      BY <1>5, <2>2
    <3> QED
      BY <1>5, <2>1, <2>2, <3>1
  <2>3. CASE i \in 1..Len(g) /\ j \notin 1..Len(g)
    <3> DEFINE l == j - Len(g)
    <3>1. l \in 1..Len(p) /\ Len(g) + l = j
      BY <1>5, <2>3
    <3> HIDE DEF l
    <3>2. w[i] = g[i] /\ w[j] = p[l] /\ p[l] \in Behind
      BY <1>3, <1>5, <2>3, <3>1
    <3>3. g # <<>> /\ Len(g) \in 1..Len(g) /\ g[Len(g)] \in hUsed /\ g[i] \in hUsed
      BY <1>4, <1>5, <2>3
    <3>4. g[Len(g)] <= g[i]
      <4>1. i = Len(g) \/ i < Len(g)
        BY <1>5, <2>3
      <4> QED
        BY <1>2, <2>1, <2>3, <3>3, <4>1
    <3>5. p[l] < g[Len(g)]
      BY <1>2, <1>3, <1>8, <3>2, <3>3
    <3>6. p[l] \in Nat /\ g[i] \in Nat /\ g[Len(g)] \in Nat
      BY <1>2, <1>3, <3>2, <3>3
    <3>7. g[i] > p[l]
      BY <3>4, <3>5, <3>6
    <3> QED
      BY <3>2, <3>7
  <2>4. CASE i \notin 1..Len(g) /\ j \notin 1..Len(g)
    <3> DEFINE k == i - Len(g) l == j - Len(g)
    <3>1. k \in 1..Len(p) /\ l \in 1..Len(p) /\ k < l /\ Len(g) + k = i /\ Len(g) + l = j
      BY <1>5, <2>4
    <3> HIDE DEF k, l
    <3>2. p[k] > p[l]
      BY <1>3, <3>1
    <3> QED
      BY <1>5, <3>1, <3>2
  <2> QED
    BY <2>2, <2>3, <2>4
<1> QED
  BY <1>10, <1>11, <1>13, <1>16, <1>17, <1>18 DEF H!Inv

\* An error in a page, whether the client can tell it from the end or not: the
\* cursor stays, and so does what was got.
LEMMA HistoryErrs ==
  ASSUME H!Inv, H!History, H!ShowsNothing \/ H!Fails
  PROVE  H!Inv'
<1>1. /\ hSaved' = hSaved /\ hRuns' = hRuns /\ hUsed' = hUsed /\ hClient.pc = "paging"
      /\ hClient \in HClientType(hUsed)
  BY DEF H!History, H!Inv, H!TypeOK, HClientType
<1>2. \/ hClient' = hClient
      \/ hClient' = [hClient EXCEPT !.pc = "failed"]
      \/ hClient' = [hClient EXCEPT !.pc = "done", !.misled = TRUE]
  BY DEF H!ShowsNothing, H!Fails
<1>3. /\ hClient' \in HClientType(hUsed)
      /\ hClient'.filtered = hClient.filtered /\ hClient'.before = hClient.before
      /\ hClient'.got = hClient.got /\ hClient'.steady = hClient.steady
      /\ hClient'.pruned = hClient.pruned
      /\ hClient' = hClient \/ hClient'.pc = "failed" \/ (hClient'.pc = "done" /\ hClient'.misled)
  BY <1>1, <1>2 DEF HClientType
<1>4. H!TypeOK'
  BY <1>1, <1>3 DEF H!Inv, H!TypeOK, HClientType
<1>5. H!UsedFinite' /\ H!CursorIsLast'
  BY <1>1, <1>3 DEF H!Inv, H!UsedFinite, H!CursorIsLast
<1>6. H!ShownOrBehind'
  BY <1>1, <1>3 DEF H!Inv, H!ShownOrBehind, H!After, H!Admits, H!ToSet
<1>7. H!HistoryCovers' /\ H!HistoryDescends'
  BY <1>1, <1>3
     DEF H!Inv, H!HistoryCovers, H!NothingSkipped, H!AllShown, H!HistoryDescends, H!ToSet
<1> QED
  BY <1>4, <1>5, <1>6, <1>7 DEF H!Inv

\* Every step of a history keeps its invariant.
LEMMA HistoryStep == H!Inv /\ [H!Next]_hVars => H!Inv'
<1> SUFFICES ASSUME H!Inv, [H!Next]_hVars PROVE H!Inv'
  OBVIOUS
<1>1. CASE UNCHANGED hVars
  BY <1>1 DEF hVars, H!Inv, H!TypeOK, H!UsedFinite, H!CursorIsLast, H!ShownOrBehind, H!After,
              H!Admits, H!HistoryCovers, H!NothingSkipped, H!AllShown, H!HistoryDescends, H!ToSet
<1>2. CASE H!History
  BY <1>2, HistoryShows, HistoryErrs DEF H!History
<1> QED
  BY <1>1, <1>2, HistoryWrites, HistoryBegins DEF H!Next

\* The invariant of a client that pages through a history (platform/_threads.py).
THEOREM HistoryInvariance == H!Spec => []H!Inv
<1>1. H!Inv /\ [H!Next]_H!vars => H!Inv'
  BY HistoryStep DEF H!vars, hVars
<1> QED
  BY <1>1, HistoryInit, PTL DEF H!Spec

--------------------------------------------------------------------------------
(***************************************************************************)
(* The search of threads (ThreadListing): a thread moves towards the end   *)
(* of the pages only, so what the offset has passed was shown.             *)
(***************************************************************************)
\* The cardinalities of ThreadListing are the library's.
LEMMA ListingCounts ==
  /\ \A S : L!Cardinality(S) = Cardinality(S)
  /\ \A S : L!IsFiniteSet(S) <=> IsFiniteSet(S)
BY DEF L!Cardinality, Cardinality, L!IsFiniteSet, IsFiniteSet

\* Ahead of ThreadListing, as a relation on S.
AheadIn(S) == {x \in S \X S : L!Ahead(x[1], x[2])}

\* The order of a search is a strict order of the threads.
LEMMA AheadOrders ==
  ASSUME L!TypeOK, NEW S \in SUBSET ThreadIds
  PROVE  /\ Orders(AheadIn(S), S)
         /\ \A x, y \in S : <<x, y>> \in AheadIn(S) <=> L!Ahead(x, y)
         /\ \A x \in S : Before(AheadIn(S), S, x) = {u \in S : L!Ahead(u, x)}
<1>1. \A x \in S : x \in Nat /\ lThreads[x].created \in Nat
  BY ListingLimits DEF L!Bounds, L!TypeOK, L!Time
<1>2. \A x, y \in S : <<x, y>> \in AheadIn(S) <=> L!Ahead(x, y)
  BY DEF AheadIn
<1>3. Orders(AheadIn(S), S)
  BY <1>1, <1>2 DEF Orders, L!Ahead
<1>4. \A x \in S : Before(AheadIn(S), S, x) = {u \in S : L!Ahead(u, x)}
  BY <1>2 DEF Before
<1> QED
  BY <1>2, <1>3, <1>4

\* Sorted of ThreadListing has every thread at its place.
LEMMA ListingSorted ==
  ASSUME L!TypeOK, NEW S \in SUBSET ThreadIds, IsFiniteSet(S)
  PROVE  LET s == L!Sorted(S)  n == Cardinality(S) IN
           /\ n \in Nat /\ s \in [1..n -> S]
           /\ \A x \in S : \E i \in 1..n : s[i] = x
           /\ \A i \in 1..n : Cardinality({u \in S : L!Ahead(u, s[i])}) = i - 1
<1> DEFINE R == AheadIn(S) n == Cardinality(S) s == L!Sorted(S)
<1>1. Orders(R, S)
  BY AheadOrders
<1>2. \A x, y \in S : <<x, y>> \in R <=> L!Ahead(x, y)
  BY AheadOrders
<1>a. \A x \in S : Before(R, S, x) = {u \in S : L!Ahead(u, x)}
  BY AheadOrders
<1> HIDE DEF R
<1>3. PICK r \in [1..n -> S] : InOrder(r, R)
  BY <1>1, SortExists
<1>4. \A i, j \in DOMAIN r : i < j => L!Ahead(r[i], r[j])
  BY <1>2, <1>3 DEF InOrder
<1>5. s = CHOOSE q \in [1..n -> S] : \A i, j \in DOMAIN q : i < j => L!Ahead(q[i], q[j])
  BY ListingCounts DEF L!Sorted
<1> HIDE DEF s
<1>6. s \in [1..n -> S] /\ \A i, j \in DOMAIN s : i < j => L!Ahead(s[i], s[j])
  BY <1>3, <1>4, <1>5
<1>7. InOrder(s, R)
  BY <1>2, <1>6 DEF InOrder
<1>8. /\ n \in Nat /\ \A x \in S : \E i \in 1..n : s[i] = x
      /\ \A i \in 1..n : Cardinality(Before(R, S, s[i])) = i - 1
  BY <1>1, <1>6, <1>7, SortPlaces
<1>9. \A i \in 1..n : Cardinality({u \in S : L!Ahead(u, s[i])}) = i - 1
  BY <1>6, <1>8, <1>a
<1> QED
  BY <1>6, <1>8, <1>9 DEF s

\* What the search of the client finds.
Found == L!Filtered(lClient.filter)

\* What a search filters is finite, and a thread has a place of its own.
LEMMA PlacesDiffer ==
  ASSUME L!TypeOK, L!CreatedFinite
  PROVE  /\ Found \in SUBSET ThreadIds /\ IsFiniteSet(Found)
         /\ Cardinality(Found) \in Nat /\ L!Total(lClient.filter) = Cardinality(Found)
         /\ \A x \in Found : L!Place(x) \in Nat /\ L!Place(x) = Cardinality({u \in Found : L!Ahead(u, x)})
         /\ \A x, y \in Found : L!Ahead(x, y) => L!Place(x) < L!Place(y)
         /\ \A x, y \in Found : x = y \/ L!Ahead(x, y) \/ L!Ahead(y, x)
<1>1. Found \subseteq {t \in ThreadIds : lThreads[t].state # "new"} /\ Found \in SUBSET ThreadIds
  BY DEF Found, L!Filtered, L!Matches
<1>2. IsFiniteSet({t \in ThreadIds : lThreads[t].state # "new"})
  BY ListingCounts DEF L!CreatedFinite
<1>3. IsFiniteSet(Found) /\ Cardinality(Found) \in Nat
  BY <1>1, <1>2, FS_Subset, FS_CardinalityType
<1>4. L!Total(lClient.filter) = Cardinality(Found)
  BY ListingCounts DEF L!Total, Found
<1>5. ASSUME NEW x \in Found
      PROVE  /\ L!Place(x) = Cardinality({u \in Found : L!Ahead(u, x)})
             /\ L!Place(x) = Cardinality(Before(AheadIn(Found), Found, x))
             /\ L!Place(x) \in Nat
  <2>1. L!Place(x) = Cardinality({u \in Found : L!Ahead(u, x)})
    BY ListingCounts DEF L!Place, Found
  <2>2. Before(AheadIn(Found), Found, x) = {u \in Found : L!Ahead(u, x)}
    BY <1>1, AheadOrders
  <2>3. IsFiniteSet({u \in Found : L!Ahead(u, x)})
    BY <1>3, FS_Subset
  <2>4. Cardinality({u \in Found : L!Ahead(u, x)}) \in Nat
    BY <2>3, FS_CardinalityType
  <2> QED
    BY <2>1, <2>2, <2>4
<1>6. ASSUME NEW x \in Found, NEW y \in Found, L!Ahead(x, y)
      PROVE  L!Place(x) < L!Place(y)
  <2>1. Orders(AheadIn(Found), Found) /\ <<x, y>> \in AheadIn(Found)
    BY <1>1, <1>6, AheadOrders
  <2>2. Cardinality(Before(AheadIn(Found), Found, x)) < Cardinality(Before(AheadIn(Found), Found, y))
    BY <1>3, <2>1, BeforeGrows
  <2> QED
    BY <1>5, <2>2
<1>7. \A x, y \in Found : x = y \/ L!Ahead(x, y) \/ L!Ahead(y, x)
  BY <1>1, AheadOrders DEF Orders
<1> QED
  BY <1>1, <1>3, <1>4, <1>5, <1>6, <1>7

\* A page has the threads whose places the offset and the limit name.
LEMMA ListingPage ==
  ASSUME L!TypeOK, L!CreatedFinite
  PROVE  LET o == lClient.offset
             limit == lClient.limit
             n == Cardinality(Found)
             p == L!Page(L!Sorted(Found), o, limit)
         IN /\ p \in Seq(Found) /\ Len(p) <= limit
            /\ Len(p) < limit => n < o + limit
            /\ Len(p) = limit => o + limit <= n
            /\ o <= n /\ n < o + limit => Len(p) = n - o
            /\ \A i \in 1..Len(p) : L!Place(p[i]) = o + i - 1
            /\ \A x \in Found : L!Place(x) < n
            /\ \A x \in Found : o <= L!Place(x) /\ L!Place(x) < o + limit =>
                 \E i \in 1..Len(p) : p[i] = x
<1> DEFINE o == lClient.offset
           limit == lClient.limit
           n == Cardinality(Found)
           s == L!Sorted(Found)
           p == L!Page(s, o, limit)
           m == IF o + limit < n THEN o + limit ELSE n
<1>1. o \in Nat /\ limit \in Nat /\ limit >= 1
  BY ListingLimits DEF L!TypeOK, L!Bounds
<1>2. /\ n \in Nat /\ s \in [1..n -> Found]
      /\ \A x \in Found : \E i \in 1..n : s[i] = x
      /\ \A i \in 1..n : Cardinality({u \in Found : L!Ahead(u, s[i])}) = i - 1
  BY PlacesDiffer, ListingSorted
<1>3. \A i \in 1..n : L!Place(s[i]) = i - 1
  BY <1>2, PlacesDiffer
<1>4. s \in Seq(Found) /\ Len(s) = n
  BY <1>2
<1>5. p = SubSeq(s, o + 1, m)
  BY <1>4 DEF L!Page
<1> HIDE DEF o, limit, n, s, p
<1>6. m \in Nat /\ m <= n /\ m <= o + limit
  BY <1>1, <1>2
<1>7. \A i \in o + 1..m : s[i] \in Found /\ i \in 1..n
  BY <1>1, <1>2, <1>6
<1>8. /\ p \in Seq(Found)
      /\ Len(p) = IF o + 1 <= m THEN m - (o + 1) + 1 ELSE 0
      /\ \A i \in 1..m - (o + 1) + 1 : p[i] = s[(o + 1) + i - 1]
  <2>1. o + 1 \in Int /\ m \in Int
    BY <1>1, <1>6
  <2> QED
    BY <1>5, <1>7, <2>1, SubSeqProperties
<1>9. /\ Len(p) = IF o <= m THEN m - o ELSE 0
      /\ \A i \in 1..Len(p) : i \in 1..m - (o + 1) + 1 /\ (o + 1) + i - 1 = o + i /\ o + i \in o + 1..m
  <2> HIDE DEF m
  <2> QED
    BY <1>1, <1>6, <1>8
<1>10. \A i \in 1..Len(p) : p[i] = s[o + i] /\ o + i \in 1..n
  BY <1>7, <1>8, <1>9
<1>11. /\ Len(p) <= limit
       /\ Len(p) < limit => n < o + limit
       /\ Len(p) = limit => o + limit <= n
       /\ o <= n /\ n < o + limit => Len(p) = n - o
  BY <1>1, <1>2, <1>9
<1>12. ASSUME NEW i \in 1..Len(p) PROVE L!Place(p[i]) = o + i - 1
  <2>1. p[i] = s[o + i] /\ o + i \in 1..n
    BY <1>10
  <2>2. L!Place(s[o + i]) = (o + i) - 1
    BY <1>3, <2>1
  <2> QED
    BY <1>1, <2>1, <2>2
<1>13. \A x \in Found : L!Place(x) < n
  BY <1>2, <1>3
<1>14. ASSUME NEW x \in Found, o <= L!Place(x), L!Place(x) < o + limit
       PROVE  \E i \in 1..Len(p) : p[i] = x
  <2>1. PICK k \in 1..n : s[k] = x
    BY <1>2
  <2>2. L!Place(x) = k - 1
    BY <1>3, <2>1
  <2>3. k - o \in 1..Len(p) /\ o + (k - o) = k
    BY <1>1, <1>2, <1>9, <1>14, <2>2
  <2>4. p[k - o] = x
    BY <1>10, <2>1, <2>3
  <2> QED
    BY <2>3, <2>4
<1> QED
  BY <1>8, <1>11, <1>12, <1>13, <1>14 DEF o, limit, n, s, p

\* The clients of TypeOK.
ClientType == [pc : {"idle", "paging", "done"}, filter : Filters \cup {L!Everything},
               limit : 1..MaxPage, got : Seq(ThreadIds), offset : Nat, total : Nat,
               steady : SUBSET ThreadIds, disturbed : BOOLEAN, grown : BOOLEAN]

\* There is no thread at first, and nobody pages.
LEMMA ListingInit == L!Init => L!Inv
<1> SUFFICES ASSUME L!Init PROVE L!Inv
  OBVIOUS
<1>1. IsFiniteSet({})
  BY FS_EmptySet
<1>2. <<>> \in Seq(ThreadIds) /\ Len(<<>>) = 0
  OBVIOUS
<1>3. /\ \A t \in ThreadIds : lThreads[t].state = "new"
      /\ lThreads \in [ThreadIds -> [state : {"new", "there", "gone"}, created : L!Time,
                                     keys : SUBSET Keys, status : {"idle", "busy"}]]
  BY ListingLimits DEF L!Init, L!NoThread, L!Time, L!Bounds
<1>4. lClient \in ClientType /\ lClient.pc = "idle" /\ lClient.got = <<>>
  BY <1>2, ListingLimits DEF L!Init, L!NoClient, L!Bounds, ClientType
<1>5. lPatch \in [pc : {"idle", "writing"}, id : ThreadIds \cup {0}, keys : SUBSET Keys]
      /\ lPatch.pc = "idle"
  BY DEF L!Init, L!NoPatch
<1>6. L!TypeOK
  BY <1>3, <1>4, <1>5 DEF L!TypeOK, ClientType
<1>7. L!CreatedFinite
  <2>1. {t \in ThreadIds : lThreads[t].state # "new"} = {}
    BY <1>3
  <2> QED
    BY <1>1, <2>1, ListingCounts DEF L!CreatedFinite
<1>8. L!ShownWasThere
  BY <1>2, <1>4 DEF L!ShownWasThere, L!ToSet
<1> QED
  BY <1>4, <1>5, <1>6, <1>7, <1>8
     DEF L!Inv, L!PatchKnown, L!PassedIsShown, L!ShownIsPrefix, L!PagesCover, L!PagesExact

\* What a write does to the threads: at most x is created, times stay while a thread
\* is there, and the client is told for the properties.
Changes(x) ==
  /\ lThreads' \in [ThreadIds -> [state : {"new", "there", "gone"}, created : L!Time,
                                  keys : SUBSET Keys, status : {"idle", "busy"}]]
  /\ \A t \in ThreadIds :
       /\ lThreads[t].state # "new" => lThreads'[t].state # "new"
       /\ lThreads[t].state = "gone" => lThreads'[t].state = "gone"
       /\ lThreads[t].state # "new" => lThreads'[t].created <= lThreads[t].created
       /\ lThreads[t].state = "there" /\ lThreads'[t].state = "there" =>
            lThreads'[t].created = lThreads[t].created
       /\ t # x => lThreads'[t].state = "new" <=> lThreads[t].state = "new"
  /\ L!Watch

\* What it finds after the step.
FoundNext == {t \in ThreadIds : L!Matches(lThreads'[t], lClient.filter)}

\* Ahead and Place after the step.
AheadNext(u, t) ==
  \/ lThreads'[u].created > lThreads'[t].created
  \/ lThreads'[u].created = lThreads'[t].created /\ u < t

PlaceNext(t) == Cardinality({u \in FoundNext : AheadNext(u, t)})

\* What Watch makes of it.
LEMMA Watched ==
  ASSUME L!TypeOK, L!Watch
  PROVE  /\ lClient' \in ClientType
         /\ lClient'.pc = lClient.pc /\ lClient'.filter = lClient.filter
         /\ lClient'.limit = lClient.limit /\ lClient'.got = lClient.got
         /\ lClient'.offset = lClient.offset /\ lClient'.total = lClient.total
         /\ lClient'.steady = lClient.steady
         /\ lClient.pc # "paging" =>
              lClient'.disturbed = lClient.disturbed /\ lClient'.grown = lClient.grown
         /\ lClient.pc = "paging" =>
              /\ lClient'.disturbed = (lClient.disturbed \/ ~(Found \subseteq FoundNext))
              /\ lClient'.grown = (lClient.grown \/ ~(FoundNext \subseteq Found))
         /\ Found' = FoundNext
<1> DEFINE d == lClient.disturbed \/ ~(Found \subseteq FoundNext)
           g == lClient.grown \/ ~(FoundNext \subseteq Found)
<1>1. lClient' = IF lClient.pc # "paging" THEN lClient
                 ELSE [lClient EXCEPT !.disturbed = d, !.grown = g]
  BY DEF L!Watch, Found, FoundNext
<1>2. lClient \in ClientType /\ d \in BOOLEAN /\ g \in BOOLEAN
  BY DEF L!TypeOK, ClientType
<1> HIDE DEF d, g
<1>3. /\ lClient' \in ClientType
      /\ lClient'.pc = lClient.pc /\ lClient'.filter = lClient.filter
      /\ lClient'.limit = lClient.limit /\ lClient'.got = lClient.got
      /\ lClient'.offset = lClient.offset /\ lClient'.total = lClient.total
      /\ lClient'.steady = lClient.steady
      /\ lClient.pc # "paging" =>
           lClient'.disturbed = lClient.disturbed /\ lClient'.grown = lClient.grown
      /\ lClient.pc = "paging" => lClient'.disturbed = d /\ lClient'.grown = g
  BY <1>1, <1>2 DEF ClientType
<1>4. Found' = FoundNext
  BY <1>3 DEF Found, FoundNext, L!Filtered, L!Matches
<1> QED
  BY <1>3, <1>4 DEF d, g

\* A write keeps what the client may rely on.
LEMMA ChangesKeep ==
  ASSUME L!Inv, NEW x \in ThreadIds, Changes(x), L!PatchKnown',
         lPatch' \in [pc : {"idle", "writing"}, id : ThreadIds \cup {0}, keys : SUBSET Keys]
  PROVE  L!Inv'
<1> USE DEF L!Inv
<1>1. /\ lClient' \in ClientType
      /\ lClient'.pc = lClient.pc /\ lClient'.filter = lClient.filter
      /\ lClient'.limit = lClient.limit /\ lClient'.got = lClient.got
      /\ lClient'.offset = lClient.offset /\ lClient'.total = lClient.total
      /\ lClient'.steady = lClient.steady
      /\ lClient.pc # "paging" =>
           lClient'.disturbed = lClient.disturbed /\ lClient'.grown = lClient.grown
      /\ lClient.pc = "paging" =>
           /\ lClient'.disturbed = (lClient.disturbed \/ ~(Found \subseteq FoundNext))
           /\ lClient'.grown = (lClient.grown \/ ~(FoundNext \subseteq Found))
      /\ Found' = FoundNext
  BY Watched DEF Changes
<1>2. L!TypeOK'
  BY <1>1 DEF Changes, L!TypeOK, ClientType, L!Time
<1>3. L!CreatedFinite'
  <2> DEFINE C == {t \in ThreadIds : lThreads[t].state # "new"}
             D == {t \in ThreadIds : lThreads'[t].state # "new"}
  <2>1. D \subseteq C \cup {x}
    BY DEF Changes
  <2>2. IsFiniteSet(C)
    BY ListingCounts DEF L!CreatedFinite
  <2> HIDE DEF C
  <2>3. IsFiniteSet(D)
    BY <2>1, <2>2, FS_AddElement, FS_Subset
  <2> QED
    BY <2>3, ListingCounts DEF L!CreatedFinite
<1>4. /\ Found \in SUBSET ThreadIds /\ IsFiniteSet(Found)
      /\ L!Total(lClient.filter) = Cardinality(Found)
      /\ \A t \in Found : L!Place(t) \in Nat /\ L!Place(t) = Cardinality({u \in Found : L!Ahead(u, t)})
      /\ \A t, u \in Found : L!Ahead(t, u) => L!Place(t) < L!Place(u)
      /\ \A t, u \in Found : t = u \/ L!Ahead(t, u) \/ L!Ahead(u, t)
  BY PlacesDiffer
<1>5. FoundNext \in SUBSET ThreadIds /\ IsFiniteSet(FoundNext) /\ Cardinality(FoundNext) \in Nat
  <2>1. FoundNext \subseteq {t \in ThreadIds : lThreads'[t].state # "new"}
    BY DEF FoundNext, L!Matches
  <2>2. IsFiniteSet({t \in ThreadIds : lThreads'[t].state # "new"})
    BY <1>3, ListingCounts DEF L!CreatedFinite
  <2> QED
    BY <2>1, <2>2, FS_Subset, FS_CardinalityType
<1>6. L!Total(lClient.filter)' = Cardinality(FoundNext)
  BY <1>1, ListingCounts DEF L!Total, Found
<1>8. \A u, t \in ThreadIds :
        /\ lThreads[u].state = "there" /\ lThreads'[u].state = "there"
        /\ lThreads[t].state = "there" /\ lThreads'[t].state = "there"
        => (AheadNext(u, t) <=> L!Ahead(u, t))
  BY DEF Changes, L!Ahead, AheadNext
<1>9. /\ \A t \in Found : lThreads[t].state = "there"
      /\ \A t \in FoundNext : lThreads'[t].state = "there"
  BY DEF Found, FoundNext, L!Filtered, L!Matches
<1>10. ASSUME Found \subseteq FoundNext, NEW t \in Found
       PROVE  PlaceNext(t) \in Nat /\ L!Place(t) <= PlaceNext(t)
  <2> DEFINE B == {u \in Found : L!Ahead(u, t)}
             D == {u \in FoundNext : AheadNext(u, t)}
  <2>1. B \subseteq D
    BY <1>4, <1>5, <1>8, <1>9, <1>10
  <2>2. IsFiniteSet(D)
    BY <1>5, FS_Subset
  <2>3. L!Place(t) = Cardinality(B) /\ PlaceNext(t) = Cardinality(D)
    BY <1>4, <1>10 DEF PlaceNext
  <2> HIDE DEF B, D
  <2> QED
    BY <2>1, <2>2, <2>3, FS_Subset, FS_CardinalityType
<1>11. ASSUME Found = FoundNext, NEW t \in Found
       PROVE  PlaceNext(t) = L!Place(t)
  <2>1. {u \in Found : L!Ahead(u, t)} = {u \in FoundNext : AheadNext(u, t)}
    BY <1>4, <1>5, <1>8, <1>9, <1>11
  <2> QED
    BY <1>4, <1>11, <2>1 DEF PlaceNext
<1>12. L!PassedIsShown'
  <2> SUFFICES ASSUME lClient.pc = "paging", ~lClient'.disturbed
               PROVE  /\ lClient.steady \subseteq FoundNext
                      /\ \A t \in lClient.steady :
                           PlaceNext(t) < lClient.offset => t \in L!ToSet(lClient.got)
    BY <1>1, ListingCounts DEF L!PassedIsShown, L!ToSet, L!Place, L!Ahead, Found, PlaceNext, AheadNext
  <2>1. ~lClient.disturbed /\ Found \subseteq FoundNext
    BY <1>1
  <2>2. /\ lClient.steady \subseteq Found
        /\ \A t \in lClient.steady : L!Place(t) < lClient.offset => t \in L!ToSet(lClient.got)
    BY <2>1 DEF L!PassedIsShown, Found
  <2>3. lClient.offset \in Nat
    BY DEF L!TypeOK
  <2>4. ASSUME NEW t \in lClient.steady, PlaceNext(t) < lClient.offset
        PROVE  L!Place(t) < lClient.offset
    <3>1. L!Place(t) \in Nat /\ PlaceNext(t) \in Nat /\ L!Place(t) <= PlaceNext(t)
      BY <1>4, <1>10, <2>1, <2>2
    <3> QED
      BY <2>3, <2>4, <3>1
  <2> QED
    BY <2>1, <2>2, <2>4
<1>13. L!ShownIsPrefix'
  <2> SUFFICES ASSUME lClient.pc = "paging", ~lClient'.disturbed, ~lClient'.grown
               PROVE  /\ lClient.steady = FoundNext
                      /\ lClient.total = Cardinality(FoundNext)
                      /\ Len(lClient.got) = lClient.offset /\ lClient.offset <= lClient.total
                      /\ \A i \in 1..lClient.offset :
                           lClient.got[i] \in lClient.steady /\ PlaceNext(lClient.got[i]) = i - 1
    <3> DEFINE good(i) == lClient.got[i] \in lClient.steady /\ PlaceNext(lClient.got[i]) = i - 1
    <3>1. /\ L!Filtered(lClient.filter)' = FoundNext
          /\ L!Total(lClient.filter)' = Cardinality(FoundNext)
      BY <1>1, <1>6 DEF Found
    <3>2. \A t : L!Cardinality({u \in FoundNext : AheadNext(u, t)}) = PlaceNext(t)
      BY ListingCounts DEF PlaceNext
    <3>3. (\A i \in 1..lClient.offset : good(i)) =>
            (\A i \in 1..lClient.offset :
                lClient.got[i] \in lClient.steady /\ L!Place(lClient.got[i]) = i - 1)'
      BY <1>1, <3>1, <3>2 DEF L!Place, L!Ahead, AheadNext
    <3> QED
      BY <1>1, <3>1, <3>3 DEF L!ShownIsPrefix
  <2>1. ~lClient.disturbed /\ ~lClient.grown /\ Found = FoundNext
    BY <1>1
  <2>2. /\ lClient.steady = Found
        /\ lClient.total = L!Total(lClient.filter)
        /\ Len(lClient.got) = lClient.offset /\ lClient.offset <= lClient.total
        /\ \A i \in 1..lClient.offset :
             lClient.got[i] \in lClient.steady /\ L!Place(lClient.got[i]) = i - 1
    BY <2>1 DEF L!ShownIsPrefix, Found
  <2> QED
    BY <1>4, <1>11, <2>1, <2>2
<1>14. L!ShownWasThere'
  <2>1. L!ToSet(lClient'.got) = L!ToSet(lClient.got)
    BY <1>1 DEF L!ToSet
  <2>2. L!ToSet(lClient.got) \subseteq ThreadIds
    BY DEF L!ToSet, L!TypeOK
  <2> QED
    BY <2>1, <2>2 DEF L!ShownWasThere, Changes, L!ToSet
<1>15. L!PagesCover'
  BY <1>1 DEF L!PagesCover, L!ToSet
<1>16. L!PagesExact'
  <2> SUFFICES ASSUME lClient.pc = "done", ~lClient.disturbed, ~lClient.grown
               PROVE  /\ Len(lClient.got) = lClient.total
                      /\ L!ToSet(lClient.got) = lClient.steady
                      /\ \A i, j \in 1..Len(lClient.got) :
                           i < j => \/ lThreads'[lClient.got[i]].created >= lThreads'[lClient.got[j]].created
                                    \/ lThreads'[lClient.got[i]].state = "gone"
    BY <1>1 DEF L!PagesExact, L!ToSet
  <2>1. /\ Len(lClient.got) = lClient.total
        /\ L!ToSet(lClient.got) = lClient.steady
        /\ \A i, j \in 1..Len(lClient.got) :
             i < j => \/ lThreads[lClient.got[i]].created >= lThreads[lClient.got[j]].created
                      \/ lThreads[lClient.got[i]].state = "gone"
    BY DEF L!PagesExact
  <2>2. lClient.got \in Seq(ThreadIds)
    BY DEF L!TypeOK
  <2>3. \A i \in 1..Len(lClient.got) : lClient.got[i] \in ThreadIds /\ lThreads[lClient.got[i]].state # "new"
    BY <2>2 DEF L!ShownWasThere, L!ToSet
  <2>4. \A t \in ThreadIds : /\ lThreads[t].created \in Nat /\ lThreads'[t].created \in Nat
                             /\ lThreads[t].state \in {"new", "there", "gone"}
                             /\ lThreads'[t].state \in {"new", "there", "gone"}
    BY <1>2, ListingLimits DEF L!TypeOK, L!Time, L!Bounds
  <2>5. ASSUME NEW i \in 1..Len(lClient.got), NEW j \in 1..Len(lClient.got), i < j
        PROVE  \/ lThreads'[lClient.got[i]].created >= lThreads'[lClient.got[j]].created
               \/ lThreads'[lClient.got[i]].state = "gone"
    <3> DEFINE a == lClient.got[i] b == lClient.got[j]
    <3>1. a \in ThreadIds /\ b \in ThreadIds /\ lThreads[a].state # "new" /\ lThreads[b].state # "new"
      BY <2>3
    <3>2. lThreads[a].created >= lThreads[b].created \/ lThreads[a].state = "gone"
      BY <2>1, <2>5
    <3> HIDE DEF a, b
    <3>3. lThreads'[a].created >= lThreads'[b].created \/ lThreads'[a].state = "gone"
      BY <2>4, <3>1, <3>2 DEF Changes
    <3> QED
      BY <3>3 DEF a, b
  <2> QED
    BY <2>1, <2>5
<1> QED
  BY <1>2, <1>3, <1>12, <1>13, <1>14, <1>15, <1>16

\* create, a run that locks or releases, the write of a PATCH, and delete.
LEMMA ListingWrites ==
  ASSUME L!Inv
  PROVE  /\ \A t \in ThreadIds, keys \in SUBSET Keys, now \in L!Time : L!Create(t, keys, now) => L!Inv'
         /\ \A t \in ThreadIds, s \in {"idle", "busy"} : L!SetStatus(t, s) => L!Inv'
         /\ L!PatchWrites => L!Inv'
         /\ \A t \in ThreadIds : L!Delete(t) => L!Inv'
<1>1. /\ lThreads \in [ThreadIds -> [state : {"new", "there", "gone"}, created : L!Time,
                                     keys : SUBSET Keys, status : {"idle", "busy"}]]
      /\ lPatch \in [pc : {"idle", "writing"}, id : ThreadIds \cup {0}, keys : SUBSET Keys]
      /\ L!Time \subseteq Nat /\ 1 \in L!Time /\ \A m \in L!Time : 1 <= m
  BY ListingLimits DEF L!Inv, L!TypeOK, L!Time, L!Bounds
<1>2. ASSUME NEW t \in ThreadIds, NEW keys \in SUBSET Keys, NEW now \in L!Time, L!Create(t, keys, now)
      PROVE  L!Inv'
  <2>1. Changes(t)
    <3> DEFINE r == [L!NoThread EXCEPT !.state = "there", !.created = now, !.keys = keys]
    <3>1. /\ r.state = "there" /\ r.created = now
          /\ r \in [state : {"new", "there", "gone"}, created : L!Time,
                    keys : SUBSET Keys, status : {"idle", "busy"}]
      BY <1>1 DEF L!NoThread
    <3>2. lThreads[t].state = "new" /\ L!Watch /\ lThreads' = [lThreads EXCEPT ![t] = r]
      BY <1>2 DEF L!Create
    <3> HIDE DEF r
    <3>3. lThreads'[t] = r /\ \A u \in ThreadIds \ {t} : lThreads'[u] = lThreads[u]
      BY <1>1, <3>2
    <3>4. lThreads' \in [ThreadIds -> [state : {"new", "there", "gone"}, created : L!Time,
                                       keys : SUBSET Keys, status : {"idle", "busy"}]]
      BY <1>1, <3>1, <3>2
    <3>5. \A u \in ThreadIds : lThreads[u].created \in Nat
      BY <1>1
    <3> QED
      BY <3>1, <3>2, <3>3, <3>4, <3>5 DEF Changes
  <2>2. L!PatchKnown'
    BY <1>1, <1>2 DEF L!Create, L!NoThread, L!Inv, L!PatchKnown
  <2>3. lPatch' \in [pc : {"idle", "writing"}, id : ThreadIds \cup {0}, keys : SUBSET Keys]
    BY <1>1, <1>2 DEF L!Create
  <2> QED
    BY <2>1, <2>2, <2>3, ChangesKeep
<1>3. ASSUME NEW t \in ThreadIds, NEW s \in {"idle", "busy"}, L!SetStatus(t, s)
      PROVE  L!Inv'
  <2>1. Changes(t)
    BY <1>1, <1>3 DEF L!SetStatus, Changes
  <2>2. L!PatchKnown'
    BY <1>1, <1>3 DEF L!SetStatus, L!Inv, L!PatchKnown
  <2>3. lPatch' \in [pc : {"idle", "writing"}, id : ThreadIds \cup {0}, keys : SUBSET Keys]
    BY <1>1, <1>3 DEF L!SetStatus
  <2> QED
    BY <2>1, <2>2, <2>3, ChangesKeep
<1>4. ASSUME L!PatchWrites
      PROVE  L!Inv'
  <2>1. lPatch.id \in ThreadIds
    BY <1>4 DEF L!PatchWrites, L!Inv, L!PatchKnown
  <2>2. Changes(lPatch.id)
    BY <1>1, <1>4, <2>1 DEF L!PatchWrites, Changes
  <2>3. L!PatchKnown' /\ lPatch' \in [pc : {"idle", "writing"}, id : ThreadIds \cup {0}, keys : SUBSET Keys]
    BY <1>4 DEF L!PatchWrites, L!NoPatch, L!PatchKnown
  <2> QED
    BY <2>1, <2>2, <2>3, ChangesKeep
<1>5. ASSUME NEW t \in ThreadIds, L!Delete(t)
      PROVE  L!Inv'
  <2>1. Changes(t)
    <3> DEFINE r == [L!NoThread EXCEPT !.state = "gone"]
    <3>1. /\ r.state = "gone" /\ r.created = 1
          /\ r \in [state : {"new", "there", "gone"}, created : L!Time,
                    keys : SUBSET Keys, status : {"idle", "busy"}]
      BY <1>1 DEF L!NoThread
    <3>2. lThreads[t].state = "there" /\ L!Watch /\ lThreads' = [lThreads EXCEPT ![t] = r]
      BY <1>5 DEF L!Delete
    <3> HIDE DEF r
    <3>3. lThreads'[t] = r /\ \A u \in ThreadIds \ {t} : lThreads'[u] = lThreads[u]
      BY <1>1, <3>2
    <3>4. lThreads' \in [ThreadIds -> [state : {"new", "there", "gone"}, created : L!Time,
                                       keys : SUBSET Keys, status : {"idle", "busy"}]]
      BY <1>1, <3>1, <3>2
    <3>5. \A u \in ThreadIds : lThreads[u].created \in Nat /\ 1 <= lThreads[u].created
      BY <1>1
    <3>6. \A u \in ThreadIds : lThreads'[u].created <= lThreads[u].created
      BY <3>1, <3>3, <3>5
    <3> QED
      BY <3>1, <3>2, <3>3, <3>4, <3>6 DEF Changes
  <2>2. L!PatchKnown'
    BY <1>1, <1>5 DEF L!Delete, L!NoThread, L!Inv, L!PatchKnown
  <2>3. lPatch' \in [pc : {"idle", "writing"}, id : ThreadIds \cup {0}, keys : SUBSET Keys]
    BY <1>1, <1>5 DEF L!Delete
  <2> QED
    BY <2>1, <2>2, <2>3, ChangesKeep
<1> QED
  BY <1>2, <1>3, <1>4, <1>5

\* A PATCH that reads, and a count, which begins the pages.
LEMMA ListingReads ==
  ASSUME L!Inv
  PROVE  /\ \A t \in ThreadIds, keys \in SUBSET Keys : L!PatchReads(t, keys) => L!Inv'
         /\ \A f \in Filters, limit \in 1..MaxPage : L!Count(f, limit) => L!Inv'
         /\ UNCHANGED lVars => L!Inv'
<1>1. ASSUME NEW t \in ThreadIds, NEW keys \in SUBSET Keys, L!PatchReads(t, keys)
      PROVE  L!Inv'
  <2>1. lThreads' = lThreads /\ lClient' = lClient
    BY <1>1 DEF L!PatchReads
  <2>2. L!TypeOK'
    BY <1>1 DEF L!PatchReads, L!Inv, L!TypeOK, L!Time
  <2>3. L!PatchKnown'
    BY <1>1 DEF L!PatchReads, L!PatchKnown
  <2> QED
    BY <2>1, <2>2, <2>3
       DEF L!Inv, L!CreatedFinite, L!PassedIsShown, L!ShownIsPrefix, L!ShownWasThere, L!PagesCover,
           L!PagesExact, L!Place, L!Filtered, L!Total, L!Ahead, L!Matches, L!ToSet
<1>2. ASSUME NEW f \in Filters, NEW limit \in 1..MaxPage, L!Count(f, limit)
      PROVE  L!Inv'
  <2>1. /\ lThreads' = lThreads /\ lPatch' = lPatch
        /\ lClient' = [L!NoClient EXCEPT !.pc = "paging", !.filter = f, !.limit = limit,
                                         !.total = L!Total(f), !.steady = L!Filtered(f)]
    BY <1>2 DEF L!Count
  <2>2. /\ L!Filtered(f) \in SUBSET ThreadIds /\ IsFiniteSet(L!Filtered(f))
        /\ L!Total(f) \in Nat
    <3>1. L!Filtered(f) \subseteq {t \in ThreadIds : lThreads[t].state # "new"}
      BY DEF L!Filtered, L!Matches
    <3>2. IsFiniteSet({t \in ThreadIds : lThreads[t].state # "new"})
      BY ListingCounts DEF L!Inv, L!CreatedFinite
    <3> QED
      BY <3>1, <3>2, FS_Subset, FS_CardinalityType, ListingCounts DEF L!Total
  <2>3. <<>> \in Seq(ThreadIds) /\ Len(<<>>) = 0
    OBVIOUS
  <2>4. /\ lClient' \in ClientType
        /\ lClient'.pc = "paging" /\ lClient'.filter = f /\ lClient'.got = <<>> /\ lClient'.offset = 0
        /\ lClient'.total = L!Total(f) /\ lClient'.steady = L!Filtered(f)
    BY <2>1, <2>2, <2>3 DEF ClientType, L!NoClient
  <2>5. L!TypeOK'
    BY <2>1, <2>4 DEF L!Inv, L!TypeOK, ClientType, L!Time
  <2>6. L!CreatedFinite' /\ L!PatchKnown'
    BY <2>1 DEF L!Inv, L!CreatedFinite, L!PatchKnown
  <2>7. L!Filtered(f)' = L!Filtered(f) /\ L!Total(f)' = L!Total(f)
    BY <2>1 DEF L!Filtered, L!Total, L!Matches
  <2>8. L!PassedIsShown'
    <3>1. IsFiniteSet(Found') /\ Found' = L!Filtered(f)
      BY <2>2, <2>4, <2>7 DEF Found, L!Filtered, L!Matches
    <3>2. \A t : {u \in Found' : L!Ahead(u, t)'} \subseteq Found'
      OBVIOUS
    <3>3. \A t : Cardinality({u \in Found' : L!Ahead(u, t)'}) \in Nat
      BY <3>1, <3>2, FS_Subset, FS_CardinalityType
    <3>4. \A t : ~(Cardinality({u \in Found' : L!Ahead(u, t)'}) < 0)
      BY <3>3
    <3>5. L!Filtered(lClient.filter)' = L!Filtered(f)
      BY <3>1 DEF Found
    <3>6. \A t : (L!Place(t) = Cardinality({u \in Found : L!Ahead(u, t)}))'
      BY ListingCounts DEF L!Place, Found
    <3>7. \A t \in ThreadIds : ~(L!Place(t) < lClient.offset)'
      BY <2>4, <3>4, <3>6
    <3> QED
      BY <2>2, <2>4, <3>5, <3>7 DEF L!PassedIsShown
  <2>9. L!ShownIsPrefix'
    <3>1. L!Filtered(lClient.filter)' = L!Filtered(f) /\ L!Total(lClient.filter)' = L!Total(f)
      BY <2>4, <2>7 DEF L!Filtered, L!Total, L!Matches
    <3> QED
      BY <2>2, <2>3, <2>4, <3>1 DEF L!ShownIsPrefix
  <2>10. L!ShownWasThere' /\ L!PagesCover' /\ L!PagesExact'
    BY <2>3, <2>4 DEF L!ShownWasThere, L!PagesCover, L!PagesExact, L!ToSet
  <2> QED
    BY <2>5, <2>6, <2>8, <2>9, <2>10 DEF L!Inv
<1>3. ASSUME UNCHANGED lVars
      PROVE  L!Inv'
  <2>1. lThreads' = lThreads /\ lPatch' = lPatch /\ lClient' = lClient
    BY <1>3 DEF lVars
  <2>2. L!TypeOK'
    BY <2>1 DEF L!Inv, L!TypeOK, L!Time
  <2>3. L!PatchKnown' /\ L!CreatedFinite' /\ L!ShownWasThere' /\ L!PagesCover' /\ L!PagesExact'
    BY <2>1
       DEF L!Inv, L!PatchKnown, L!CreatedFinite, L!ShownWasThere, L!PagesCover, L!PagesExact, L!ToSet
  <2>4. /\ L!Filtered(lClient.filter)' = L!Filtered(lClient.filter)
        /\ L!Total(lClient.filter)' = L!Total(lClient.filter)
    BY <2>1 DEF L!Filtered, L!Total, L!Matches
  <2>5. L!PassedIsShown' /\ L!ShownIsPrefix'
    BY <2>1, <2>4 DEF L!Inv, L!PassedIsShown, L!ShownIsPrefix, L!Place, L!Ahead, L!ToSet
  <2> QED
    BY <2>2, <2>3, <2>5 DEF L!Inv
<1> QED
  BY <1>1, <1>2, <1>3

\* A search shows the next page; a short one is the last.
LEMMA ListingSearch ==
  ASSUME L!Inv, L!Search
  PROVE  L!Inv'
<1> DEFINE o == lClient.offset
           limit == lClient.limit
           n == Cardinality(Found)
           p == L!Page(L!Sorted(Found), o, limit)
           g == lClient.got
           w == g \o p
<1>1. /\ lClient.pc = "paging" /\ lThreads' = lThreads /\ lPatch' = lPatch
      /\ lClient' = [lClient EXCEPT !.got = w, !.offset = o + limit,
                                    !.pc = IF Len(p) < limit THEN "done" ELSE "paging"]
  BY DEF L!Search, Found
<1>2. /\ Found \in SUBSET ThreadIds /\ n \in Nat /\ L!Total(lClient.filter) = n
      /\ \A x \in Found : L!Place(x) \in Nat
      /\ \A x, y \in Found : L!Ahead(x, y) => L!Place(x) < L!Place(y)
      /\ \A x, y \in Found : x = y \/ L!Ahead(x, y) \/ L!Ahead(y, x)
  BY PlacesDiffer DEF L!Inv
<1>3. /\ p \in Seq(Found) /\ Len(p) <= limit
      /\ Len(p) < limit => n < o + limit
      /\ Len(p) = limit => o + limit <= n
      /\ o <= n /\ n < o + limit => Len(p) = n - o
      /\ \A i \in 1..Len(p) : L!Place(p[i]) = o + i - 1
      /\ \A x \in Found : L!Place(x) < n
      /\ \A x \in Found : o <= L!Place(x) /\ L!Place(x) < o + limit => \E i \in 1..Len(p) : p[i] = x
  BY ListingPage DEF L!Inv
<1>4. lClient \in ClientType /\ o \in Nat /\ limit \in Nat /\ limit >= 1 /\ g \in Seq(ThreadIds)
  BY ListingLimits DEF L!Inv, L!TypeOK, L!Bounds, ClientType
<1> HIDE DEF p
<1>5. /\ w \in Seq(ThreadIds) /\ Len(w) = Len(g) + Len(p) /\ Len(g) \in Nat /\ Len(p) \in Nat
      /\ \A i \in 1..Len(g) : w[i] = g[i]
      /\ \A i \in 1..Len(p) : w[Len(g) + i] = p[i]
      /\ \A i \in 1..Len(w) : i \in 1..Len(g) \/ (i - Len(g) \in 1..Len(p) /\ Len(g) + (i - Len(g)) = i)
  <2>1. p \in Seq(ThreadIds)
    BY <1>2, <1>3
  <2> QED
    BY <1>4, <2>1, Joined
<1> HIDE DEF w, o, limit, g, n
<1>6. /\ lClient' \in ClientType
      /\ lClient'.pc = (IF Len(p) < limit THEN "done" ELSE "paging")
      /\ lClient'.filter = lClient.filter /\ lClient'.limit = lClient.limit
      /\ lClient'.got = w /\ lClient'.offset = o + limit
      /\ lClient'.total = lClient.total /\ lClient'.steady = lClient.steady
      /\ lClient'.disturbed = lClient.disturbed /\ lClient'.grown = lClient.grown
  <2>1. o + limit \in Nat
    BY <1>4
  <2> QED
    BY <1>1, <1>4, <1>5, <2>1 DEF ClientType
<1>7. L!TypeOK'
  BY <1>1, <1>6 DEF L!Inv, L!TypeOK, L!Time, ClientType
<1>8. L!CreatedFinite' /\ L!PatchKnown'
  BY <1>1 DEF L!Inv, L!CreatedFinite, L!PatchKnown
<1>9. /\ Found' = Found /\ L!Filtered(lClient.filter)' = Found /\ L!Total(lClient.filter)' = n
      /\ \A t : L!Cardinality({u \in Found : L!Ahead(u, t)'}) = L!Place(t)
  <2>1. L!Filtered(lClient.filter)' = Found
    BY <1>1, <1>6 DEF Found, L!Filtered, L!Matches
  <2>2. L!Total(lClient.filter)' = n
    BY <2>1, ListingCounts DEF L!Total, n
  <2>3. \A u, t : L!Ahead(u, t)' <=> L!Ahead(u, t)
    BY <1>1 DEF L!Ahead
  <2> QED
    BY <2>1, <2>2, <2>3 DEF Found, L!Place
<1>10. /\ L!ToSet(w) = L!ToSet(g) \cup L!ToSet(p)
       /\ \A i \in 1..Len(p) : p[i] \in L!ToSet(p) /\ p[i] \in Found
       /\ L!ToSet(p) \subseteq Found
  <2>1. /\ L!ToSet(g) = {g[i] : i \in 1..Len(g)} /\ L!ToSet(p) = {p[i] : i \in 1..Len(p)}
        /\ L!ToSet(w) = {w[i] : i \in 1..Len(w)}
    <3>1. DOMAIN g = 1..Len(g) /\ DOMAIN p = 1..Len(p) /\ DOMAIN w = 1..Len(w)
      BY <1>3, <1>4, <1>5
    <3> QED
      BY <3>1 DEF L!ToSet
  <2>2. \A i \in 1..Len(g) : i \in 1..Len(w)
    BY <1>5
  <2>3. \A i \in 1..Len(p) : Len(g) + i \in 1..Len(w)
    BY <1>5
  <2>4. \A i \in 1..Len(p) : p[i] \in Found
    BY <1>3
  <2>5. L!ToSet(w) \subseteq L!ToSet(g) \cup L!ToSet(p)
    <3> SUFFICES ASSUME NEW i \in 1..Len(w) PROVE w[i] \in L!ToSet(g) \cup L!ToSet(p)
      BY <2>1
    <3>1. CASE i \in 1..Len(g)
      BY <1>5, <2>1, <3>1
    <3>2. CASE i - Len(g) \in 1..Len(p) /\ Len(g) + (i - Len(g)) = i
      <4>1. w[i] = p[i - Len(g)]
        BY <1>5, <3>2
      <4> QED
        BY <2>1, <3>2, <4>1
    <3> QED
      BY <1>5, <3>1, <3>2
  <2>6. L!ToSet(g) \cup L!ToSet(p) \subseteq L!ToSet(w)
    BY <1>5, <2>1, <2>2, <2>3
  <2> QED
    BY <2>1, <2>4, <2>5, <2>6
<1>11. ASSUME ~lClient.disturbed
       PROVE  /\ lClient.steady \subseteq Found
              /\ \A t \in lClient.steady : L!Place(t) < o + limit => t \in L!ToSet(w)
  <2>1. /\ lClient.steady \subseteq Found
        /\ \A t \in lClient.steady : L!Place(t) < o => t \in L!ToSet(g)
    BY <1>1, <1>11 DEF L!Inv, L!PassedIsShown, Found, o, g
  <2>2. ASSUME NEW t \in lClient.steady, L!Place(t) < o + limit
        PROVE  t \in L!ToSet(w)
    <3>1. L!Place(t) \in Nat /\ (L!Place(t) < o \/ o <= L!Place(t))
      BY <1>2, <1>4, <2>1
    <3>2. o <= L!Place(t) => t \in L!ToSet(p)
      BY <1>3, <1>10, <2>1, <2>2
    <3> QED
      BY <1>10, <2>1, <3>1, <3>2
  <2> QED
    BY <2>1, <2>2
<1>12. ASSUME ~lClient.disturbed, ~lClient.grown
       PROVE  /\ lClient.steady = Found /\ lClient.total = n /\ Len(g) = o /\ o <= n
              /\ \A i \in 1..Len(w) : w[i] \in Found /\ L!Place(w[i]) = i - 1
  <2>1. /\ lClient.steady = Found /\ lClient.total = n /\ Len(g) = o /\ o <= n
        /\ \A i \in 1..o : g[i] \in Found /\ L!Place(g[i]) = i - 1
    BY <1>1, <1>2, <1>12 DEF L!Inv, L!ShownIsPrefix, Found, o, g, n
  <2>2. ASSUME NEW i \in 1..Len(w)
        PROVE  w[i] \in Found /\ L!Place(w[i]) = i - 1
    <3>1. CASE i \in 1..o
      <4>1. w[i] = g[i]
        BY <1>5, <2>1, <3>1
      <4> QED
        BY <2>1, <3>1, <4>1
    <3>2. CASE i \notin 1..o
      <4>1. i - o \in 1..Len(p) /\ o + (i - o) = i
        BY <1>4, <1>5, <2>1, <3>2
      <4>2. w[i] = p[i - o]
        BY <1>5, <2>1, <4>1
      <4>3. p[i - o] \in Found /\ L!Place(p[i - o]) = o + (i - o) - 1
        BY <1>3, <1>10, <4>1
      <4> QED
        BY <1>4, <1>5, <4>1, <4>2, <4>3
    <3> QED
      BY <3>1, <3>2
  <2> QED
    BY <2>1, <2>2
<1>13. L!PassedIsShown'
  BY <1>6, <1>9, <1>11 DEF L!PassedIsShown, L!Place, L!ToSet
<1>14. L!ShownIsPrefix'
  <2> SUFFICES ASSUME ~(Len(p) < limit), ~lClient.disturbed, ~lClient.grown
               PROVE  /\ lClient.steady = Found /\ lClient.total = n
                      /\ Len(w) = o + limit /\ o + limit <= lClient.total
                      /\ \A i \in 1..o + limit : w[i] \in lClient.steady /\ L!Place(w[i]) = i - 1
    BY <1>6, <1>9 DEF L!ShownIsPrefix, L!Place, Found
  <2>1. Len(p) = limit
    BY <1>3, <1>4, <1>5
  <2> QED
    BY <1>3, <1>5, <1>12, <2>1
<1>15. L!ShownWasThere'
  <2>1. \A t \in Found : lThreads[t].state # "new"
    BY DEF Found, L!Filtered, L!Matches
  <2>2. \A t \in L!ToSet(w) : lThreads[t].state # "new"
    BY <1>10, <2>1 DEF L!Inv, L!ShownWasThere, g
  <2>3. L!ToSet(lClient.got)' = L!ToSet(w)
    BY <1>6 DEF L!ToSet
  <2> QED
    BY <1>1, <2>2, <2>3 DEF L!ShownWasThere
<1>16. ASSUME Len(p) < limit, ~lClient.disturbed
       PROVE  lClient.steady \subseteq L!ToSet(w)
  <2>1. \A t \in Found : L!Place(t) < o + limit
    BY <1>2, <1>3, <1>4, <1>16
  <2> QED
    BY <1>11, <1>16, <2>1
<1>17. L!PagesCover'
  BY <1>6, <1>16 DEF L!PagesCover, L!ToSet
<1>18. L!PagesExact'
  <2> SUFFICES ASSUME Len(p) < limit, ~lClient.disturbed, ~lClient.grown
               PROVE  /\ Len(w) = lClient.total
                      /\ L!ToSet(w) = lClient.steady
                      /\ \A i, j \in 1..Len(w) :
                           i < j => lThreads[w[i]].created >= lThreads[w[j]].created
    BY <1>1, <1>6 DEF L!PagesExact, L!ToSet
  <2>1. Len(w) = lClient.total
    <3>1. lClient.total = n /\ Len(g) = o /\ o <= n
      BY <1>12
    <3>2. n < o + limit
      BY <1>3
    <3>3. Len(p) = n - o
      BY <1>3, <3>1, <3>2
    <3> QED
      BY <1>2, <1>4, <1>5, <3>1, <3>3
  <2>2. L!ToSet(w) = lClient.steady
    <3>1. \A x \in L!ToSet(w) : \E i \in 1..Len(w) : x = w[i]
      <4>1. DOMAIN w = 1..Len(w)
        BY <1>5
      <4> QED
        BY <4>1 DEF L!ToSet
    <3> QED
      BY <1>12, <1>16, <3>1
  <2>3. ASSUME NEW i \in 1..Len(w), NEW j \in 1..Len(w), i < j
        PROVE  lThreads[w[i]].created >= lThreads[w[j]].created
    <3> DEFINE a == w[i] b == w[j]
    <3>1. a \in Found /\ b \in Found /\ L!Place(a) = i - 1 /\ L!Place(b) = j - 1
      BY <1>12
    <3> HIDE DEF a, b
    <3>2. a # b /\ ~L!Ahead(b, a)
      BY <1>2, <2>3, <3>1
    <3>3. L!Ahead(a, b)
      BY <1>2, <3>1, <3>2
    <3>4. lThreads[a].created \in Nat /\ lThreads[b].created \in Nat
      BY <1>2, <3>1, ListingLimits DEF L!Inv, L!TypeOK, L!Time, L!Bounds
    <3>5. lThreads[a].created >= lThreads[b].created
      BY <3>3, <3>4 DEF L!Ahead
    <3> QED
      BY <3>5 DEF a, b
  <2> QED
    BY <2>1, <2>2, <2>3
<1> QED
  BY <1>7, <1>8, <1>13, <1>14, <1>15, <1>17, <1>18 DEF L!Inv

\* Every step of the listing keeps its invariant.
LEMMA ListingStep == L!Inv /\ [L!Next]_lVars => L!Inv'
<1> SUFFICES ASSUME L!Inv, [L!Next]_lVars PROVE L!Inv'
  OBVIOUS
<1>1. \/ \E t \in ThreadIds, keys \in SUBSET Keys, now \in L!Time : L!Create(t, keys, now)
      \/ \E t \in ThreadIds, s \in {"idle", "busy"} : L!SetStatus(t, s)
      \/ \E t \in ThreadIds, keys \in SUBSET Keys : L!PatchReads(t, keys)
      \/ L!PatchWrites
      \/ \E t \in ThreadIds : L!Delete(t)
      \/ \E f \in Filters, limit \in 1..MaxPage : L!Count(f, limit)
      \/ L!Search
      \/ UNCHANGED lVars
  BY DEF L!Next
<1> QED
  BY <1>1, ListingWrites, ListingReads, ListingSearch

\* The invariant of a client that counts and pages (platform/_threads.py).
THEOREM ListingInvariance == L!Spec => []L!Inv
<1>1. L!Inv /\ [L!Next]_L!vars => L!Inv'
  BY ListingStep DEF L!vars, lVars
<1> QED
  BY <1>1, ListingInit, PTL DEF L!Spec

--------------------------------------------------------------------------------
(***************************************************************************)
(* The runs without a thread (ThreadlessRuns).                             *)
(***************************************************************************)
\* The chunks of a stream.
Words == {"meta", "data", "error", "end"}

\* One more word, and the last words.
LEMMA Extended ==
  ASSUME NEW S, NEW s \in Seq(S), NEW e \in S
  PROVE  /\ Append(s, e) \in Seq(S) /\ Len(Append(s, e)) = Len(s) + 1 /\ Len(s) \in Nat
         /\ Append(s, e)[Len(s) + 1] = e
         /\ \A i \in 1..Len(s) : Append(s, e)[i] = s[i]
OBVIOUS

\* Two more words.
LEMMA TwoMore ==
  ASSUME NEW S, NEW s \in Seq(S), NEW t \in Seq(S), Len(t) = 2
  PROVE  /\ s \o t \in Seq(S) /\ Len(s \o t) = Len(s) + 2 /\ Len(s) \in Nat
         /\ (s \o t)[Len(s) + 1] = t[1] /\ (s \o t)[Len(s) + 2] = t[2]
         /\ \A i \in 1..Len(s) : (s \o t)[i] = s[i]
<1>1. 1 \in 1..Len(t) /\ 2 \in 1..Len(t)
  OBVIOUS
<1> QED
  BY <1>1, Joined

\* The last words of a stream: an error, and its end.
LEMMA LastWordsEnd ==
  ASSUME NEW s \in Seq(Words)
  PROVE  /\ s \o T!LastWords \in Seq(Words) /\ Len(s \o T!LastWords) = Len(s) + 2 /\ Len(s) \in Nat
         /\ (s \o T!LastWords)[Len(s) + 1] = "error" /\ (s \o T!LastWords)[Len(s) + 2] = "end"
         /\ \A i \in 1..Len(s) : (s \o T!LastWords)[i] = s[i]
<1>1. /\ T!LastWords \in Seq(Words) /\ Len(T!LastWords) = 2
      /\ T!LastWords[1] = "error" /\ T!LastWords[2] = "end"
  BY DEF T!LastWords, Words
<1> QED
  BY <1>1, TwoMore

\* What the observer is told, one word and two.
LEMMA ToldTwice ==
  /\ \A e : Append(<<>>, e) = <<e>>
  /\ \A d, e : Append(<<d>>, e) = <<d, e>>
  /\ <<"started", "completed">> # <<"started", "failed">>
  /\ <<"started", "completed">> \in Seq({"started", "completed", "failed"})
  /\ <<"started", "failed">> \in Seq({"started", "completed", "failed"})
<1>1. \A e : Append(<<>>, e) = <<e>>
  OBVIOUS
<1>2. ASSUME NEW d, NEW e PROVE Append(<<d>>, e) = <<d, e>>
  <2> DEFINE s == Append(<<d>>, e) t == <<d, e>>
  <2>1. <<d>> \in Seq({d, e}) /\ Len(<<d>>) = 1 /\ <<d>>[1] = d
    OBVIOUS
  <2>2. s \in Seq({d, e}) /\ Len(s) = 2 /\ s[1] = d /\ s[2] = e
    BY <2>1, Extended
  <2>3. t \in Seq({d, e}) /\ Len(t) = 2 /\ t[1] = d /\ t[2] = e
    OBVIOUS
  <2> HIDE DEF s, t
  <2>4. \A i \in 1..Len(s) : i = 1 \/ i = 2
    BY <2>2
  <2>5. s = t
    BY <2>2, <2>3, <2>4, SeqEqual
  <2> QED
    BY <2>5 DEF s, t
<1>3. <<"started", "completed">> # <<"started", "failed">>
  OBVIOUS
<1>4. /\ <<"started", "completed">> \in Seq({"started", "completed", "failed"})
      /\ <<"started", "failed">> \in Seq({"started", "completed", "failed"})
  OBVIOUS
<1> QED
  BY <1>1, <1>2, <1>3, <1>4

\* What the invariant says of a request.
Kept(r) ==
  /\ T!Streams(r) /\ T!Streamed(r) /\ T!Fits(r)
  /\ "data" \in T!ToSet(tChunks[r]) => tBuffered[r] <= MaxBytes

\* The invariant, request by request.
LEMMA ThreadlessByRequest == T!Inv <=> T!TypeOK /\ \A r \in Alone : Kept(r)
BY DEF T!Inv, T!BufferBounded, Kept

\* No request has come yet.
LEMMA ThreadlessInit == T!Init => T!Inv
<1> SUFFICES ASSUME T!Init PROVE T!Inv
  OBVIOUS
<1>1. T!TypeOK
  BY DEF T!Init, T!TypeOK
<1>2. ASSUME NEW r \in Alone PROVE Kept(r)
  <2>1. "data" \notin T!ToSet(<<>>)
    BY DEF T!ToSet
  <2> QED
    BY <2>1 DEF T!Init, Kept, T!Streams, T!Streamed, T!Fits
<1> QED
  BY <1>1, <1>2, ThreadlessByRequest

\* A request that is left alone.
LEMMA ThreadlessOthers ==
  ASSUME NEW q \in Alone, Kept(q),
         tPc'[q] = tPc[q], tGraph'[q] = tGraph[q], tRan'[q] = tRan[q], tChunks'[q] = tChunks[q],
         tBuffered'[q] = tBuffered[q], tAnswer'[q] = tAnswer[q], tObserved'[q] = tObserved[q]
  PROVE  Kept(q)'
<1>1. (T!Streams(q) /\ T!Streamed(q))'
  BY DEF Kept, T!Streams, T!Streamed, T!DataBetween
<1>2. T!Fits(q)'
  BY DEF Kept, T!Fits, T!Threadless
<1>3. ("data" \in T!ToSet(tChunks[q]) => tBuffered[q] <= MaxBytes)'
  BY DEF Kept, T!ToSet
<1> QED
  BY <1>1, <1>2, <1>3 DEF Kept

\* The data in a stream is between its metadata and its last words.
LEMMA DataIs ==
  ASSUME NEW c \in Seq(Words), Len(c) >= 1, c[1] = "meta", NEW m \in Nat, m <= Len(c),
         T!DataBetween(c, m)
  PROVE  T!ToSet(c) = {c[i] : i \in 1..Len(c)} /\ \A i \in 1..m : c[i] # "error" /\ c[i] # "end"
<1>1. DOMAIN c = 1..Len(c)
  OBVIOUS
<1>2. \A i \in 1..m : i = 1 \/ i \in 2..m
  OBVIOUS
<1> QED
  BY <1>1, <1>2 DEF T!ToSet, T!DataBetween

\* The one metadata event and the one end are two.
LEMMA TwoAreTwo ==
  ASSUME NEW a, NEW b, a # b
  PROVE  Cardinality({a, b}) = 2
<1> DEFINE A1 == {a}
<1>1. IsFiniteSet(A1) /\ Cardinality(A1) = 1 /\ b \notin A1
  BY FS_Singleton
<1>2. A1 \cup {b} = {a, b}
  OBVIOUS
<1> HIDE DEF A1
<1>3. Cardinality(A1 \cup {b}) = Cardinality(A1) + 1
  BY <1>1, FS_AddElement
<1>4. Cardinality(A1 \cup {b}) = 2
  BY <1>1, <1>3
<1> QED
  BY <1>2, <1>4

\* What the invariant says of every answer (runs_stream_threadless).
LEMMA ThreadlessKept == T!Inv => ThreadlessFaithful
<1> SUFFICES ASSUME T!Inv PROVE ThreadlessFaithful
  OBVIOUS
<1>1. T!NothingPersisted
  BY DEF T!Inv, T!TypeOK, T!Fits, T!Threadless, T!NothingPersisted
<1>2. ASSUME NEW r \in Alone, tAnswer[r] = "stream"
      PROVE  LET c == tChunks[r] IN
               /\ c[1] = "meta" /\ c[Len(c)] = "end"
               /\ T!Cardinality({i \in 1..Len(c) : c[i] \in {"meta", "end"}}) = 2
               /\ "error" \in T!ToSet(c) <=> tObserved[r] = <<"started", "failed">>
               /\ "error" \notin T!ToSet(c) <=> tObserved[r] = <<"started", "completed">>
  <2> DEFINE c == tChunks[r]
             failed == tObserved[r] = <<"started", "failed">>
             m == IF failed THEN Len(c) - 2 ELSE Len(c) - 1
  <2>1. c \in Seq(Words)
    BY DEF T!Inv, T!TypeOK, Words
  <2>2. /\ Len(c) >= 2 /\ c[1] = "meta" /\ c[Len(c)] = "end"
        /\ \/ tObserved[r] = <<"started", "completed">> /\ T!DataBetween(c, Len(c) - 1)
           \/ /\ tObserved[r] = <<"started", "failed">> /\ Len(c) >= 3
              /\ c[Len(c) - 1] = "error" /\ T!DataBetween(c, Len(c) - 2)
    BY <1>2 DEF T!Inv, T!Streamed
  <2>3. /\ T!DataBetween(c, m) /\ m \in Nat /\ m >= 1 /\ m < Len(c) /\ Len(c) \in Nat
        /\ failed => c[m + 1] = "error" /\ Len(c) = m + 2
        /\ ~failed => tObserved[r] = <<"started", "completed">> /\ Len(c) = m + 1
        /\ failed <=> tObserved[r] # <<"started", "completed">>
    BY <2>1, <2>2, ToldTwice
  <2> HIDE DEF c, m, failed
  <2>4. T!ToSet(c) = {c[i] : i \in 1..Len(c)} /\ \A i \in 1..m : c[i] # "error" /\ c[i] # "end"
    BY <2>1, <2>2, <2>3, DataIs
  <2>5. "error" \in T!ToSet(c) <=> failed
    <3>1. \A i \in 1..Len(c) : i \in 1..m \/ i = Len(c) \/ (failed /\ i = m + 1)
      BY <2>3
    <3>2. failed => m + 1 \in 1..Len(c)
      BY <2>3
    <3> QED
      BY <2>2, <2>3, <2>4, <3>1, <3>2
  <2>6. {i \in 1..Len(c) : c[i] \in {"meta", "end"}} = {1, Len(c)}
    <3>1. ASSUME NEW i \in 1..Len(c), c[i] \in {"meta", "end"}
          PROVE  i = 1 \/ i = Len(c)
      <4>1. CASE i \in 2..m
        BY <3>1, <4>1, <2>3 DEF T!DataBetween
      <4>2. CASE failed /\ i = m + 1
        BY <2>3, <3>1, <4>2
      <4>3. i = 1 \/ i = Len(c) \/ i \in 2..m \/ (failed /\ i = m + 1)
        BY <2>3
      <4> QED
        BY <4>1, <4>2, <4>3
    <3>2. 1 \in 1..Len(c) /\ Len(c) \in 1..Len(c)
      BY <2>2, <2>3
    <3> QED
      BY <2>2, <3>1, <3>2
  <2>7. Cardinality({1, Len(c)}) = 2
    <3>1. 1 # Len(c)
      BY <2>2, <2>3
    <3> QED
      BY <3>1, TwoAreTwo
  <2>8. T!Cardinality({1, Len(c)}) = 2
    BY <2>7 DEF T!Cardinality, Cardinality
  <2> QED
    BY <2>2, <2>3, <2>5, <2>6, <2>8 DEF c, failed
<1>3. T!BufferBounded
  BY DEF T!Inv
<1> QED
  BY <1>1, <1>2, <1>3 DEF ThreadlessFaithful, T!StreamWellFormed

\* A step of request r that leaves r as described leaves all as described.
LEMMA ThreadlessOne ==
  ASSUME T!Inv, NEW r \in Alone,
         T!TypeOK', Kept(r)',
         \A q \in Alone \ {r} :
           /\ tPc'[q] = tPc[q] /\ tGraph'[q] = tGraph[q] /\ tRan'[q] = tRan[q]
           /\ tChunks'[q] = tChunks[q] /\ tBuffered'[q] = tBuffered[q]
           /\ tAnswer'[q] = tAnswer[q] /\ tObserved'[q] = tObserved[q]
  PROVE  T!Inv'
<1>1. ASSUME NEW q \in Alone \ {r} PROVE Kept(q)'
  BY ThreadlessOthers, ThreadlessByRequest
<1>2. \A q \in Alone : Kept(q)'
  BY <1>1
<1> QED
  BY <1>2 DEF T!Inv, T!BufferBounded, Kept

\* A request that is refused, and the steps of runs_wait_threadless.
LEMMA ThreadlessWaits ==
  ASSUME T!Inv, NEW r \in Alone, T!Refuses(r) \/ T!RunsWaitThreadless(r)
  PROVE  T!Inv'
<1> USE DEF T!TypeOK, T!Answers, T!Tells
<1>1. T!TypeOK /\ Kept(r)
  BY ThreadlessByRequest
<1>2. /\ tChunks' = tChunks /\ tBuffered' = tBuffered /\ tGraph' = tGraph
      /\ tPc[r] \in {"new", "wait"} /\ tPc'[r] \in {"wait", "done"}
      /\ tAnswer'[r] # "stream" /\ (tPc'[r] = "done" <=> tAnswer'[r] # "none")
      /\ tRan'[r] \in {tRan[r], T!Threadless(tGraph[r])}
      /\ tPc'[r] = "wait" \/ tAnswer'[r] \in {"ok", "500", "raised"} => T!Threadless(tGraph[r]) # "none"
      /\ \A q \in Alone \ {r} : tPc'[q] = tPc[q] /\ tRan'[q] = tRan[q] /\ tAnswer'[q] = tAnswer[q]
                                /\ tObserved'[q] = tObserved[q]
  BY <1>1 DEF T!Refuses, T!RunsWaitThreadless, T!WaitStarts, T!WaitEnds, Kept, T!Fits
<1>3. tObserved' \in [Alone -> Seq({"started", "completed", "failed"})]
  <2>1. \A e \in {"started", "completed", "failed"} :
          Append(tObserved[r], e) \in Seq({"started", "completed", "failed"})
    BY <1>1, Extended
  <2> QED
    BY <1>1, <2>1 DEF T!Refuses, T!RunsWaitThreadless, T!WaitStarts, T!WaitEnds
<1>4. T!TypeOK'
  BY <1>1, <1>3 DEF T!Refuses, T!RunsWaitThreadless, T!WaitStarts, T!WaitEnds, T!Threadless
<1>5. Kept(r)'
  <2>1. T!Threadless(tGraph[r])' = T!Threadless(tGraph[r])
    BY <1>2 DEF T!Threadless
  <2>2. T!Streams(r)' /\ T!Streamed(r)'
    BY <1>2 DEF T!Streams, T!Streamed
  <2>3. T!Fits(r)'
    BY <1>1, <1>2, <2>1 DEF Kept, T!Fits
  <2>4. ("data" \in T!ToSet(tChunks[r]) => tBuffered[r] <= MaxBytes)'
    BY <1>1, <1>2 DEF Kept, T!ToSet
  <2> QED
    BY <2>2, <2>3, <2>4 DEF Kept
<1> QED
  BY <1>2, <1>4, <1>5, ThreadlessOne

\* The chunks w of an answer end as the observer was told by o; those of a stream
\* that goes on do not.
WellEnded(w, o) ==
  /\ w \in Seq(Words) /\ Len(w) >= 2 /\ w[1] = "meta" /\ w[Len(w)] = "end"
  /\ \/ o = <<"started", "completed">> /\ T!DataBetween(w, Len(w) - 1)
     \/ /\ o = <<"started", "failed">> /\ Len(w) >= 3
        /\ w[Len(w) - 1] = "error" /\ T!DataBetween(w, Len(w) - 2)

WellBegun(w) == w \in Seq(Words) /\ Len(w) >= 1 /\ w[1] = "meta" /\ T!DataBetween(w, Len(w))

\* The step that answers request r with w, and the step that goes on with it.
AnswersWith(r, w, b, o) ==
  /\ tPc' = [tPc EXCEPT ![r] = "done"] /\ tAnswer' = [tAnswer EXCEPT ![r] = "stream"]
  /\ tGraph' = tGraph /\ tRan' = tRan
  /\ tChunks' = [tChunks EXCEPT ![r] = w] /\ tBuffered' = [tBuffered EXCEPT ![r] = b]
  /\ tObserved' = [tObserved EXCEPT ![r] = o]

GoesOnWith(r, w, b) ==
  /\ tPc' = [tPc EXCEPT ![r] = "stream"] /\ tAnswer' = tAnswer /\ tGraph' = tGraph
  /\ tRan' = [tRan EXCEPT ![r] = T!Threadless(tGraph[r])] \/ tRan' = tRan
  /\ tChunks' = [tChunks EXCEPT ![r] = w] /\ tBuffered' = [tBuffered EXCEPT ![r] = b]
  /\ tObserved' = [tObserved EXCEPT ![r] = <<"started">>]

\* A stream that was answered: what is left of the invariant.
LEMMA ThreadlessAnswered ==
  ASSUME T!Inv, NEW r \in Alone, tPc[r] \in {"new", "stream"}, T!Threadless(tGraph[r]) # "none",
         NEW w, NEW o, WellEnded(w, o),
         NEW b \in Nat, "data" \in T!ToSet(w) => b <= MaxBytes, AnswersWith(r, w, b, o)
  PROVE  T!Inv'
<1> USE DEF AnswersWith, WellEnded
<1>1. T!TypeOK /\ Kept(r)
  BY ThreadlessByRequest
<1>2. /\ tPc'[r] = "done" /\ tAnswer'[r] = "stream" /\ tChunks'[r] = w /\ tBuffered'[r] = b
      /\ tObserved'[r] = o
  BY <1>1 DEF T!TypeOK
<1>3. T!TypeOK'
  BY <1>1, ToldTwice DEF T!TypeOK, Words
<1>4. Kept(r)'
  <2>1. T!Streams(r)'
    BY <1>2 DEF T!Streams
  <2>2. T!Streamed(r)'
    BY <1>2 DEF T!Streamed, T!DataBetween
  <2>3. T!Fits(r)'
    BY <1>1, <1>2 DEF Kept, T!Fits, T!Threadless
  <2>4. ("data" \in T!ToSet(tChunks[r]) => tBuffered[r] <= MaxBytes)'
    BY <1>2 DEF T!ToSet
  <2> QED
    BY <2>1, <2>2, <2>3, <2>4 DEF Kept
<1>5. \A q \in Alone \ {r} :
        /\ tPc'[q] = tPc[q] /\ tGraph'[q] = tGraph[q] /\ tRan'[q] = tRan[q]
        /\ tChunks'[q] = tChunks[q] /\ tBuffered'[q] = tBuffered[q]
        /\ tAnswer'[q] = tAnswer[q] /\ tObserved'[q] = tObserved[q]
  BY <1>1 DEF T!TypeOK
<1> QED
  BY <1>3, <1>4, <1>5, ThreadlessOne

\* A stream that goes on.
LEMMA ThreadlessGoesOn ==
  ASSUME T!Inv, NEW r \in Alone,
         tAnswer[r] = "none", T!Threadless(tGraph[r]) # "none",
         NEW w, WellBegun(w), NEW b \in Nat, b <= MaxBytes, GoesOnWith(r, w, b)
  PROVE  T!Inv'
<1> USE DEF GoesOnWith, WellBegun
<1>1. T!TypeOK /\ Kept(r)
  BY ThreadlessByRequest
<1>2. /\ tPc'[r] = "stream" /\ tAnswer'[r] = "none" /\ tChunks'[r] = w /\ tBuffered'[r] = b
      /\ tObserved'[r] = <<"started">> /\ tRan'[r] \in {tRan[r], T!Threadless(tGraph[r])}
  BY <1>1 DEF T!TypeOK
<1>3. T!TypeOK'
  <2>1. <<"started">> \in Seq({"started", "completed", "failed"})
    OBVIOUS
  <2> QED
    BY <1>1, <2>1 DEF T!TypeOK, Words, T!Threadless
<1>4. Kept(r)'
  <2>1. T!Streams(r)'
    BY <1>2 DEF T!Streams, T!DataBetween
  <2>2. T!Streamed(r)'
    BY <1>2 DEF T!Streamed
  <2>3. T!Fits(r)'
    BY <1>1, <1>2 DEF Kept, T!Fits, T!Threadless
  <2>4. ("data" \in T!ToSet(tChunks[r]) => tBuffered[r] <= MaxBytes)'
    BY <1>2 DEF T!ToSet
  <2> QED
    BY <2>1, <2>2, <2>3, <2>4 DEF Kept
<1>5. \A q \in Alone \ {r} :
        /\ tPc'[q] = tPc[q] /\ tGraph'[q] = tGraph[q] /\ tRan'[q] = tRan[q]
        /\ tChunks'[q] = tChunks[q] /\ tBuffered'[q] = tBuffered[q]
        /\ tAnswer'[q] = tAnswer[q] /\ tObserved'[q] = tObserved[q]
  BY <1>1 DEF T!TypeOK
<1> QED
  BY <1>3, <1>4, <1>5, ThreadlessOne

\* runs_stream_threadless begins: its metadata fits, or is the last but the last words.
LEMMA ThreadlessStreamStarts ==
  ASSUME T!Inv, NEW r \in Alone, T!StreamStarts(r)
  PROVE  T!Inv'
<1>1. T!TypeOK /\ Kept(r) /\ MetaBytes \in Nat /\ MaxBytes \in Nat
  BY ThreadlessByRequest, ThreadlessLimits DEF T!Bounds
<1>2. /\ tPc[r] = "new" /\ tGraph' = tGraph /\ T!Threadless(tGraph[r]) # "none"
      /\ tBuffered' = [tBuffered EXCEPT ![r] = MetaBytes]
      /\ tObserved[r] = <<>> /\ tAnswer[r] = "none"
  BY <1>1 DEF T!StreamStarts, Kept, T!Fits
<1>3. <<"meta">> \in Seq(Words) /\ Len(<<"meta">>) = 1 /\ <<"meta">>[1] = "meta"
  BY DEF Words
<1>4. CASE T!Overflows(MetaBytes, 0)
  <2> DEFINE w == <<"meta">> \o T!LastWords
             o == <<"started", "failed">>
  <2>1. /\ tPc' = [tPc EXCEPT ![r] = "done"] /\ tAnswer' = [tAnswer EXCEPT ![r] = "stream"]
        /\ tChunks' = [tChunks EXCEPT ![r] = w] /\ tObserved' = [tObserved EXCEPT ![r] = o]
        /\ tRan' = tRan
    BY <1>4 DEF T!StreamStarts, T!Answers
  <2>2. w \in Seq(Words) /\ Len(w) = 3 /\ w[1] = "meta" /\ w[2] = "error" /\ w[3] = "end"
    <3>1. 1 \in 1..Len(<<"meta">>)
      BY <1>3
    <3> HIDE DEF w
    <3>2. /\ w \in Seq(Words) /\ Len(w) = Len(<<"meta">>) + 2
          /\ w[Len(<<"meta">>) + 1] = "error" /\ w[Len(<<"meta">>) + 2] = "end"
          /\ w[1] = <<"meta">>[1]
      BY <1>3, <3>1, LastWordsEnd DEF w
    <3> QED
      BY <1>3, <3>2
  <2> HIDE DEF w
  <2>3. "data" \notin T!ToSet(w)
    <3>1. \A i \in DOMAIN w : i = 1 \/ i = 2 \/ i = 3
      BY <2>2
    <3> QED
      BY <2>2, <3>1 DEF T!ToSet
  <2>4. T!DataBetween(w, Len(w) - 2) /\ Len(w) - 1 = 2 /\ Len(w) >= 3
    BY <2>2 DEF T!DataBetween
  <2> HIDE DEF o
  <2>5. o \in {<<"started", "completed">>, <<"started", "failed">>} /\ o = <<"started", "failed">>
    BY DEF o
  <2>6. WellEnded(w, o)
    BY <2>2, <2>4, <2>5 DEF WellEnded
  <2>7. AnswersWith(r, w, MetaBytes, o)
    BY <1>2, <2>1 DEF AnswersWith
  <2>8. tPc[r] \in {"new", "stream"} /\ T!Threadless(tGraph[r]) # "none"
        /\ MetaBytes \in Nat /\ ("data" \in T!ToSet(w) => MetaBytes <= MaxBytes)
    BY <1>1, <1>2, <2>3
  <2> QED
    BY <2>6, <2>7, <2>8, ThreadlessAnswered
<1>5. CASE ~T!Overflows(MetaBytes, 0)
  <2>1. /\ tPc' = [tPc EXCEPT ![r] = "stream"] /\ tAnswer' = tAnswer
        /\ tChunks' = [tChunks EXCEPT ![r] = <<"meta">>]
        /\ tRan' = [tRan EXCEPT ![r] = T!Threadless(tGraph[r])]
        /\ tObserved' = [tObserved EXCEPT ![r] = Append(@, "started")]
    BY <1>5 DEF T!StreamStarts, T!Tells
  <2>2. tObserved' = [tObserved EXCEPT ![r] = <<"started">>]
    BY <1>1, <1>2, <2>1, ToldTwice DEF T!TypeOK
  <2>3. T!DataBetween(<<"meta">>, Len(<<"meta">>))
    BY <1>3 DEF T!DataBetween
  <2>4. MetaBytes <= MaxBytes
    BY <1>1, <1>5 DEF T!Overflows
  <2>5. GoesOnWith(r, <<"meta">>, MetaBytes)
    BY <1>2, <2>1, <2>2 DEF GoesOnWith
  <2>6. WellBegun(<<"meta">>)
    <3>1. Len(<<"meta">>) >= 1
      BY <1>3
    <3> QED
      BY <1>3, <2>3, <3>1 DEF WellBegun
  <2>7. tAnswer[r] = "none" /\ T!Threadless(tGraph[r]) # "none" /\ MetaBytes \in Nat
    BY <1>1, <1>2
  <2> QED
    BY <2>4, <2>5, <2>6, <2>7, ThreadlessGoesOn
<1> QED
  BY <1>4, <1>5

\* An event fits or overflows; the run ends or fails.
LEMMA ThreadlessStreamGoes ==
  ASSUME T!Inv, NEW r \in Alone, T!StreamEnds(r) \/ \E size \in Sizes : T!StreamEvent(r, size)
  PROVE  T!Inv'
<1> DEFINE c == tChunks[r]
<1>1. T!TypeOK /\ Kept(r) /\ MaxBytes \in Nat /\ \A size \in Sizes : size \in Nat
  BY ThreadlessByRequest, ThreadlessLimits DEF T!Bounds
<1>2. /\ tPc[r] = "stream" /\ tGraph' = tGraph /\ T!Threadless(tGraph[r]) # "none" /\ tRan' = tRan
      /\ tObserved[r] = <<"started">> /\ tAnswer[r] = "none" /\ tBuffered[r] <= MaxBytes
      /\ tBuffered[r] \in Nat
      /\ c \in Seq(Words) /\ Len(c) >= 1 /\ c[1] = "meta" /\ T!DataBetween(c, Len(c))
      /\ Len(c) \in Nat /\ 1 \in 1..Len(c)
  BY <1>1 DEF T!StreamEnds, T!StreamEvent, Kept, T!Fits, T!Streams, T!TypeOK, Words
<1> HIDE DEF c
<1>3. ASSUME tPc' = [tPc EXCEPT ![r] = "done"], tAnswer' = [tAnswer EXCEPT ![r] = "stream"],
             tBuffered' = tBuffered,
             \/ /\ tChunks' = [tChunks EXCEPT ![r] = c \o T!LastWords]
                /\ tObserved' = [tObserved EXCEPT ![r] = Append(tObserved[r], "failed")]
             \/ /\ tChunks' = [tChunks EXCEPT ![r] = Append(c, "end")]
                /\ tObserved' = [tObserved EXCEPT ![r] = Append(tObserved[r], "completed")]
      PROVE  T!Inv'
  <2>1. tBuffered' = [tBuffered EXCEPT ![r] = tBuffered[r]]
    BY <1>1, <1>3 DEF T!TypeOK
  <2>4. /\ tPc[r] \in {"new", "stream"} /\ T!Threadless(tGraph[r]) # "none"
        /\ tBuffered[r] \in Nat /\ tBuffered[r] <= MaxBytes
    BY <1>2
  <2>2. CASE /\ tChunks' = [tChunks EXCEPT ![r] = c \o T!LastWords]
             /\ tObserved' = [tObserved EXCEPT ![r] = Append(tObserved[r], "failed")]
    <3> DEFINE w == c \o T!LastWords
               o == <<"started", "failed">>
    <3>1. tObserved' = [tObserved EXCEPT ![r] = o] /\ tChunks' = [tChunks EXCEPT ![r] = w]
      BY <1>2, <2>2, ToldTwice
    <3>2. /\ w \in Seq(Words) /\ Len(w) = Len(c) + 2
          /\ w[Len(c) + 1] = "error" /\ w[Len(c) + 2] = "end" /\ \A i \in 1..Len(c) : w[i] = c[i]
      BY <1>2, LastWordsEnd
    <3> HIDE DEF w, o
    <3>3. /\ Len(w) - 1 = Len(c) + 1 /\ Len(w) - 2 = Len(c) /\ Len(w) >= 3 /\ Len(w) >= 2
          /\ w[1] = "meta"
      BY <1>2, <3>2
    <3>4. T!DataBetween(w, Len(w) - 2)
      BY <1>2, <3>2, <3>3 DEF T!DataBetween
    <3>5. o \in {<<"started", "completed">>, <<"started", "failed">>} /\ o = <<"started", "failed">>
      BY DEF o
    <3>6. WellEnded(w, o)
      BY <3>2, <3>3, <3>4, <3>5 DEF WellEnded
    <3>7. AnswersWith(r, w, tBuffered[r], o)
      BY <1>2, <1>3, <2>1, <3>1 DEF AnswersWith
    <3> QED
      BY <2>4, <3>6, <3>7, ThreadlessAnswered
  <2>3. CASE /\ tChunks' = [tChunks EXCEPT ![r] = Append(c, "end")]
             /\ tObserved' = [tObserved EXCEPT ![r] = Append(tObserved[r], "completed")]
    <3> DEFINE w == Append(c, "end")
               o == <<"started", "completed">>
    <3>1. tObserved' = [tObserved EXCEPT ![r] = o] /\ tChunks' = [tChunks EXCEPT ![r] = w]
      BY <1>2, <2>3, ToldTwice
    <3>2. /\ w \in Seq(Words) /\ Len(w) = Len(c) + 1
          /\ w[Len(c) + 1] = "end" /\ \A i \in 1..Len(c) : w[i] = c[i]
      <4>1. "end" \in Words
        BY DEF Words
      <4> QED
        BY <1>2, <4>1, Extended
    <3> HIDE DEF w, o
    <3>3. Len(w) - 1 = Len(c) /\ Len(w) >= 2 /\ w[1] = "meta"
      BY <1>2, <3>2
    <3>4. T!DataBetween(w, Len(w) - 1)
      BY <1>2, <3>2, <3>3 DEF T!DataBetween
    <3>5. o \in {<<"started", "completed">>, <<"started", "failed">>} /\ o = <<"started", "completed">>
      BY DEF o
    <3>6. WellEnded(w, o)
      BY <3>2, <3>3, <3>4, <3>5 DEF WellEnded
    <3>7. AnswersWith(r, w, tBuffered[r], o)
      BY <1>2, <1>3, <2>1, <3>1 DEF AnswersWith
    <3> QED
      BY <2>4, <3>6, <3>7, ThreadlessAnswered
  <2> QED
    BY <1>3, <2>2, <2>3
<1>4. ASSUME NEW size \in Sizes, ~T!Overflows(tBuffered[r], size),
             tChunks' = [tChunks EXCEPT ![r] = Append(c, "data")],
             tBuffered' = [tBuffered EXCEPT ![r] = tBuffered[r] + size],
             tPc' = tPc, tAnswer' = tAnswer, tObserved' = tObserved
      PROVE  T!Inv'
  <2> DEFINE w == Append(c, "data")
             b == tBuffered[r] + size
  <2>1. /\ tPc' = [tPc EXCEPT ![r] = "stream"]
        /\ tObserved' = [tObserved EXCEPT ![r] = <<"started">>]
    BY <1>1, <1>2, <1>4 DEF T!TypeOK
  <2>2. b \in Nat /\ b <= MaxBytes
    BY <1>1, <1>2, <1>4 DEF T!Overflows
  <2>3. /\ w \in Seq(Words) /\ Len(w) = Len(c) + 1
        /\ w[Len(c) + 1] = "data" /\ \A i \in 1..Len(c) : w[i] = c[i]
    <3>1. "data" \in Words
      BY DEF Words
    <3> QED
      BY <1>2, <3>1, Extended
  <2>4. tChunks' = [tChunks EXCEPT ![r] = w] /\ tBuffered' = [tBuffered EXCEPT ![r] = b]
    BY <1>4
  <2> HIDE DEF w, b
  <2>5. Len(w) >= 1 /\ w[1] = "meta"
    BY <1>2, <2>3
  <2>6. T!DataBetween(w, Len(w))
    <3>1. \A i \in 2..Len(w) : (i \in 2..Len(c) /\ i \in 1..Len(c)) \/ i = Len(c) + 1
      BY <1>2, <2>3
    <3> QED
      BY <1>2, <2>3, <3>1 DEF T!DataBetween
  <2>7. WellBegun(w)
    BY <2>3, <2>5, <2>6 DEF WellBegun
  <2>8. GoesOnWith(r, w, b)
    BY <1>2, <1>4, <2>1, <2>4 DEF GoesOnWith
  <2>9. tAnswer[r] = "none" /\ T!Threadless(tGraph[r]) # "none"
    BY <1>2
  <2> QED
    BY <2>2, <2>7, <2>8, <2>9, ThreadlessGoesOn
<1>5. CASE T!StreamEnds(r)
  <2>1. /\ tPc' = [tPc EXCEPT ![r] = "done"] /\ tAnswer' = [tAnswer EXCEPT ![r] = "stream"]
        /\ tBuffered' = tBuffered
        /\ \/ /\ tChunks' = [tChunks EXCEPT ![r] = c \o T!LastWords]
              /\ tObserved' = [tObserved EXCEPT ![r] = Append(tObserved[r], "failed")]
           \/ /\ tChunks' = [tChunks EXCEPT ![r] = Append(c, "end")]
              /\ tObserved' = [tObserved EXCEPT ![r] = Append(tObserved[r], "completed")]
    BY <1>1, <1>5 DEF T!StreamEnds, T!Answers, T!Tells, T!TypeOK, c
  <2> QED
    BY <1>3, <2>1
<1>6. ASSUME NEW size \in Sizes, T!StreamEvent(r, size) PROVE T!Inv'
  <2>1. CASE T!Overflows(tBuffered[r], size)
    <3>1. /\ tPc' = [tPc EXCEPT ![r] = "done"] /\ tAnswer' = [tAnswer EXCEPT ![r] = "stream"]
          /\ tBuffered' = tBuffered
          /\ tChunks' = [tChunks EXCEPT ![r] = c \o T!LastWords]
          /\ tObserved' = [tObserved EXCEPT ![r] = Append(tObserved[r], "failed")]
      BY <1>1, <1>6, <2>1 DEF T!StreamEvent, T!Answers, T!Tells, T!TypeOK, c
    <3> QED
      BY <1>3, <3>1
  <2>2. CASE ~T!Overflows(tBuffered[r], size)
    <3>1. /\ tChunks' = [tChunks EXCEPT ![r] = Append(c, "data")]
          /\ tBuffered' = [tBuffered EXCEPT ![r] = tBuffered[r] + size]
          /\ tPc' = tPc /\ tAnswer' = tAnswer /\ tObserved' = tObserved
      BY <1>1, <1>6, <2>2 DEF T!StreamEvent, T!TypeOK, c
    <3> QED
      BY <1>4, <2>2, <3>1
  <2> QED
    BY <2>1, <2>2
<1> QED
  BY <1>5, <1>6

\* Every step of a run without a thread keeps the invariant.
LEMMA ThreadlessStep == T!Inv /\ [T!Next]_tVars => T!Inv'
<1> SUFFICES ASSUME T!Inv, [T!Next]_tVars PROVE T!Inv'
  OBVIOUS
<1>1. CASE UNCHANGED tVars
  <2>1. T!TypeOK'
    BY <1>1 DEF tVars, T!Inv, T!TypeOK
  <2>2. \A r \in Alone : Kept(r)'
    BY <1>1, ThreadlessByRequest, ThreadlessOthers DEF tVars
  <2> QED
    BY <2>1, <2>2 DEF T!Inv, T!BufferBounded, Kept
<1>2. ASSUME NEW r \in Alone, T!RunsStreamThreadless(r) PROVE T!Inv'
  BY <1>2, ThreadlessStreamStarts, ThreadlessStreamGoes DEF T!RunsStreamThreadless
<1> QED
  BY <1>1, <1>2, ThreadlessWaits DEF T!Next

\* The invariant of runs without a thread (platform/_runs.py).
THEOREM ThreadlessInvariance == T!Spec => []T!Inv
<1>1. T!Inv /\ [T!Next]_T!vars => T!Inv'
  BY ThreadlessStep DEF T!vars, tVars
<1> QED
  BY <1>1, ThreadlessInit, PTL DEF T!Spec

--------------------------------------------------------------------------------
(***************************************************************************)
(* The registration (AppRegistration): an app that was handed out is the   *)
(* one that would be built now.                                            *)
(***************************************************************************)
\* Nothing is registered at first, and no FunctionApp is cached.
LEMMA AppInit == A!Init => A!Inv
<1> SUFFICES ASSUME A!Init PROVE A!Inv
  OBVIOUS
<1>1. A!TypeOK /\ A!SettingsFit
  BY DEF A!Init, A!TypeOK, A!SettingsFit, A!Settings
<1>2. A!NamesUnique /\ A!RegisteredRun /\ A!ExclusiveIsolated
  BY DEF A!Init, A!NamesUnique, A!RegisteredRun, A!ExclusiveIsolated
<1>3. A!AppCurrent
  BY DEF A!Init, A!AppCurrent, A!NoApp
<1> QED
  BY <1>1, <1>2, <1>3 DEF A!Inv

\* A cache that was emptied is current (app.py, register).
LEMMA Emptied ==
  ASSUME aApp' = A!NoApp
  PROVE  A!AppCurrent'
BY DEF A!AppCurrent, A!NoApp

\* A graph that is registered (register, of either app).
LEMMA AppRegisters ==
  ASSUME A!Inv, NEW g \in A!Graphs, A!Register(g) \/ A!RegisterStreaming(g)
  PROVE  A!Inv'
<1> USE DEF A!Inv
<1>1. /\ aRegistrations' = aRegistrations \cup {g} /\ aSb' = aSb /\ aSettings' = aSettings
      /\ aStore' = aStore /\ aApp' = A!NoApp /\ A!Runnable(g)
      /\ \A r \in aRegistrations : r.name # g.name
      /\ aSettings.platform => A!HasInvoke(g)
  BY DEF A!Register, A!RegisterStreaming, A!MayRegister, A!SettingsFit
<1>2. \A t \in aSb : ~t.exclusive
  BY DEF A!Register, A!RegisterStreaming, A!MayRegister, A!SettingsFit
<1>3. A!TypeOK' /\ A!NamesUnique' /\ A!SettingsFit'
  BY <1>1 DEF A!TypeOK, A!NamesUnique, A!SettingsFit
<1>4. A!RegisteredRun'
  BY <1>1 DEF A!RegisteredRun
<1>5. A!ExclusiveIsolated'
  BY <1>1, <1>2 DEF A!ExclusiveIsolated
<1> QED
  BY <1>1, <1>3, <1>4, <1>5, Emptied

\* A trigger as it is kept: without invoke it is called asynchronously.
LEMMA KeptTrigger ==
  ASSUME NEW t \in A!Triggers, A!Runnable(t), NEW u,
         u = [t EXCEPT !.async = t.async \/ ~A!HasInvoke(t)]
  PROVE  /\ u \in A!Triggers /\ u.name = t.name /\ u.exclusive = t.exclusive
         /\ A!Runnable(u) /\ (~u.async => A!HasInvoke(u))
<1>1. (t.async \/ ~A!HasInvoke(t)) \in BOOLEAN
  OBVIOUS
<1> DEFINE a == t.async \/ ~A!HasInvoke(t)
<1>2. a \in BOOLEAN /\ u = [t EXCEPT !.async = a]
  BY <1>1
<1>3. a => A!HasAinvoke(t)
  BY DEF A!Runnable
<1>4. ~a => A!HasInvoke(t)
  OBVIOUS
<1> HIDE DEF a
<1>5. u \in A!Triggers /\ u.name = t.name /\ u.exclusive = t.exclusive /\ u.methods = t.methods
  BY <1>2 DEF A!Triggers
<1>6. u.async = a
  BY <1>2 DEF A!Triggers
<1>7. (A!HasInvoke(u) <=> A!HasInvoke(t)) /\ (A!HasAinvoke(u) <=> A!HasAinvoke(t))
  BY <1>5 DEF A!HasInvoke, A!HasAinvoke
<1> QED
  BY <1>3, <1>4, <1>5, <1>6, <1>7 DEF A!Runnable

\* A trigger that is registered (register_service_bus).
LEMMA AppTriggers ==
  ASSUME A!Inv, NEW t \in A!Triggers, A!RegisterServiceBus(t)
  PROVE  A!Inv'
<1> USE DEF A!Inv
<1> DEFINE u == [t EXCEPT !.async = t.async \/ ~A!HasInvoke(t)]
<1>1. /\ aSb' = aSb \cup {u} /\ aRegistrations' = aRegistrations /\ aSettings' = aSettings
      /\ aStore' = aStore /\ aApp' = A!NoApp /\ A!Runnable(t) /\ ~aSettings.streaming
      /\ \A v \in aSb : v.name # t.name /\ ~v.exclusive
      /\ t.exclusive => A!Isolated(t)
  BY DEF A!RegisterServiceBus
<1>2. /\ u \in A!Triggers /\ u.name = t.name /\ u.exclusive = t.exclusive
      /\ A!Runnable(u) /\ (~u.async => A!HasInvoke(u))
  BY <1>1, KeptTrigger
<1> HIDE DEF u
<1>3. A!TypeOK' /\ A!NamesUnique' /\ A!SettingsFit'
  BY <1>1, <1>2 DEF A!TypeOK, A!NamesUnique, A!SettingsFit
<1>4. A!RegisteredRun'
  BY <1>1, <1>2 DEF A!RegisteredRun
<1>5. A!ExclusiveIsolated'
  BY <1>1, <1>2 DEF A!ExclusiveIsolated, A!Isolated
<1> QED
  BY <1>1, <1>3, <1>4, <1>5, Emptied

\* Nothing but the cache or the store changes.
LEMMA AppSameRegistrations ==
  ASSUME A!Inv, aRegistrations' = aRegistrations, aSb' = aSb, aSettings' = aSettings,
         aStore' \in {"none", "memory", "table"}, A!AppCurrent'
  PROVE  A!Inv'
BY DEF A!Inv, A!TypeOK, A!NamesUnique, A!RegisteredRun, A!ExclusiveIsolated, A!SettingsFit,
       A!Runnable, A!HasInvoke, A!HasAinvoke

\* What a build depends on.
LEMMA BuiltAlike ==
  ASSUME aRegistrations' = aRegistrations, aSb' = aSb, aSettings' = aSettings, aStore' = aStore
  PROVE  A!BuildFunctionApp' = A!BuildFunctionApp /\ (A!StoreAllowed' <=> A!StoreAllowed)
BY DEF A!BuildFunctionApp, A!StoreAllowed, A!GraphFunctions, A!TriggerFunctions,
       A!HealthFunctions, A!PlatformFunctions, A!DurableFunctions, A!Endpoints, A!IsAsync,
       A!HasInvoke, A!Function

\* The FunctionApp is built (function_app, of either app); the streaming app, which
\* has no trigger, Platform or Durable route, builds the same.
LEMMA AppBuilds ==
  ASSUME A!Inv, A!FunctionApp \/ A!StreamingFunctionApp
  PROVE  A!Inv'
<1> USE DEF A!Inv
<1>1. /\ aRegistrations' = aRegistrations /\ aSb' = aSb /\ aSettings' = aSettings
      /\ aStore' = aStore /\ A!StoreAllowed
  BY DEF A!FunctionApp, A!StreamingFunctionApp, A!SettingsFit, A!StoreAllowed
<1>2. aApp' = A!BuildFunctionApp
  <2>1. CASE A!StreamingFunctionApp
    <3>1. A!TriggerFunctions = {}
      BY <2>1 DEF A!StreamingFunctionApp, A!SettingsFit, A!TriggerFunctions
    <3> QED
      BY <2>1, <3>1 DEF A!StreamingFunctionApp, A!SettingsFit, A!BuildFunctionApp
  <2> QED
    BY <2>1 DEF A!FunctionApp
<1>3. aApp'.built
  BY <1>2 DEF A!BuildFunctionApp
<1>4. A!AppCurrent'
  BY <1>1, <1>2, <1>3, BuiltAlike DEF A!AppCurrent
<1> QED
  BY <1>1, <1>4, AppSameRegistrations DEF A!TypeOK

\* Every step of the registration keeps its invariant.
LEMMA AppStep == A!Inv /\ [A!Next]_aVars => A!Inv'
<1> SUFFICES ASSUME A!Inv, [A!Next]_aVars PROVE A!Inv'
  OBVIOUS
<1>1. CASE UNCHANGED aVars
  <2>1. A!AppCurrent'
    BY <1>1, BuiltAlike DEF aVars, A!Inv, A!AppCurrent, A!NoApp
  <2> QED
    BY <1>1, <2>1, AppSameRegistrations DEF aVars, A!Inv, A!TypeOK
<1>2. ASSUME NEW s \in {"memory", "table"}, A!SetThreadStore(s) PROVE A!Inv'
  <2>1. A!AppCurrent'
    BY <1>2, Emptied DEF A!SetThreadStore
  <2> QED
    BY <1>2, <2>1, AppSameRegistrations DEF A!SetThreadStore
<1> QED
  BY <1>1, <1>2, AppRegisters, AppTriggers, AppBuilds DEF A!Next

\* The invariant of the registration (app.py).
THEOREM AppInvariance == A!Spec => []A!Inv
<1>1. A!Inv /\ [A!Next]_A!vars => A!Inv'
  BY AppStep DEF A!vars, aVars
<1> QED
  BY <1>1, AppInit, PTL DEF A!Spec

\* The functions of each surface of an app that was built.
LEMMA Surfaces ==
  ASSUME aApp.built, A!Inv
  PROVE  /\ {f \in aApp.functions : f.surface = "graph"} = A!GraphFunctions
         /\ {f \in aApp.functions : f.surface = "sb"} = A!TriggerFunctions
         /\ aApp.store = aStore /\ A!StoreAllowed
         /\ aApp.functions \subseteq A!GraphFunctions \cup A!TriggerFunctions
              \cup {f \in aApp.functions : f.surface \in {"health", "platform", "durable"}}
<1>1. aApp = A!BuildFunctionApp /\ A!StoreAllowed
  BY DEF A!Inv, A!AppCurrent
<1>2. /\ \A f \in A!GraphFunctions : f.surface = "graph"
      /\ \A f \in A!TriggerFunctions : f.surface = "sb"
      /\ \A f \in A!HealthFunctions : f.surface = "health"
      /\ \A f \in A!PlatformFunctions : f.surface = "platform"
      /\ \A f \in A!DurableFunctions : f.surface = "durable"
  BY DEF A!GraphFunctions, A!TriggerFunctions, A!HealthFunctions, A!PlatformFunctions,
         A!DurableFunctions, A!Function
<1>3. /\ aApp.store = aStore
      /\ aApp.functions = A!GraphFunctions \cup A!TriggerFunctions \cup A!HealthFunctions
           \cup (IF aSettings.platform THEN A!PlatformFunctions ELSE {})
           \cup (IF aSettings.durable THEN A!DurableFunctions ELSE {})
  BY <1>1 DEF A!BuildFunctionApp
<1> QED
  BY <1>1, <1>2, <1>3

\* What the invariant says of an app that was handed out (function_app).
LEMMA AppKept == A!Inv => ServedAsRegistered
<1> SUFFICES ASSUME A!Inv, aApp.built
             PROVE  ServedAsRegistered
  BY DEF ServedAsRegistered, A!ServedAsDescribed, A!ExclusiveAlone, A!HandlersFit, A!ScaleOutSafe
<1>1. /\ {f \in aApp.functions : f.surface = "graph"} = A!GraphFunctions
      /\ {f \in aApp.functions : f.surface = "sb"} = A!TriggerFunctions
      /\ aApp.store = aStore /\ A!StoreAllowed
  BY Surfaces
<1>2. A!ServedAsDescribed
  <2>1. {<<f.of, f.endpoint>> : f \in A!GraphFunctions} = A!AppMetadata
    <3> DEFINE G(r, e) == A!Function("graph", Append(r.name, e), r.name, e,
                                     e # "state" /\ A!IsAsync(r))
    <3>1. \A r, e : G(r, e).of = r.name /\ G(r, e).endpoint = e
      BY DEF A!Function
    <3>2. \A f : f \in A!GraphFunctions <=>
                   \E r \in aRegistrations : \E e \in A!Endpoints(r) : f = G(r, e)
      BY DEF A!GraphFunctions
    <3>3. \A p : p \in A!AppMetadata <=>
                   \E r \in aRegistrations : \E e \in A!Endpoints(r) : p = <<r.name, e>>
      BY DEF A!AppMetadata
    <3> HIDE DEF G
    <3>4. ASSUME NEW p PROVE p \in {<<f.of, f.endpoint>> : f \in A!GraphFunctions}
                             <=> p \in A!AppMetadata
      <4>1. ASSUME NEW f \in A!GraphFunctions, p = <<f.of, f.endpoint>>
            PROVE  p \in A!AppMetadata
        BY <3>1, <3>2, <3>3, <4>1
      <4>2. ASSUME NEW r \in aRegistrations, NEW e \in A!Endpoints(r), p = <<r.name, e>>
            PROVE  p \in {<<f.of, f.endpoint>> : f \in A!GraphFunctions}
        <5>1. G(r, e) \in A!GraphFunctions
          BY <3>2
        <5>2. p = <<G(r, e).of, G(r, e).endpoint>>
          BY <3>1, <4>2
        <5> QED
          BY <5>1, <5>2
      <4> QED
        BY <3>3, <4>1, <4>2
    <3> QED
      BY <3>4
  <2>2. {f.of : f \in A!TriggerFunctions} = {t.name : t \in aSb}
    <3> DEFINE G(t) == A!Function("sb", <<"sb">> \o t.name, t.name, "message", t.async)
    <3>1. \A t : G(t).of = t.name
      BY DEF A!Function
    <3>2. A!TriggerFunctions = {G(t) : t \in aSb}
      BY DEF A!TriggerFunctions
    <3> HIDE DEF G
    <3> QED
      BY <3>1, <3>2
  <2> QED
    BY <1>1, <2>1, <2>2 DEF A!ServedAsDescribed
<1>3. A!ExclusiveAlone
  <2> SUFFICES ASSUME NEW t \in aSb, t.exclusive, NEW f \in aApp.functions
               PROVE  f.surface \in {"sb", "health"} /\ A!Cardinality(aSb) = 1
    BY DEF A!ExclusiveAlone
  <2>1. aRegistrations = {} /\ aSb = {t} /\ ~aSettings.platform /\ ~aSettings.durable
    BY DEF A!Inv, A!ExclusiveIsolated
  <2>2. A!GraphFunctions = {}
    BY <2>1 DEF A!GraphFunctions
  <2>3. f \in A!TriggerFunctions \cup A!HealthFunctions
    BY <2>1, <2>2 DEF A!Inv, A!AppCurrent, A!BuildFunctionApp
  <2>4. A!Cardinality(aSb) = 1
    <3>1. Cardinality({t}) = 1
      BY FS_Singleton
    <3> QED
      BY <2>1, <3>1 DEF A!Cardinality, Cardinality
  <2> QED
    BY <2>3, <2>4 DEF A!TriggerFunctions, A!HealthFunctions, A!Function
<1>4. A!HandlersFit
  <2>1. ASSUME NEW f \in aApp.functions, NEW g \in aSb, f.of = g.name, f.surface = "sb"
        PROVE  IF f.async THEN A!HasAinvoke(g) ELSE A!HasInvoke(g)
    <3>1. PICK t \in aSb : f = A!Function("sb", <<"sb">> \o t.name, t.name, "message", t.async)
      BY <1>1, <2>1 DEF A!TriggerFunctions
    <3>2. t = g /\ f.async = g.async
      BY <2>1, <3>1 DEF A!Function, A!Inv, A!NamesUnique
    <3> QED
      BY <3>2 DEF A!Inv, A!RegisteredRun, A!Runnable
  <2>2. ASSUME NEW f \in aApp.functions, NEW g \in aRegistrations, f.of = g.name,
               f.surface = "graph", f.endpoint # "state"
        PROVE  IF f.async THEN A!HasAinvoke(g) ELSE A!HasInvoke(g)
    <3>4. PICK r \in aRegistrations : \E e \in A!Endpoints(r) :
            f = A!Function("graph", Append(r.name, e), r.name, e, e # "state" /\ A!IsAsync(r))
      BY <1>1, <2>2 DEF A!GraphFunctions
    <3>1. PICK e \in A!Endpoints(r) :
            f = A!Function("graph", Append(r.name, e), r.name, e, e # "state" /\ A!IsAsync(r))
      BY <3>4
    <3>2. r = g /\ e # "state"
      BY <2>2, <3>1 DEF A!Function, A!Inv, A!NamesUnique
    <3>3. f.async <=> A!IsAsync(g)
      BY <3>1, <3>2 DEF A!Function
    <3> QED
      BY <3>3 DEF A!Inv, A!RegisteredRun, A!Runnable, A!IsAsync
  <2> QED
    BY <2>1, <2>2 DEF A!HandlersFit, A!Inv, A!RegisteredRun
<1>5. A!ScaleOutSafe
  BY <1>1 DEF A!ScaleOutSafe, A!StoreAllowed, A!Inv, A!SettingsFit
<1> QED
  BY <1>2, <1>3, <1>4, <1>5 DEF ServedAsRegistered

--------------------------------------------------------------------------------
(***************************************************************************)
(* The runs about a thread (PlatformRuns). Invariance carries what holds   *)
(* whatever the sweep does; TimelyInvariance what rests on its cutoff. The *)
(* effect of a store call is stated once (Effect) and used for every call. *)
(***************************************************************************)
USE HandlersHosted, HandlersKinds, NoneIsNone

\* A handler and its renewal worker are clients of their own.
LEMMA ClientsApart ==
  /\ \A h \in Handlers : Request(h) \in Clients /\ Renewal(h) \in Clients
  /\ \A g, h \in Handlers : Request(g) # Renewal(h)
  /\ \A g, h \in Handlers : Request(g) = Request(h) => g = h
  /\ \A g, h \in Handlers : Renewal(g) = Renewal(h) => g = h
BY DEF Request, Renewal, Clients

\* What the operations make of a thread is a thread, and says who owns it.
LEMMA RecordsTyped ==
  ASSUME NEW t \in Threads
  PROVE  /\ \A a \in Assistants, k \in Tokens :
              /\ Store!Acquired(t, a, k) \in Threads
              /\ Store!Acquired(t, a, k).status = "busy" /\ Store!Acquired(t, a, k).token = k
         /\ \A s \in Terminal, v \in Payloads \cup {None} : Store!Released(t, s, v) \in Threads
         /\ \A m \in Payloads :
              /\ Store!Updated(t, m) \in Threads
              /\ Store!Updated(t, m).status = t.status /\ Store!Updated(t, m).token = t.token
         /\ \A s \in Terminal : Store!SweptTo(t, s) \in Threads
<1> USE DEF Threads, Statuses, Terminal
<1>1. \A a \in Assistants, k \in Tokens :
        /\ Store!Acquired(t, a, k) \in Threads
        /\ Store!Acquired(t, a, k).status = "busy" /\ Store!Acquired(t, a, k).token = k
  BY DEF Store!Acquired, Store!OrElse
<1>2. \A s \in Terminal, v \in Payloads \cup {None} : Store!Released(t, s, v) \in Threads
  BY DEF Store!Released, Store!OrElse
<1>3. \A m \in Payloads :
        /\ Store!Updated(t, m) \in Threads
        /\ Store!Updated(t, m).status = t.status /\ Store!Updated(t, m).token = t.token
  BY DEF Store!Updated
<1>4. \A s \in Terminal : Store!SweptTo(t, s) \in Threads
  BY DEF Store!SweptTo
<1> QED
  BY <1>1, <1>2, <1>3, <1>4

\* The parts of a request.
LEMMA RequestsTyped ==
  ASSUME NEW r \in Requests
  PROVE  /\ r # None
         /\ r.op \in {"get", "delete", "acquire", "release", "renew", "update"}
         /\ r.op = "acquire" => r.assistant \in Assistants
         /\ r.op = "release" =>
              r.token \in Tokens /\ r.status \in Terminal /\ r.values \in Payloads \cup {None}
         /\ r.op = "renew" => r.token \in Tokens
         /\ r.op = "update" => r.metadata \in Payloads
BY DEF Requests, Terminal

\* A token is handed out: the thread was free, and nobody knew the token before.
Acquires(c) ==
  /\ call[c].op = "acquire"
  /\ thread # None /\ thread.status # "busy"
  /\ \E k \in Tokens :
       /\ \A d \in Clients : mine[d] # k
       /\ mine' = [mine EXCEPT ![c] = k]
       /\ thread'.token = k
  /\ thread'.status = "busy" /\ ~aged'

\* What a store call may have done when it answers. The owner of a busy thread
\* changes by a release with its token only.
Effect(c) ==
  /\ thread' \in Threads \cup {None} /\ aged' \in BOOLEAN /\ overtaken' \subseteq Clients
  /\ call' = [call EXCEPT ![c] = None]
  /\ \E a \in Answers : ans' = [ans EXCEPT ![c] = a]
  /\ \/ Acquires(c) /\ ans'[c] = "done"
     \/ mine' = mine /\ (call[c].op = "acquire" => ans'[c] # "done")
  /\ thread = None => thread' = None
  /\ aged' => aged
  /\ thread # None /\ thread.status = "busy" /\ thread' # None =>
       \/ thread'.status = "busy" /\ thread'.token = thread.token
       \/ call[c].op = "release" /\ call[c].token = thread.token
  /\ call[c].op = "release" =>
       /\ ans'[c] \in {"done", "raised", "missing", "conflict", "refused"}
       /\ ans'[c] = "refused" => thread # None /\ thread.token # call[c].token

\* Every operation of the store contract keeps to that.
LEMMA PerformEffect ==
  ASSUME TypeOK, NEW c \in Clients, Store!Perform(c)
  PROVE  call[c] \in Requests /\ Effect(c)
<1>1. call[c] \in Requests /\ ans \in [Clients -> Answers]
  BY DEF TypeOK, Store!Perform
<1> SUFFICES Effect(c)
  BY <1>1
<1> DEFINE r == call[c]
<1>2. ASSUME NEW a \in Answers, Store!Answer(c, a), r.op = "acquire" => a # "done",
             r.op = "release" => /\ a \in {"raised", "missing", "conflict", "refused"}
                                 /\ a = "refused" => thread # None /\ thread.token # r.token
      PROVE  Effect(c)
  BY <1>1, <1>2 DEF Effect, Store!Answer, TypeOK
<1>3. ASSUME NEW a \in Answers, NEW t \in Threads \cup {None}, Store!Write(c, t, a),
             UNCHANGED mine, r.op = "acquire" => a # "done",
             r.op = "release" => a \in {"done", "raised"},
             thread # None,
             thread.status = "busy" /\ t # None =>
               \/ t.status = "busy" /\ t.token = thread.token
               \/ r.op = "release" /\ r.token = thread.token
      PROVE  Effect(c)
  BY <1>1, <1>3 DEF Effect, Store!Write, TypeOK
<1>a. CASE Store!Acquire(c)
  <2>1. CASE \E a \in {"missing", "mismatch", "refused"} : Store!Answer(c, a)
    BY <1>2, <1>a, <2>1 DEF Store!Acquire, Answers
  <2>2. CASE /\ thread # None
             /\ thread.status # "busy"
             /\ \E k \in Tokens :
                  /\ Store!FreshToken(k)
                  /\ \/ /\ Store!Write(c, Store!Acquired(thread, r.assistant, k), "done")
                        /\ mine' = [mine EXCEPT ![c] = k]
                     \/ /\ Store!Write(c, Store!Acquired(thread, r.assistant, k), "raised")
                        /\ UNCHANGED mine
    <3>1. PICK k \in Tokens :
                  /\ Store!FreshToken(k)
                  /\ \/ /\ Store!Write(c, Store!Acquired(thread, r.assistant, k), "done")
                        /\ mine' = [mine EXCEPT ![c] = k]
                     \/ /\ Store!Write(c, Store!Acquired(thread, r.assistant, k), "raised")
                        /\ UNCHANGED mine
      BY <2>2
    <3>2. /\ r.op = "acquire" /\ r.assistant \in Assistants
          /\ thread \in Threads
          /\ Store!Acquired(thread, r.assistant, k) \in Threads
          /\ Store!Acquired(thread, r.assistant, k).status = "busy"
          /\ Store!Acquired(thread, r.assistant, k).token = k
      BY <1>1, <1>a, <2>2, RequestsTyped, RecordsTyped DEF TypeOK, Store!Acquire
    <3>3. CASE /\ Store!Write(c, Store!Acquired(thread, r.assistant, k), "raised")
               /\ UNCHANGED mine
      BY <1>3, <2>2, <3>2, <3>3 DEF Answers
    <3>4. CASE /\ Store!Write(c, Store!Acquired(thread, r.assistant, k), "done")
               /\ mine' = [mine EXCEPT ![c] = k]
      <4>1. /\ thread' = Store!Acquired(thread, r.assistant, k)
            /\ aged' = FALSE
            /\ call' = [call EXCEPT ![c] = None]
            /\ ans' = [ans EXCEPT ![c] = "done"] /\ "done" \in Answers
            /\ overtaken' \subseteq Clients
            /\ \A d \in Clients : mine[d] # k
        BY <3>1, <3>4 DEF Store!Write, Store!FreshToken, Answers
      <4>2. Acquires(c)
        BY <2>2, <3>2, <3>4, <4>1 DEF Acquires
      <4>3. ans'[c] = "done" /\ \E a \in Answers : ans' = [ans EXCEPT ![c] = a]
        BY <1>1, <4>1
      <4> QED
        BY <2>2, <3>2, <4>1, <4>2, <4>3 DEF Effect
    <3> QED
      BY <3>1, <3>3, <3>4
  <2> QED
    BY <1>a, <2>1, <2>2 DEF Store!Acquire
<1>b. CASE Store!Release(c)
  <2>1. CASE \/ thread = None /\ Store!Answer(c, "missing")
             \/ thread # None /\ thread.token # r.token /\ Store!Answer(c, "refused")
             \/ Store!Answer(c, "conflict")
    BY <1>2, <1>b, <2>1 DEF Store!Release, Answers
  <2>2. CASE /\ thread # None /\ thread.token = r.token
             /\ \E a \in {"done", "raised"} :
                  Store!Write(c, Store!Released(thread, r.status, r.values), a)
             /\ UNCHANGED mine
    <3>1. r.op = "release" /\ Store!Released(thread, r.status, r.values) \in Threads
      BY <1>1, <1>b, <2>2, RequestsTyped, RecordsTyped DEF TypeOK, Store!Release
    <3> QED
      BY <1>3, <2>2, <3>1 DEF Answers
  <2> QED
    BY <1>b, <2>1, <2>2 DEF Store!Release
<1>c. CASE Store!Renew(c)
  <2>1. CASE Store!Answer(c, "refused")
    BY <1>2, <1>c, <2>1 DEF Store!Renew, Answers
  <2>2. CASE /\ thread # None
             /\ \E a \in {"done", "raised"} : Store!Write(c, thread, a)
             /\ UNCHANGED mine
    BY <1>3, <1>c, <2>2 DEF Store!Renew, Answers, TypeOK
  <2> QED
    BY <1>c, <2>1, <2>2 DEF Store!Renew
<1>d. CASE Store!Update(c)
  <2>1. CASE Store!Answer(c, "missing") \/ Store!Answer(c, "conflict")
    BY <1>2, <1>d, <2>1 DEF Store!Update, Answers
  <2>2. CASE /\ thread # None
             /\ \E a \in {"done", "raised"} :
                  Store!Write(c, Store!Updated(thread, r.metadata), a)
             /\ UNCHANGED mine
    <3>1. /\ r.op = "update"
          /\ Store!Updated(thread, r.metadata) \in Threads
          /\ Store!Updated(thread, r.metadata).status = thread.status
          /\ Store!Updated(thread, r.metadata).token = thread.token
      BY <1>1, <1>d, <2>2, RequestsTyped, RecordsTyped DEF TypeOK, Store!Update
    <3> QED
      BY <1>3, <2>2, <3>1 DEF Answers
  <2> QED
    BY <1>d, <2>1, <2>2 DEF Store!Update
<1>e. CASE Store!Delete(c)
  <2>1. CASE Store!Answer(c, "missing")
    BY <1>2, <1>e, <2>1 DEF Store!Delete, Answers
  <2>2. CASE /\ thread # None
             /\ \E a \in {"done", "raised"} : Store!Write(c, None, a)
             /\ UNCHANGED mine
    BY <1>3, <1>e, <2>2 DEF Store!Delete, Answers
  <2> QED
    BY <1>e, <2>1, <2>2 DEF Store!Delete
<1>f. CASE Store!Get(c)
  BY <1>2, <1>f DEF Store!Get, Answers
<1>g. CASE Store!Answer(c, "raised")
  BY <1>2, <1>g DEF Answers
<1> QED
  BY <1>1, <1>a, <1>b, <1>c, <1>d, <1>e, <1>f, <1>g DEF Store!Perform
\* A call is pending and has not touched the thread.
LEMMA CallEffect ==
  ASSUME TypeOK, NEW c \in Clients, NEW r \in Requests, Store!Call(c, r)
  PROVE  /\ call[c] = None
         /\ call' = [call EXCEPT ![c] = r] /\ call' \in [Clients -> Requests \cup {None}]
         /\ ans' = [ans EXCEPT ![c] = "none"] /\ ans' \in [Clients -> Answers]
         /\ overtaken' \subseteq Clients
         /\ UNCHANGED <<thread, aged, mine>>
BY DEF Store!Call, TypeOK, Answers

\* A store call of the handler or of its renewal worker returns.
PerformStep(h, c) ==
  /\ call[c] \in Requests /\ Effect(c)
  /\ UNCHANGED <<tlock, pc, kind, ok, result>>
  /\ worker' \in [Handlers -> {"none", "waiting", "renewing", "failed"}]
  /\ prior' \in [Handlers -> Statuses]
  /\ \/ UNCHANGED asst
     \/ /\ pc[h] = "reading"
        /\ \E a \in Assistants \cup {None} : asst' = [asst EXCEPT ![h] = a]
  /\ failure' \in [Handlers -> BOOLEAN]
  /\ \A g \in Handlers :
       /\ worker'[g] = "none" <=> worker[g] = "none"
       /\ worker[g] = "failed" => worker'[g] = "failed"
       /\ failure[g] => failure'[g]
       /\ failure'[g] => failure[g] \/ (c = Request(g) /\ pc[g] = "releasing")
  /\ c = Request(h) /\ pc[h] = "releasing" /\ ans'[c] \in {"missing", "conflict", "raised"} =>
       failure'[h]

\* A state update that left with the thread lock is touched by no step of another.
LEMMA LeakedStays ==
  ASSUME NEW g \in Handlers, Leaked(g),
         pc'[g] = pc[g], kind'[g] = kind[g], failure'[g] = failure[g],
         call'[Request(g)] = call[Request(g)], ans'[Request(g)] = ans[Request(g)]
  PROVE  Leaked(g)'
BY DEF Leaked, Answered

\* A step that leaves the thread locks alone, with every handler inside kept inside.
LEMMA LocksKept ==
  ASSUME TypeOK, LocksFit, UNCHANGED tlock,
         \A g \in Handlers : pc[g] \in Locked <=> pc'[g] \in Locked,
         \A g \in Handlers : pc[g] \in Locked => asst'[g] = asst[g],
         \A g \in Handlers : Leaked(g) => asst'[g] = asst[g] /\ Leaked(g)'
  PROVE  LocksFit'
<1>1. \A g \in Handlers : pc'[g] \in Locked => tlock'[Key(g)'] = g
  BY DEF LocksFit, Key
<1>2. ASSUME NEW x \in LockKeys, NEW g \in Handlers, tlock'[x] = g
      PROVE  Key(g)' = x /\ (pc'[g] \in Locked \/ Leaked(g)')
  <2>1. Key(g) = x /\ (pc[g] \in Locked \/ Leaked(g))
    BY <1>2, NoneIsNone DEF LocksFit, LocksReturned
  <2> QED
    BY <2>1 DEF Key
<1>3. tlock' \in [LockKeys -> Handlers \cup {None}]
  BY DEF TypeOK
<1> QED
  BY <1>1, <1>2, <1>3 DEF LocksFit, LocksReturned, Leaked, Answered, Key

\* The answer of a call fits the point its handler is at.
LEMMA PerformInv ==
  ASSUME Inv, NEW h \in Handlers, NEW c \in {Request(h), Renewal(h)}, PerformStep(h, c)
  PROVE  Inv'
<1> USE DEF Inv, PerformStep
<1>1. c \in Clients
  BY ClientsApart
<1>2. Effect(c) /\ call[c] \in Requests
  OBVIOUS
<1>3. /\ mine' \in [Clients -> Tokens \cup {None}]
      /\ \A d \in Clients : mine'[d] # mine[d] =>
           /\ d = c /\ call[c].op = "acquire"
           /\ mine'[d] \in Tokens /\ \A e \in Clients : mine[e] # mine'[d]
  BY <1>1, <1>2 DEF Effect, Acquires, TypeOK
<1>4. /\ call' = [call EXCEPT ![c] = None]
      /\ \E a \in Answers : ans' = [ans EXCEPT ![c] = a]
  BY <1>2 DEF Effect
<1>t. TypeOK'
  <2>1. call' \in [Clients -> Requests \cup {None}] /\ ans' \in [Clients -> Answers]
    BY <1>1, <1>4 DEF TypeOK
  <2>2. asst' \in [Handlers -> Assistants \cup {None}]
    BY DEF TypeOK
  <2>3. thread' \in Threads \cup {None} /\ aged' \in BOOLEAN /\ overtaken' \subseteq Clients
    BY <1>2 DEF Effect
  <2> QED
    BY <1>3, <2>1, <2>2, <2>3 DEF TypeOK
<1>c. CallsFit'
  <2>1. ASSUME NEW g \in Handlers
        PROVE  HasToken(g)' => mine'[Request(g)] # None
    <3>1. CASE HasToken(g)
      BY <1>3, <2>1, <3>1, ClientsApart DEF CallsFit
    <3>2. CASE ~HasToken(g) /\ HasToken(g)'
      <4>0. /\ pc[g] = "acquiring" /\ ans'[Request(g)] = "done"
            /\ ~(call[Request(g)] = None /\ ans[Request(g)] = "done")
            /\ call'[Request(g)] = None
        BY <3>2 DEF HasToken, Answered
      <4>1. c = Request(g)
        BY <1>1, <1>4, <4>0, ClientsApart DEF TypeOK
      <4>2. call[c] # None /\ call[c].op = "acquire" /\ ans'[c] = "done"
        BY <1>2, <4>0, <4>1, NoneIsNone DEF CallsFit
      <4>3. Acquires(c)
        BY <1>2, <4>2 DEF Effect
      <4>4. PICK k \in Tokens : mine' = [mine EXCEPT ![c] = k]
        BY <4>3 DEF Acquires
      <4>5. mine \in [Clients -> Tokens \cup {None}]
        BY DEF TypeOK
      <4> QED
        BY <1>1, <4>1, <4>4, <4>5, NoneIsNone
    <3> QED
      BY <3>1, <3>2
  <2>2. ASSUME NEW g \in Handlers
        PROVE  /\ call'[Renewal(g)] # None => call'[Renewal(g)] = call[Renewal(g)]
               /\ call'[Request(g)] # None =>
                    call'[Request(g)] = call[Request(g)] /\ mine'[Request(g)] = mine[Request(g)]
    BY <1>1, <1>3, <1>4, ClientsApart DEF TypeOK
  <2>3. ASSUME NEW g \in Handlers, pc[g] \in {"new", "reading"}
        PROVE  mine'[Request(g)] = None
    BY <1>1, <1>2, <1>3, <2>3, ClientsApart DEF CallsFit
  <2> QED
    BY <2>1, <2>2, <2>3 DEF CallsFit
<1>m. MineDistinct'
  BY <1>1, <1>3, ClientsApart DEF MineDistinct, TypeOK
<1>h. HandlersFit'
  BY DEF HandlersFit, Executing, TypeOK, Locked
<1>l. LocksFit'
  <2>1. ASSUME NEW g \in Handlers, Leaked(g)
        PROVE  asst'[g] = asst[g] /\ Leaked(g)'
    <3>1. c # Request(g) /\ pc[g] = "ended"
      BY <1>2, <2>1, NoneIsNone DEF Leaked, Answered
    <3>2. call'[Request(g)] = call[Request(g)] /\ ans'[Request(g)] = ans[Request(g)]
      BY <1>1, <1>4, <3>1, ClientsApart DEF TypeOK
    <3>3. failure'[g] = failure[g]
      BY <2>1, <3>1 DEF Leaked, TypeOK
    <3> QED
      BY <2>1, <3>1, <3>2, <3>3, LeakedStays DEF TypeOK
  <2>2. \A g \in Handlers : pc[g] \in Locked => asst'[g] = asst[g]
    BY DEF TypeOK, Locked
  <2> QED
    BY <2>1, <2>2, LocksKept
<1> QED
  BY <1>t, <1>c, <1>m, <1>h, <1>l
\* An answer makes at most one handler live, the one that acquired a free
\* thread; a live handler loses the thread to nobody's call, and its own release
\* is not refused.
LEMMA PerformTimely ==
  ASSUME Inv, TimelyInv, NEW h \in Handlers, NEW c \in {Request(h), Renewal(h)},
         PerformStep(h, c)
  PROVE  TimelyInv'
<1> USE DEF Inv, PerformStep
<1>1. /\ c \in Clients
      /\ call' = [call EXCEPT ![c] = None] /\ call[c] # None
      /\ \E a \in Answers : ans' = [ans EXCEPT ![c] = a]
  BY ClientsApart, NoneIsNone DEF Effect
<1>2. \A g \in Handlers : c # Request(g) =>
        call'[Request(g)] = call[Request(g)] /\ ans'[Request(g)] = ans[Request(g)]
  BY <1>1, ClientsApart DEF TypeOK
<1>3. ASSUME NEW g \in Handlers, Live(g)'
      PROVE  Live(g) \/ (c = Request(g) /\ Acquires(c))
  <2>1. CASE pc[g] = "acquiring" /\ Answered(g, "done")'
    <3>1. CASE c = Request(g)
      <4>1. call[c].op = "acquire" /\ ans'[c] = "done"
        BY <1>1, <2>1, <3>1 DEF CallsFit, Answered
      <4> QED
        BY <3>1, <4>1 DEF Effect
    <3>2. CASE c # Request(g)
      BY <1>2, <2>1, <3>2 DEF Live, Answered
    <3> QED
      BY <3>1, <3>2
  <2>2. CASE pc[g] \in {"merging", "executing", "stopping"} /\ worker'[g] # "failed"
    BY <2>2 DEF Live
  <2>3. CASE pc[g] = "releasing" /\ ~failure'[g] /\ call'[Request(g)] # None
    BY <1>1, <1>2, <2>3, ClientsApart DEF Live, TypeOK
  <2> QED
    BY <1>3, <2>1, <2>2, <2>3 DEF Live
<1>4. thread' # None => thread # None
  BY DEF Effect
<1>5. \A g \in Handlers : Live(g) => HasToken(g) /\ mine[Request(g)] # None
  BY DEF Live, HasToken, CallsFit
<1>6. ASSUME NEW g \in Handlers, Live(g), Live(g)', thread # None
      PROVE  call[c].op = "release" => call[c].token # mine[Request(g)]
  <2> SUFFICES ASSUME call[c].op = "release", call[c].token = mine[Request(g)] PROVE FALSE
    OBVIOUS
  <2>1. c = Request(h) /\ call[c].token = mine[Request(h)] /\ pc[h] \in {"releasing", "ended"}
    BY <1>1, ClientsApart DEF CallsFit
  <2>2. g = h
    BY <1>5, <1>6, <2>1 DEF MineDistinct
  <2>3. pc[g] = "releasing" /\ call'[Request(g)] # None
    BY <1>6, <2>1, <2>2 DEF Live
  <2> QED
    BY <1>1, <2>1, <2>2, <2>3 DEF TypeOK
<1>o. LiveOwns'
  <2> SUFFICES ASSUME NEW g \in Handlers, Live(g)', thread' # None
               PROVE  thread'.status = "busy" /\ thread'.token = mine'[Request(g)] /\ ~aged'
    BY DEF LiveOwns
  <2>1. CASE Live(g)
    <3>1. thread # None /\ thread.status = "busy" /\ thread.token = mine[Request(g)] /\ ~aged
      BY <1>4, <2>1 DEF TimelyInv, LiveOwns
    <3>2. mine' = mine /\ ~aged'
      BY <3>1 DEF Effect, Acquires
    <3>3. thread'.status = "busy" /\ thread'.token = thread.token
      BY <1>6, <2>1, <3>1 DEF Effect
    <3> QED
      BY <3>1, <3>2, <3>3
  <2>2. CASE c = Request(g) /\ Acquires(c)
    BY <1>1, <2>2 DEF Acquires, TypeOK
  <2> QED
    BY <1>3, <2>1, <2>2
<1>u. OneLive'
  <2> SUFFICES ASSUME NEW f \in Handlers, NEW g \in Handlers, Live(f)', Live(g)'
               PROVE  f = g
    BY DEF OneLive
  <2>1. CASE Live(f) /\ Live(g)
    BY <2>1 DEF TimelyInv, OneLive
  <2>2. CASE Acquires(c)
    <3>1. ~Live(f) /\ ~Live(g)
      BY <2>2 DEF Acquires, TimelyInv, LiveOwns
    <3> QED
      BY <1>3, <3>1, ClientsApart
  <2> QED
    BY <1>3, <2>1, <2>2
<1>r. ReleaseTold'
  <2>1. ASSUME NEW g \in Handlers, kind[g] \in Runs \cup {"state"}, result[g] = "200"
        PROVE  call'[Request(g)] = None /\ ans'[Request(g)] = "done"
    BY <1>1, <1>2, <2>1 DEF TimelyInv, ReleaseTold
  <2>2. ASSUME NEW g \in Handlers, pc[g] = "releasing", ~failure'[g], call'[Request(g)] = None
        PROVE  ans'[Request(g)] = "done"
    <3>1. CASE c # Request(g)
      BY <1>2, <2>2, <3>1 DEF TimelyInv, ReleaseTold
    <3>2. CASE c = Request(g)
      <4>1. /\ g = h /\ Live(g)
            /\ call[c].op = "release" /\ call[c].token = mine[Request(g)]
        BY <1>1, <2>2, <3>2, ClientsApart DEF Live, CallsFit
      <4>2. ans'[c] # "refused"
        BY <4>1 DEF Effect, TimelyInv, LiveOwns
      <4> QED
        BY <2>2, <3>2, <4>1, <4>2 DEF Effect
    <3> QED
      BY <3>1, <3>2
  <2> QED
    BY <2>1, <2>2 DEF ReleaseTold
<1> QED
  BY <1>o, <1>u, <1>r DEF TimelyInv
\* The requests the handlers make.
LEMMA RequestsMade ==
  /\ [op |-> "get"] \in Requests /\ [op |-> "delete"] \in Requests
  /\ \A a \in Assistants : [op |-> "acquire", assistant |-> a] \in Requests
  /\ \A m \in Payloads : [op |-> "update", metadata |-> m] \in Requests
  /\ \A k \in Tokens : [op |-> "renew", token |-> k] \in Requests
  /\ \A k \in Tokens, v \in Payloads \cup {None} :
       [op |-> "release", token |-> k, status |-> "idle", values |-> v] \in Requests
  /\ \A k \in Tokens :
       [op |-> "release", token |-> k, status |-> "error", values |-> None] \in Requests
BY DEF Requests

\* A worker renews with the token of its handler.
LEMMA RenewRequest ==
  ASSUME Inv, NEW h \in Handlers, Renew(h)
  PROVE  [op |-> "renew", token |-> mine[Request(h)]] \in Requests
<1>1. mine[Request(h)] \in Tokens
  BY ClientsApart DEF Renew, Inv, TypeOK, CallsFit, HasToken, Executing
<1> QED
  BY <1>1, RequestsMade

\* The cleanup releases with the token of its handler, and stores values only
\* with the status idle.
LEMMA StopRequest ==
  ASSUME Inv, NEW h \in Handlers, pc[h] = "stopping", FinalStatus(h) # "busy",
         NEW v \in ValuesOf(h, FinalStatus(h))
  PROVE  [op |-> "release", token |-> mine[Request(h)], status |-> FinalStatus(h),
          values |-> v] \in Requests
<1>1. mine[Request(h)] \in Tokens
  BY ClientsApart DEF Inv, TypeOK, CallsFit, HasToken
<1>2. FinalStatus(h) \in {"idle", "error"}
  BY DEF FinalStatus, Inv, TypeOK, Statuses, Terminal
<1>3. CASE FinalStatus(h) = "idle"
  <2>1. v \in Payloads \cup {None}
    BY DEF ValuesOf
  <2> QED
    BY <1>1, <1>3, <2>1, RequestsMade
<1>4. CASE FinalStatus(h) = "error"
  <2>1. v = None
    BY <1>4 DEF ValuesOf
  <2> QED
    BY <1>1, <1>4, <2>1, RequestsMade
<1> QED
  BY <1>2, <1>3, <1>4

\* The four ways a call returns to its handler or worker.
LEMMA ReadReturnsStep ==
  ASSUME Inv, NEW h \in Handlers, ReadReturns(h)
  PROVE  PerformStep(h, Request(h))
<1>1. call[Request(h)] \in Requests /\ Effect(Request(h))
  BY PerformEffect, ClientsApart DEF Inv, ReadReturns
<1>2. ans'[Request(h)] = "done" => thread \in Threads
  <2>1. call[Request(h)] # None /\ call[Request(h)].op \notin {"acquire", "release", "renew"}
    BY <1>1, NoneIsNone DEF Inv, CallsFit, ReadReturns
  <2> QED
    BY <2>1, ClientsApart DEF ReadReturns, Store!Perform, Store!Acquire, Store!Release,
         Store!Renew, Store!Update, Store!Delete, Store!Get, Store!Answer, Store!Write, Inv, TypeOK
<1> QED
  BY <1>1, <1>2 DEF ReadReturns, PerformStep, Inv, TypeOK, Threads

\* The cleanup keeps what its release reports.
LEMMA ReleaseReturnsStep ==
  ASSUME Inv, NEW h \in Handlers, ReleaseReturns(h)
  PROVE  PerformStep(h, Request(h))
<1>1. call[Request(h)] \in Requests /\ Effect(Request(h))
  BY PerformEffect, ClientsApart DEF Inv, ReleaseReturns
<1>2. \E b \in BOOLEAN :
        /\ failure' = [failure EXCEPT ![h] = b]
        /\ failure[h] => b
        /\ ans'[Request(h)] \in {"missing", "conflict", "raised"} => b
  <2> DEFINE b == \/ failure[h]
                  \/ ans'[Request(h)] \in {"missing", "conflict", "raised"}
                  \/ (kind[h] = "state" /\ ans'[Request(h)] = "refused" /\ StillOwned)
  <2>1. failure' = [failure EXCEPT ![h] = b]
    BY DEF ReleaseReturns
  <2>2. /\ b \in BOOLEAN /\ (failure[h] => b)
        /\ ans'[Request(h)] \in {"missing", "conflict", "raised"} => b
    BY DEF Inv, TypeOK
  <2> HIDE DEF b
  <2> QED
    BY <2>1, <2>2
<1> QED
  BY <1>1, <1>2 DEF ReleaseReturns, PerformStep, Inv, TypeOK

\* No other answer is acted on before the handler's next step.
LEMMA CallReturnsStep ==
  ASSUME Inv, NEW h \in Handlers, CallReturns(h)
  PROVE  PerformStep(h, Request(h))
<1>1. call[Request(h)] \in Requests /\ Effect(Request(h))
  BY PerformEffect, ClientsApart DEF Inv, CallReturns
<1> QED
  BY <1>1 DEF CallReturns, handlerVars, PerformStep, Inv, TypeOK

\* A worker that is told of a loss stays failed.
LEMMA RenewReturnsStep ==
  ASSUME Inv, NEW h \in Handlers, RenewReturns(h)
  PROVE  PerformStep(h, Renewal(h))
<1>1. call[Renewal(h)] \in Requests /\ Effect(Renewal(h))
  BY PerformEffect, ClientsApart DEF Inv, RenewReturns
<1>2. worker' \in [Handlers -> {"none", "waiting", "renewing", "failed"}]
  BY DEF RenewReturns, Inv, TypeOK
<1>3. \A g \in Handlers :
        /\ worker'[g] = "none" <=> worker[g] = "none"
        /\ worker[g] = "failed" => worker'[g] = "failed"
  BY DEF RenewReturns, Inv, TypeOK
<1>4. Renewal(h) # Request(h)
  BY ClientsApart
<1> QED
  BY <1>1, <1>2, <1>3, <1>4 DEF RenewReturns, PerformStep, Inv, TypeOK

--------------------------------------------------------------------------------
\* A step that does not touch the thread and makes nobody live.
LEMMA QuietTimely ==
  ASSUME TimelyInv, UNCHANGED <<thread, mine, aged>>,
         \A g \in Handlers : Live(g)' => Live(g),
         ReleaseTold'
  PROVE  TimelyInv'
BY DEF TimelyInv, LiveOwns, OneLive

\* A request begins with a read or with the one call of a DELETE.
LEMMA ReceiveInv ==
  ASSUME Inv, NEW h \in Handlers, NEW k \in Kinds[h], Receive(h, k)
  PROVE  Inv' /\ (TimelyInv => TimelyInv')
<1>0. /\ pc[h] = "new" /\ kind[h] = "none"
      /\ kind' = [kind EXCEPT ![h] = k]
      /\ UNCHANGED <<tlock, prior, ok, failure, worker, result>>
      /\ \E a \in Assistants \cup {None} : asst' = [asst EXCEPT ![h] = a]
      /\ k \in {"wait", "stream", "state", "patch", "delete"}
  BY DEF Receive, Inv, HandlersFit
<1>1. PICK r \in Requests, p \in {"reading", "writing"} :
        /\ r.op \in {"get", "delete"}
        /\ pc' = [pc EXCEPT ![h] = p]
        /\ Store!Call(Request(h), r)
        /\ p = "writing" => k = "delete"
  BY RequestsMade DEF Receive, Goto
<1>2. /\ call[Request(h)] = None
      /\ call' = [call EXCEPT ![Request(h)] = r]
      /\ call' \in [Clients -> Requests \cup {None}]
      /\ ans' = [ans EXCEPT ![Request(h)] = "none"] /\ ans' \in [Clients -> Answers]
      /\ overtaken' \subseteq Clients
      /\ UNCHANGED <<thread, aged, mine>>
      /\ Request(h) \in Clients
  BY <1>1, CallEffect, ClientsApart DEF Inv
<1> USE <1>0, <1>1, <1>2 DEF Inv
<1>t. TypeOK'
  BY DEF TypeOK, Points
<1>c. CallsFit'
  BY ClientsApart DEF CallsFit, TypeOK, HasToken, Answered
<1>m. MineDistinct'
  BY DEF MineDistinct
<1>h. HandlersFit'
  BY DEF HandlersFit, Executing, TypeOK, Locked, Runs
<1>l. LocksFit'
  <2>1. ASSUME NEW g \in Handlers, Leaked(g)
        PROVE  asst'[g] = asst[g] /\ Leaked(g)'
    BY <2>1, ClientsApart DEF Leaked, Answered, TypeOK
  <2>2. \A g \in Handlers : (pc[g] \in Locked <=> pc'[g] \in Locked) /\ (pc[g] \in Locked => asst'[g] = asst[g])
    BY DEF TypeOK, Locked
  <2> QED
    BY <2>1, <2>2, LocksKept
<1>q. TimelyInv => TimelyInv'
  <2> SUFFICES ASSUME TimelyInv PROVE TimelyInv'
    OBVIOUS
  <2>1. \A g \in Handlers : Live(g)' => Live(g)
    BY ClientsApart DEF Live, Answered, TypeOK
  <2>2. ReleaseTold'
    BY ClientsApart DEF TimelyInv, ReleaseTold, TypeOK, HandlersFit
  <2> QED
    BY <2>1, <2>2, QuietTimely
<1> QED
  BY <1>t, <1>c, <1>m, <1>h, <1>l, <1>q
\* A handler answers and is gone, with the thread lock given back if it had it.
LEMMA ReplyInv ==
  ASSUME Inv, NEW h \in Handlers, NEW code \in Responses, Reply(h, code),
         pc[h] \notin {"new", "ended"},
         \/ pc[h] \in Locked /\ Unlock(h)
         \/ pc[h] \notin Locked /\ UNCHANGED tlock
         \/ pc[h] = "acquiring" /\ kind[h] = "state" /\ Answered(h, "raised") /\ UNCHANGED tlock
  PROVE  /\ Inv'
         /\ \/ kind[h] \notin Runs \cup {"state"}
            \/ code # "200"
            \/ Answered(h, "done")
            => (TimelyInv => TimelyInv')
<1>0. /\ pc' = [pc EXCEPT ![h] = "ended"]
      /\ result' = [result EXCEPT ![h] = code]
      /\ UNCHANGED <<storeVars, kind, asst, prior, ok, failure, worker>>
  BY DEF Reply, Goto
<1> USE <1>0 DEF Inv, storeVars
<1>t. TypeOK'
  <2>1. tlock' \in [LockKeys -> Handlers \cup {None}]
    BY DEF TypeOK, Unlock
  <2> QED
    BY <2>1 DEF TypeOK, Points
<1>c. CallsFit'
  BY ClientsApart DEF CallsFit, TypeOK, HasToken, Answered
<1>m. MineDistinct'
  BY DEF MineDistinct
<1>h. HandlersFit'
  BY DEF HandlersFit, Executing, TypeOK, Locked, Runs
<1>l. LocksFit'
  <2>1. CASE pc[h] \in Locked /\ Unlock(h)
    BY <2>1 DEF LocksFit, LocksReturned, Leaked, Answered, Key, TypeOK, Locked, Unlock
  <2>2. CASE pc[h] \notin Locked /\ UNCHANGED tlock
    BY <2>2 DEF LocksFit, LocksReturned, Leaked, Answered, Key, TypeOK, Locked
  <2>3. CASE pc[h] = "acquiring" /\ kind[h] = "state" /\ Answered(h, "raised") /\ UNCHANGED tlock
    <3>1. Leaked(h)'
      BY <2>3 DEF HandlersFit, Leaked, Answered, TypeOK
    <3> QED
      BY <2>3, <3>1 DEF LocksFit, LocksReturned, Leaked, Answered, Key, TypeOK, Locked
  <2> QED
    BY <2>1, <2>2, <2>3
<1>q. ASSUME TimelyInv,
             \/ kind[h] \notin Runs \cup {"state"}
             \/ code # "200"
             \/ Answered(h, "done")
      PROVE  TimelyInv'
  <2>1. \A g \in Handlers : Live(g)' => Live(g)
    BY ClientsApart DEF Live, Answered, TypeOK
  <2>2. ReleaseTold'
    BY <1>q, ClientsApart DEF TimelyInv, ReleaseTold, TypeOK, HandlersFit, Answered
  <2> QED
    BY <1>q, <2>1, <2>2, QuietTimely
<1> QED
  BY <1>t, <1>c, <1>m, <1>h, <1>l, <1>q

\* A PATCH never owns the thread.
LEMMA PatchInv ==
  ASSUME Inv, NEW h \in Handlers, Patch(h)
  PROVE  Inv' /\ (TimelyInv => TimelyInv')
<1>1. CASE Reply(h, "200") /\ UNCHANGED tlock
  BY <1>1, ReplyInv DEF Patch, Responses, Locked, Runs
<1>2. CASE /\ Goto(h, "writing")
           /\ \E m \in Payloads : Store!Call(Request(h), [op |-> "update", metadata |-> m])
           /\ UNCHANGED <<tlock, kind, asst, prior, ok, failure, worker, result>>
  <2>1. PICK r \in Requests : r.op = "update" /\ Store!Call(Request(h), r)
    BY <1>2, RequestsMade
  <2>2. /\ call[Request(h)] = None
        /\ call' = [call EXCEPT ![Request(h)] = r]
        /\ call' \in [Clients -> Requests \cup {None}]
        /\ ans' = [ans EXCEPT ![Request(h)] = "none"] /\ ans' \in [Clients -> Answers]
        /\ overtaken' \subseteq Clients
        /\ UNCHANGED <<thread, aged, mine>>
        /\ Request(h) \in Clients
    BY <2>1, CallEffect, ClientsApart DEF Inv
  <2>3. pc[h] = "reading" /\ kind[h] = "patch" /\ pc' = [pc EXCEPT ![h] = "writing"]
    BY <1>2 DEF Patch, Goto
  <2> USE <1>2, <2>1, <2>2, <2>3 DEF Inv
  <2>t. TypeOK'
    BY DEF TypeOK, Points
  <2>c. CallsFit'
    BY ClientsApart DEF CallsFit, TypeOK, HasToken, Answered
  <2>m. MineDistinct'
    BY DEF MineDistinct
  <2>h. HandlersFit'
    BY DEF HandlersFit, Executing, TypeOK, Locked, Runs
  <2>l. LocksFit'
    <3>1. ASSUME NEW g \in Handlers, Leaked(g)
          PROVE  asst'[g] = asst[g] /\ Leaked(g)'
      BY <3>1, ClientsApart DEF Leaked, Answered, TypeOK
    <3>2. \A g \in Handlers : (pc[g] \in Locked <=> pc'[g] \in Locked) /\ (pc[g] \in Locked => asst'[g] = asst[g])
      BY DEF TypeOK, Locked
    <3> QED
      BY <3>1, <3>2, LocksKept
  <2>4. \A g \in Handlers : Live(g)' => Live(g)
    BY ClientsApart DEF Live, Answered, TypeOK
  <2>5. TimelyInv => ReleaseTold'
    BY ClientsApart DEF TimelyInv, ReleaseTold, TypeOK, HandlersFit
  <2> QED
    BY <2>t, <2>c, <2>m, <2>h, <2>l, <2>4, <2>5, QuietTimely
<1> QED
  BY <1>1, <1>2 DEF Patch

\* The answer of a PATCH or a DELETE.
LEMMA WrittenInv ==
  ASSUME Inv, NEW h \in Handlers, Written(h)
  PROVE  Inv' /\ (TimelyInv => TimelyInv')
<1>1. pc[h] = "writing" /\ kind[h] \notin Runs \cup {"state"} /\ UNCHANGED tlock
  BY DEF Written, Inv, HandlersFit, Runs
<1>2. \E code \in Responses : Reply(h, code)
  BY Zenon DEF Written, Responses
<1> QED
  BY <1>1, <1>2, ReplyInv DEF Locked

\* A thread that is not there, or a store that raises.
LEMMA ReadFailsInv ==
  ASSUME Inv, NEW h \in Handlers, ReadFails(h)
  PROVE  Inv' /\ (TimelyInv => TimelyInv')
<1>1. pc[h] = "reading" /\ UNCHANGED tlock
  BY DEF ReadFails
<1>2. Reply(h, "404") \/ Reply(h, "500")
  BY DEF ReadFails
<1> QED
  BY <1>1, <1>2, ReplyInv DEF Locked, Responses

\* The host's thread lock is taken by one handler at a time.
LEMMA TakeLockInv ==
  ASSUME Inv, NEW h \in Handlers, TakeLock(h)
  PROVE  Inv' /\ (TimelyInv => TimelyInv')
<1>0. pc[h] = "reading" /\ kind[h] \in Runs \cup {"state"}
  BY DEF TakeLock
<1>1. CASE Reply(h, "409") /\ UNCHANGED tlock
  BY <1>0, <1>1, ReplyInv DEF Responses, Locked
<1>2. CASE /\ asst[h] # None /\ tlock[Key(h)] = None
           /\ tlock' = [tlock EXCEPT ![Key(h)] = h]
           /\ Goto(h, "acquiring")
           /\ Store!Call(Request(h), [op |-> "acquire", assistant |-> asst[h]])
           /\ UNCHANGED <<kind, asst, prior, ok, failure, worker, result>>
  <2>1. PICK r \in Requests : r.op = "acquire" /\ Store!Call(Request(h), r)
    <3>1. asst[h] \in Assistants
      BY <1>2 DEF Inv, TypeOK
    <3> QED
      BY <1>2, <3>1, RequestsMade
  <2>2. /\ call[Request(h)] = None
        /\ call' = [call EXCEPT ![Request(h)] = r]
        /\ call' \in [Clients -> Requests \cup {None}]
        /\ ans' = [ans EXCEPT ![Request(h)] = "none"] /\ ans' \in [Clients -> Answers]
        /\ overtaken' \subseteq Clients
        /\ UNCHANGED <<thread, aged, mine>>
        /\ Request(h) \in Clients
    BY <2>1, CallEffect, ClientsApart DEF Inv
  <2>3. pc' = [pc EXCEPT ![h] = "acquiring"]
    BY <1>2 DEF Goto
  <2> USE <1>0, <1>2, <2>1, <2>2, <2>3 DEF Inv
  <2>t. TypeOK'
    BY DEF TypeOK, Points
  <2>c. CallsFit'
    BY ClientsApart DEF CallsFit, TypeOK, HasToken, Answered
  <2>m. MineDistinct'
    BY DEF MineDistinct
  <2>h. HandlersFit'
    BY DEF HandlersFit, Executing, TypeOK, Locked, Runs
  <2>l. LocksFit'
    <3>1. Key(h) \in LockKeys
      BY DEF Key, LockKeys, TypeOK
    <3>2. \A g \in Handlers : pc[g] \in Locked => Key(g) # Key(h)
      BY DEF LocksFit, LocksReturned, Leaked, Answered
    <3>3. ASSUME NEW g \in Handlers, pc'[g] \in Locked
          PROVE  tlock'[Key(g)] = g
      <4>1. tlock' = [tlock EXCEPT ![Key(h)] = h] /\ tlock \in [LockKeys -> Handlers \cup {None}]
        BY DEF TypeOK
      <4>2. CASE g = h
        BY <3>1, <4>1, <4>2
      <4>3. CASE g # h
        <5>1. pc[g] \in Locked /\ Key(g) \in LockKeys
          BY <3>3, <4>3 DEF TypeOK, Locked, HandlersFit, Key, LockKeys
        <5> QED
          BY <3>2, <4>1, <5>1 DEF LocksFit, LocksReturned, Leaked, Answered
      <4> QED
        BY <4>2, <4>3
    <3>4. ASSUME NEW x \in LockKeys, NEW g \in Handlers, tlock'[x] = g
          PROVE  <<HostOf[g], asst[g]>> = x /\ (pc'[g] \in Locked \/ Leaked(g)')
      <4>1. CASE x = Key(h)
        BY <3>1, <3>4, <4>1 DEF TypeOK, Key, Locked
      <4>2. CASE x # Key(h)
        <5>1. tlock[x] = g /\ Key(g) = x /\ (pc[g] \in Locked \/ Leaked(g))
          BY <3>1, <3>4, <4>2, NoneIsNone DEF LocksFit, LocksReturned, TypeOK
        <5>2. Leaked(g) => Leaked(g)'
          BY ClientsApart DEF Leaked, Answered, TypeOK
        <5>3. pc[g] \in Locked => pc'[g] \in Locked
          BY DEF TypeOK, Locked
        <5> QED
          BY <5>1, <5>2, <5>3 DEF Key
      <4> QED
        BY <4>1, <4>2
    <3>5. tlock' \in [LockKeys -> Handlers \cup {None}]
      BY <2>t DEF TypeOK
    <3> QED
      BY <3>3, <3>4, <3>5 DEF LocksFit, LocksReturned, Key, Leaked, Answered
  <2>4. \A g \in Handlers : Live(g)' => Live(g)
    BY ClientsApart DEF Live, Answered, TypeOK
  <2>5. TimelyInv => ReleaseTold'
    BY ClientsApart DEF TimelyInv, ReleaseTold, TypeOK, HandlersFit
  <2> QED
    BY <2>t, <2>c, <2>m, <2>h, <2>l, <2>4, <2>5, QuietTimely
<1> QED
  BY <1>1, <1>2 DEF TakeLock

\* A run that is refused gives the thread lock back; a state update may not.
LEMMA RejectedInv ==
  ASSUME Inv, NEW h \in Handlers, Rejected(h)
  PROVE  Inv' /\ (TimelyInv => TimelyInv')
<1>1. pc[h] = "acquiring" /\ pc[h] \in Locked
  BY DEF Rejected, Locked
<1>2. \E code \in {"404", "409", "500"} : Reply(h, code)
  BY DEF Rejected
<1>3. Unlock(h) \/ (kind[h] = "state" /\ Answered(h, "raised") /\ UNCHANGED tlock)
  BY DEF Rejected
<1> QED
  BY <1>1, <1>2, <1>3, ReplyInv DEF Responses
\* A step of an owner that touches neither the store nor the thread lock.
LEMMA ProceedInv ==
  ASSUME Inv, NEW h \in Handlers, NEW p \in {"executing", "stopping"},
         HasToken(h), pc[h] \in {"acquiring", "merging", "executing"},
         call[Request(h)] = None,
         pc' = [pc EXCEPT ![h] = p],
         UNCHANGED <<storeVars, tlock, kind, asst, prior, failure, result>>,
         ok' \in [Handlers -> BOOLEAN],
         \/ worker' = worker
         \/ pc[h] = "acquiring" /\ worker' = [worker EXCEPT ![h] = "waiting"],
         p = "executing" /\ kind[h] \in Runs => worker'[h] # "none"
  PROVE  Inv' /\ (TimelyInv => TimelyInv')
<1> USE DEF Inv, storeVars
<1>t. TypeOK'
  BY DEF TypeOK, Points
<1>c. CallsFit'
  BY ClientsApart DEF CallsFit, TypeOK, HasToken, Answered
<1>m. MineDistinct'
  BY DEF MineDistinct
<1>h. HandlersFit'
  BY DEF HandlersFit, Executing, TypeOK, Locked, Runs
<1>l. LocksFit'
  BY DEF LocksFit, LocksReturned, Leaked, Answered, Key, TypeOK, Locked
<1>4. \A g \in Handlers : Live(g)' => Live(g)
  <2>1. ASSUME NEW g \in Handlers, g # h, Live(g)' PROVE Live(g)
    BY <2>1, ClientsApart DEF Live, Answered, TypeOK
  <2>2. CASE pc[h] = "acquiring"
    BY <2>1, <2>2 DEF HasToken, Live
  <2>3. CASE pc[h] # "acquiring"
    BY <2>1, <2>3 DEF Live, TypeOK
  <2> QED
    BY <2>2, <2>3
<1>5. TimelyInv => ReleaseTold'
  BY ClientsApart DEF TimelyInv, ReleaseTold, TypeOK, HandlersFit
<1> QED
  BY <1>t, <1>c, <1>m, <1>h, <1>l, <1>4, <1>5, QuietTimely

\* A run starts with a worker, or stops at once.
LEMMA StartInv ==
  ASSUME Inv, NEW h \in Handlers, Start(h)
  PROVE  Inv' /\ (TimelyInv => TimelyInv')
<1>0. /\ pc[h] = "acquiring" /\ HasToken(h) /\ call[Request(h)] = None /\ Answered(h, "done")
      /\ UNCHANGED <<tlock, kind, asst, prior, ok, failure, result>>
      /\ ok \in [Handlers -> BOOLEAN]
  BY DEF Start, Answered, HasToken, Inv, TypeOK
<1>1. CASE \/ kind[h] = "state" /\ Goto(h, "executing") /\ UNCHANGED <<storeVars, worker>>
           \/ Goto(h, "stopping") /\ UNCHANGED <<storeVars, worker>>
  BY <1>0, <1>1, ProceedInv DEF Goto, Runs
<1>2. CASE /\ worker' = [worker EXCEPT ![h] = "waiting"]
           /\ Goto(h, "executing") /\ UNCHANGED storeVars
  BY <1>0, <1>2, ProceedInv DEF Goto, Inv, TypeOK
<1>3. CASE /\ worker' = [worker EXCEPT ![h] = "waiting"]
           /\ Goto(h, "merging")
           /\ \E m \in Payloads : Store!Call(Request(h), [op |-> "update", metadata |-> m])
  <2>1. PICK r \in Requests : r.op = "update" /\ Store!Call(Request(h), r)
    BY <1>3, RequestsMade
  <2>2. /\ call[Request(h)] = None
        /\ call' = [call EXCEPT ![Request(h)] = r]
        /\ call' \in [Clients -> Requests \cup {None}]
        /\ ans' = [ans EXCEPT ![Request(h)] = "none"] /\ ans' \in [Clients -> Answers]
        /\ overtaken' \subseteq Clients
        /\ UNCHANGED <<thread, aged, mine>>
        /\ Request(h) \in Clients
    BY <2>1, CallEffect, ClientsApart DEF Inv
  <2>3. pc' = [pc EXCEPT ![h] = "merging"]
    BY <1>3 DEF Goto
  <2> USE <1>0, <1>3, <2>1, <2>2, <2>3 DEF Inv
  <2>t. TypeOK'
    BY DEF TypeOK, Points
  <2>c. CallsFit'
    BY ClientsApart DEF CallsFit, TypeOK, HasToken, Answered
  <2>m. MineDistinct'
    BY DEF MineDistinct
  <2>h. HandlersFit'
    BY DEF HandlersFit, Executing, TypeOK, Locked, Runs
  <2>l. LocksFit'
    <3>1. ASSUME NEW g \in Handlers, Leaked(g)
          PROVE  asst'[g] = asst[g] /\ Leaked(g)'
      BY <3>1, ClientsApart DEF Leaked, Answered, TypeOK
    <3>2. \A g \in Handlers : (pc[g] \in Locked <=> pc'[g] \in Locked) /\ (pc[g] \in Locked => asst'[g] = asst[g])
      BY DEF TypeOK, Locked
    <3> QED
      BY <3>1, <3>2, LocksKept
  <2>4. \A g \in Handlers : Live(g)' => Live(g)
    BY ClientsApart DEF Live, Answered, TypeOK
  <2>5. TimelyInv => ReleaseTold'
    BY ClientsApart DEF TimelyInv, ReleaseTold, TypeOK, HandlersFit
  <2> QED
    BY <2>t, <2>c, <2>m, <2>h, <2>l, <2>4, <2>5, QuietTimely
<1> QED
  BY <1>1, <1>2, <1>3 DEF Start

\* The metadata is stored or the run is stopped.
LEMMA MergedInv ==
  ASSUME Inv, NEW h \in Handlers, Merged(h)
  PROVE  Inv' /\ (TimelyInv => TimelyInv')
<1>1. PICK p \in {"executing", "stopping"} : pc' = [pc EXCEPT ![h] = p]
  BY DEF Merged, Goto
<1> QED
  BY <1>1, ProceedInv DEF Merged, HasToken, Inv, TypeOK, HandlersFit, Executing

\* The graph ends.
LEMMA ExecuteInv ==
  ASSUME Inv, NEW h \in Handlers, Execute(h)
  PROVE  Inv' /\ (TimelyInv => TimelyInv')
<1> USE DEF Inv, Execute, Goto, storeVars
<1>t. TypeOK'
  BY DEF TypeOK, Points
<1>c. CallsFit'
  BY ClientsApart DEF CallsFit, TypeOK, HasToken, Answered
<1>m. MineDistinct'
  BY DEF MineDistinct
<1>h. HandlersFit'
  BY DEF HandlersFit, Executing, TypeOK, Locked, Runs
<1>l. LocksFit'
  BY DEF LocksFit, LocksReturned, Leaked, Answered, Key, TypeOK, Locked
<1>4. \A g \in Handlers : Live(g)' => Live(g)
  BY ClientsApart DEF Live, Answered, TypeOK
<1>5. TimelyInv => ReleaseTold'
  BY ClientsApart DEF TimelyInv, ReleaseTold, TypeOK, HandlersFit
<1> QED
  BY <1>t, <1>c, <1>m, <1>h, <1>l, <1>4, <1>5, QuietTimely

\* A renewal is called.
LEMMA RenewInv ==
  ASSUME Inv, NEW h \in Handlers, Renew(h)
  PROVE  Inv' /\ (TimelyInv => TimelyInv')
<1>0. /\ Executing(h) /\ worker[h] = "waiting"
      /\ worker' = [worker EXCEPT ![h] = "renewing"]
      /\ UNCHANGED <<tlock, pc, kind, asst, prior, ok, failure, result>>
  BY DEF Renew
<1>1. PICK r \in Requests : r.op = "renew" /\ Store!Call(Renewal(h), r)
  BY RenewRequest DEF Renew
<1>2. /\ call[Renewal(h)] = None
      /\ call' = [call EXCEPT ![Renewal(h)] = r]
      /\ call' \in [Clients -> Requests \cup {None}]
      /\ ans' = [ans EXCEPT ![Renewal(h)] = "none"] /\ ans' \in [Clients -> Answers]
      /\ overtaken' \subseteq Clients
      /\ UNCHANGED <<thread, aged, mine>>
      /\ Renewal(h) \in Clients
  BY <1>1, CallEffect, ClientsApart DEF Inv
<1> USE <1>0, <1>1, <1>2 DEF Inv
<1>t. TypeOK'
  BY DEF TypeOK, Points
<1>c. CallsFit'
  BY ClientsApart DEF CallsFit, TypeOK, HasToken, Answered
<1>m. MineDistinct'
  BY DEF MineDistinct
<1>h. HandlersFit'
  BY DEF HandlersFit, Executing, TypeOK, Locked, Runs
<1>l. LocksFit'
  <2>1. ASSUME NEW g \in Handlers, Leaked(g)
        PROVE  asst'[g] = asst[g] /\ Leaked(g)'
    BY <2>1, ClientsApart DEF Leaked, Answered, TypeOK
  <2>2. \A g \in Handlers : (pc[g] \in Locked <=> pc'[g] \in Locked) /\ (pc[g] \in Locked => asst'[g] = asst[g])
    BY DEF TypeOK, Locked
  <2> QED
    BY <2>1, <2>2, LocksKept
<1>4. \A g \in Handlers : Live(g)' => Live(g)
  BY ClientsApart DEF Live, Answered, TypeOK
<1>5. TimelyInv => ReleaseTold'
  BY ClientsApart DEF TimelyInv, ReleaseTold, TypeOK, HandlersFit
<1> QED
  BY <1>t, <1>c, <1>m, <1>h, <1>l, <1>4, <1>5, QuietTimely

\* The handler answers 200 only if its release was not reported to have failed.
LEMMA SettleInv ==
  ASSUME Inv, NEW h \in Handlers, Settle(h)
  PROVE  Inv' /\ (TimelyInv => TimelyInv')
<1>1. /\ pc[h] = "releasing" /\ pc[h] \in Locked /\ Unlock(h) /\ call[Request(h)] = None
      /\ UNCHANGED <<storeVars, failure>>
  BY DEF Settle, Locked, Reply
<1>2. PICK code \in Responses : Reply(h, code) /\ (code = "200" => ~failure[h])
  BY DEF Settle, Responses
<1>3. TimelyInv /\ code = "200" => Answered(h, "done")
  BY <1>1, <1>2 DEF TimelyInv, ReleaseTold, Answered
<1> QED
  BY <1>1, <1>2, <1>3, ReplyInv

\* The cleanup calls the release unless the final status is busy, and knows what
\* the worker has found.
LEMMA StopInv ==
  ASSUME Inv, NEW h \in Handlers, Stop(h)
  PROVE  Inv' /\ (TimelyInv => TimelyInv')
<1>0. /\ pc[h] = "stopping" /\ pc[h] \in Locked /\ mine[Request(h)] \in Tokens
      /\ worker' = [worker EXCEPT ![h] = "none"]
  BY ClientsApart DEF Stop, Inv, TypeOK, CallsFit, HasToken, Locked
<1>1. CASE /\ FinalStatus(h) # "busy"
           /\ \E v \in ValuesOf(h, FinalStatus(h)) :
                Store!Call(Request(h), [op |-> "release", token |-> mine[Request(h)],
                                        status |-> FinalStatus(h), values |-> v])
           /\ Goto(h, "releasing")
           /\ failure' = [failure EXCEPT ![h] = Failing(h)]
           /\ UNCHANGED <<tlock, kind, asst, prior, ok, result>>
  <2>1. PICK r \in Requests : /\ r.op = "release" /\ r.token = mine[Request(h)]
                            /\ Store!Call(Request(h), r)
    <3>1. PICK v \in ValuesOf(h, FinalStatus(h)) :
            Store!Call(Request(h), [op |-> "release", token |-> mine[Request(h)],
                                    status |-> FinalStatus(h), values |-> v])
      BY <1>1
    <3> QED
      BY <1>0, <1>1, <3>1, StopRequest
  <2>2. /\ call[Request(h)] = None
        /\ call' = [call EXCEPT ![Request(h)] = r]
        /\ call' \in [Clients -> Requests \cup {None}]
        /\ ans' = [ans EXCEPT ![Request(h)] = "none"] /\ ans' \in [Clients -> Answers]
        /\ overtaken' \subseteq Clients
        /\ UNCHANGED <<thread, aged, mine>>
        /\ Request(h) \in Clients
    BY <2>1, CallEffect, ClientsApart DEF Inv
  <2>3. pc' = [pc EXCEPT ![h] = "releasing"]
    BY <1>1 DEF Goto
  <2>6. \E b \in BOOLEAN : failure' = [failure EXCEPT ![h] = b] /\ (worker[h] = "failed" => b)
    <3>1. Failing(h) \in BOOLEAN /\ (worker[h] = "failed" => Failing(h))
      BY DEF Failing
    <3> QED
      BY <1>1, <3>1
  <2> USE <1>0, <2>1, <2>2, <2>3, <2>6 DEF Inv
  <2>7. UNCHANGED <<tlock, kind, asst, prior, ok, result>>
    BY <1>1
  <2> USE <2>7
  <2>t. TypeOK'
    BY DEF TypeOK, Points
  <2>c. CallsFit'
    BY ClientsApart DEF CallsFit, TypeOK, HasToken, Answered
  <2>m. MineDistinct'
    BY DEF MineDistinct
  <2>h. HandlersFit'
    BY DEF HandlersFit, Executing, TypeOK, Locked, Runs
  <2>l. LocksFit'
    <3>1. ASSUME NEW g \in Handlers, Leaked(g)
          PROVE  Leaked(g)'
      BY <3>1, ClientsApart DEF Leaked, Answered, TypeOK
    <3>2. \A g \in Handlers : pc[g] \in Locked <=> pc'[g] \in Locked
      BY DEF TypeOK, Locked
    <3> QED
      BY <3>1, <3>2, LocksKept
  <2>4. \A g \in Handlers : Live(g)' => Live(g)
    BY ClientsApart DEF Live, Answered, TypeOK
  <2>5. TimelyInv => ReleaseTold'
    BY ClientsApart DEF TimelyInv, ReleaseTold, TypeOK, HandlersFit
  <2> QED
    BY <2>t, <2>c, <2>m, <2>h, <2>l, <2>4, <2>5, QuietTimely
<1>2. CASE /\ Goto(h, "ended")
           /\ Unlock(h)
           /\ failure' = [failure EXCEPT ![h] = TRUE]
           /\ result' = [result EXCEPT ![h] = "500"]
           /\ UNCHANGED <<storeVars, kind, asst, prior, ok>>
  <2> USE <1>0, <1>2 DEF Inv, storeVars, Goto, Unlock
  <2>t. TypeOK'
    BY DEF TypeOK, Points, Responses
  <2>c. CallsFit'
    BY ClientsApart DEF CallsFit, TypeOK, HasToken, Answered
  <2>m. MineDistinct'
    BY DEF MineDistinct
  <2>h. HandlersFit'
    BY DEF HandlersFit, Executing, TypeOK, Locked, Runs
  <2>l. LocksFit'
    BY DEF LocksFit, LocksReturned, Leaked, Answered, Key, TypeOK, Locked
  <2>4. \A g \in Handlers : Live(g)' => Live(g)
    BY ClientsApart DEF Live, Answered, TypeOK
  <2>5. TimelyInv => ReleaseTold'
    BY ClientsApart DEF TimelyInv, ReleaseTold, TypeOK, HandlersFit
  <2> QED
    BY <2>t, <2>c, <2>m, <2>h, <2>l, <2>4, <2>5, QuietTimely
<1> QED
  BY <1>0, <1>1, <1>2 DEF Stop
\* A host takes its handlers and its thread lock with it, not its pending calls.
LEMMA CrashInv ==
  ASSUME Inv, NEW i \in Hosts, Crash(i)
  PROVE  Inv' /\ (TimelyInv => TimelyInv')
<1> USE DEF Inv, Crash, storeVars
<1>t. TypeOK'
  BY DEF TypeOK, Points, Running
<1>c. CallsFit'
  BY ClientsApart DEF CallsFit, HasToken, Answered, Running
<1>m. MineDistinct'
  BY DEF MineDistinct
<1>h. HandlersFit'
  BY DEF HandlersFit, Executing, Locked, Running
<1>l. LocksFit'
  <2>1. \A h \in Handlers : Key(h)[1] = HostOf[h] /\ (pc[h] \in Locked => Key(h) \in LockKeys)
    BY DEF Key, LockKeys, TypeOK, HandlersFit
  <2>2. ASSUME NEW h \in Handlers, pc'[h] \in Locked
        PROVE  tlock'[Key(h)] = h
    BY <2>1, <2>2 DEF LocksFit, LocksReturned, Leaked, Answered, Running, Locked
  <2>3. ASSUME NEW x \in LockKeys, tlock'[x] # None
        PROVE  /\ tlock'[x] = tlock[x] /\ Key(tlock[x]) = x
               /\ \/ pc'[tlock[x]] \in Locked
                  \/ Leaked(tlock[x])'
    BY <2>1, <2>3 DEF LocksFit, LocksReturned, Leaked, Answered, Running, TypeOK, Locked
  <2> QED
    BY <2>2, <2>3 DEF LocksFit, LocksReturned, Leaked, Answered, Key
<1>4. \A g \in Handlers : Live(g)' => Live(g)
  BY DEF Live, Answered, Running
<1>5. TimelyInv => ReleaseTold'
  BY DEF TimelyInv, ReleaseTold, Running
<1> QED
  BY <1>t, <1>c, <1>m, <1>h, <1>l, <1>4, <1>5, QuietTimely

\* The passing of time and the sweep change the thread alone.
LEMMA TimeInv ==
  ASSUME Inv, Age \/ Sweep
  PROVE  Inv'
<1>1. /\ UNCHANGED <<call, ans, mine, handlerVars>>
      /\ thread' \in Threads \cup {None} /\ aged' \in BOOLEAN /\ overtaken' \subseteq Clients
  <2>1. CASE Age
    BY <2>1 DEF Age, Store!Age, Inv, TypeOK
  <2>2. CASE Sweep
    <3>1. thread \in Threads
      BY <2>2 DEF Sweep, Store!Sweep, Inv, TypeOK
    <3>2. PICK s \in Terminal : thread' = Store!SweptTo(thread, s)
      BY <2>2 DEF Sweep, Store!Sweep, Terminal
    <3> QED
      BY <2>2, <3>1, <3>2, RecordsTyped DEF Sweep, Store!Sweep
  <2> QED
    BY <2>1, <2>2
<1> USE <1>1 DEF handlerVars, Inv
<1>t. TypeOK'
  BY DEF TypeOK
<1> QED
  BY <1>t DEF CallsFit, HasToken, Answered, MineDistinct, HandlersFit,
       Executing, LocksFit, LocksReturned, Leaked, Key

\* The row of a live handler does not grow old.
LEMMA LiveRenewed ==
  ASSUME Inv, TimelyInv, NEW h \in Handlers, Live(h), thread # None
  PROVE  Renewed
<1>1. Owns(h)
  BY DEF Owns, Live, Locked, TimelyInv, LiveOwns
<1>2. Executing(h) /\ kind[h] \in Runs => worker[h] \in {"waiting", "renewing"}
  BY DEF Live, Executing, Inv, HandlersFit, TypeOK
<1> QED
  BY <1>1, <1>2 DEF Renewed

\* The sweep frees a thread that nobody is live on.
LEMMA TimeTimely ==
  ASSUME Timely, Inv, TimelyInv, Age \/ Sweep
  PROVE  TimelyInv'
<1>1. \A h \in Handlers : thread # None => ~Live(h)
  <2> SUFFICES ASSUME NEW h \in Handlers, Live(h), thread # None PROVE FALSE
    OBVIOUS
  <2>1. thread.status = "busy" /\ ~aged
    BY DEF TimelyInv, LiveOwns
  <2> QED
    BY <2>1, LiveRenewed DEF Age, Sweep, Store!Sweep
<1>2. thread # None /\ UNCHANGED <<call, ans, handlerVars>>
  BY DEF Age, Sweep, Store!Age, Store!Sweep
<1>3. \A h \in Handlers : Live(h)' => Live(h)
  BY <1>2 DEF Live, Answered, handlerVars
<1> QED
  BY <1>1, <1>2, <1>3 DEF TimelyInv, LiveOwns, OneLive, ReleaseTold, handlerVars

\* The invariants hold before the first request.
LEMMA InitInv == Init => Inv /\ TimelyInv
<1> SUFFICES ASSUME Init PROVE Inv /\ TimelyInv
  OBVIOUS
<1>1. thread \in Threads
  BY DEF Init, Store!Init, Store!NewThread, Threads, Statuses, Terminal
<1>2. /\ call = [c \in Clients |-> None] /\ ans = [c \in Clients |-> "none"]
      /\ mine = [c \in Clients |-> None] /\ overtaken = {} /\ aged = FALSE
  BY DEF Init, Store!Init
<1>t. TypeOK
  BY <1>1, <1>2 DEF Init, TypeOK, Points, Responses, Answers, Statuses, Terminal
<1>c. CallsFit /\ MineDistinct
  BY <1>2, ClientsApart DEF Init, CallsFit, HasToken, MineDistinct
<1>h. HandlersFit /\ LocksFit
  BY DEF Init, HandlersFit, Executing, LocksFit, LocksReturned, Locked
<1>l. TimelyInv
  BY DEF Init, TimelyInv, LiveOwns, OneLive, Live, ReleaseTold
<1> QED
  BY <1>t, <1>c, <1>h, <1>l DEF Inv

\* A step that changes nothing keeps them.
LEMMA StutterInv ==
  ASSUME Inv, UNCHANGED vars
  PROVE  Inv' /\ (TimelyInv => TimelyInv')
<1> USE DEF vars, storeVars, handlerVars
<1>1. Inv'
  BY DEF Inv, TypeOK, CallsFit, HasToken, Answered, MineDistinct, HandlersFit,
       Executing, LocksFit, LocksReturned, Leaked, Key
<1>2. TimelyInv => TimelyInv'
  BY DEF TimelyInv, LiveOwns, OneLive, Live, Answered, ReleaseTold
<1> QED
  BY <1>1, <1>2

\* Every step of a handler or its worker keeps them.
LEMMA HandlerInv ==
  ASSUME Inv, NEW h \in Handlers, HandlerStep(h) \/ Renew(h) \/ RenewReturns(h)
  PROVE  Inv' /\ (TimelyInv => TimelyInv')
<1>1. CASE ReadReturns(h) \/ ReleaseReturns(h) \/ CallReturns(h) \/ RenewReturns(h)
  <2>1. \E c \in {Request(h), Renewal(h)} : PerformStep(h, c)
    BY <1>1, ReadReturnsStep, ReleaseReturnsStep, CallReturnsStep, RenewReturnsStep
  <2> QED
    BY <2>1, PerformInv, PerformTimely
<1> QED
  BY <1>1, PatchInv, WrittenInv, ReadFailsInv, TakeLockInv, RejectedInv, StartInv, MergedInv,
     ExecuteInv, StopInv, SettleInv, RenewInv DEF HandlerStep

\* Every step keeps the invariant.
LEMMA NextInv == Inv /\ [Next]_vars => Inv'
BY StutterInv, HandlerInv, ReceiveInv, CrashInv, TimeInv DEF Next

\* With a timely sweep every step keeps the ownership of live handlers.
LEMMA NextTimely ==
  ASSUME Timely
  PROVE  Inv /\ TimelyInv /\ [Next]_vars => TimelyInv'
BY StutterInv, HandlerInv, ReceiveInv, CrashInv, TimeTimely DEF Next

\* Pending calls, tokens, handlers and thread locks fit together, whatever the
\* sweep's cutoff.
THEOREM Invariance == Spec => []Inv
BY InitInv, NextInv, PTL DEF Spec

\* With a sweep whose cutoff exceeds what a renewed run can take (Timely), a
\* handler owns the thread from its acquire to its release unless a renewal told
\* its worker otherwise.
THEOREM TimelyInvariance ==
  ASSUME Timely
  PROVE  Spec => []TimelyInv
BY InitInv, NextInv, NextTimely, PTL DEF Spec

\* The variables keep their types: what the handlers ask of the store is what
\* the ThreadStore protocol offers.
THEOREM TypeCorrect == Spec => []TypeOK
<1>1. Inv => TypeOK
  BY DEF Inv
<1> QED
  BY <1>1, Invariance, PTL

\* OneRunPerThread: two graphs run on one thread only if a renewal has failed,
\* for any number of hosts, requests, PATCHes, DELETEs, crashes and sweeps
\* (platform/_runs.py, platform/_store_renewal.py).
THEOREM OneRun ==
  ASSUME Timely
  PROVE  Spec => []OneRunPerThread
<1>1. Inv /\ TimelyInv => OneRunPerThread
  BY DEF TimelyInv, OneLive, Live, OneRunPerThread, Executing
<1> QED
  BY <1>1, Invariance, TimelyInvariance, PTL

\* SuccessIsReleased: no run and no state update answers 200 after somebody else
\* took the thread.
THEOREM SuccessMeansReleased ==
  ASSUME Timely
  PROVE  Spec => []SuccessIsReleased
<1>1. TimelyInv => SuccessIsReleased
  BY DEF TimelyInv, ReleaseTold, SuccessIsReleased
<1> QED
  BY <1>1, TimelyInvariance, PTL

--------------------------------------------------------------------------------
\* A handler touches the thread through the operations of the store only.
LEMMA HandlerStore ==
  ASSUME Inv, NEW h \in Handlers, HandlerStep(h) \/ Renew(h) \/ RenewReturns(h)
  PROVE  Store!Next \/ UNCHANGED storeVars
<1>1. ASSUME NEW c \in Clients, Store!Perform(c) PROVE Store!Next
  BY <1>1 DEF Store!Next
<1>2. ASSUME NEW c \in Clients, NEW r \in Requests, Store!Call(c, r) PROVE Store!Next
  BY <1>2 DEF Store!Next, Store!Requests, Requests
<1>3. ASSUME NEW code, Reply(h, code) PROVE UNCHANGED storeVars
  BY <1>3 DEF Reply
<1>a. CASE ReadReturns(h) \/ ReleaseReturns(h) \/ CallReturns(h) \/ RenewReturns(h)
  BY <1>1, <1>a, ClientsApart DEF ReadReturns, ReleaseReturns, CallReturns, RenewReturns
<1>b. CASE Patch(h)
  BY <1>2, <1>3, <1>b, ClientsApart, RequestsMade DEF Patch
<1>c. CASE Written(h) \/ ReadFails(h) \/ Rejected(h) \/ Settle(h)
  BY <1>3, <1>c DEF Written, ReadFails, Rejected, Settle
<1>d. CASE TakeLock(h)
  <2>1. asst[h] # None => asst[h] \in Assistants
    BY DEF Inv, TypeOK
  <2> QED
    BY <1>2, <1>3, <1>d, <2>1, ClientsApart, RequestsMade DEF TakeLock
<1>e. CASE Start(h)
  BY <1>2, <1>e, ClientsApart, RequestsMade DEF Start
<1>f. CASE Merged(h) \/ Execute(h)
  BY <1>f DEF Merged, Execute
<1>g. CASE Stop(h)
  BY <1>2, <1>g, ClientsApart, StopRequest DEF Stop
<1>h. CASE Renew(h)
  BY <1>2, <1>h, ClientsApart, RenewRequest DEF Renew
<1> QED
  BY <1>a, <1>b, <1>c, <1>d, <1>e, <1>f, <1>g, <1>h DEF HandlerStep

\* Every step is one of the store contract or none.
LEMMA NextStore == Inv /\ [Next]_vars => [Store!Next]_(Store!storeVars)
<1> USE DEF Store!storeVars, storeVars
<1>1. ASSUME NEW h \in Handlers, NEW k \in Kinds[h], Receive(h, k) PROVE Store!Next
  BY <1>1, ClientsApart, RequestsMade DEF Receive, Store!Next, Store!Requests, Requests
<1>2. ASSUME Age \/ Sweep PROVE Store!Next
  BY <1>2 DEF Age, Sweep, Store!Next
<1>3. ASSUME NEW i \in Hosts, Crash(i) PROVE UNCHANGED storeVars
  BY <1>3 DEF Crash
<1>4. UNCHANGED vars => UNCHANGED storeVars
  BY DEF vars
<1> QED
  BY <1>1, <1>2, <1>3, <1>4, HandlerStore DEF Next

\* The handlers, their workers and the timer together are clients of the store
\* contract: what is proved of a ThreadStore, and of the Azure Table store that
\* implements it, holds under them.
THEOREM StoreUsed == Spec => Store!Spec
<1>1. Init => Store!Init
  BY DEF Init
<1> QED
  BY <1>1, NextStore, Invariance, PTL DEF Spec, Store!Spec

--------------------------------------------------------------------------------
(***************************************************************************)
(* The components together (MCPlatform).                                   *)
(***************************************************************************)
\* The components of the Platform start as each of them starts.
LEMMA PlatformInitIsEach ==
  PlatformInit => Init /\ L!Init /\ H!Init /\ T!Init /\ A!Init
BY DEF PlatformInit

\* A step is one of the component that the scene is about, and none of the others.
LEMMA PlatformNextIsEach ==
  [PlatformNext]_<<scene, vars, lVars, hVars, tVars, aVars>> =>
    [Next]_vars /\ [L!Next]_(L!vars) /\ [H!Next]_(H!vars) /\ [T!Next]_(T!vars) /\ [A!Next]_(A!vars)
<1>1. UNCHANGED lVars => UNCHANGED L!vars
  BY DEF lVars, L!vars
<1>2. UNCHANGED hVars => UNCHANGED H!vars
  BY DEF hVars, H!vars
<1>3. UNCHANGED tVars => UNCHANGED T!vars
  BY DEF tVars, T!vars
<1>4. UNCHANGED aVars => UNCHANGED A!vars
  BY DEF aVars, A!vars
<1>5. CASE UNCHANGED <<scene, vars, lVars, hVars, tVars, aVars>>
  BY <1>1, <1>2, <1>3, <1>4, <1>5
<1>6. CASE PlatformNext
  BY <1>1, <1>2, <1>3, <1>4, <1>6 DEF PlatformNext
<1> QED
  BY <1>5, <1>6

\* The Platform surface (platform/routes.py) is made of the five components: what is
\* proved of one of them holds under every behaviour of the whole.
THEOREM PlatformIsEach ==
  PlatformSpec => Spec /\ L!Spec /\ H!Spec /\ T!Spec /\ A!Spec
BY PlatformInitIsEach, PlatformNextIsEach, PTL
   DEF PlatformSpec, Spec, L!Spec, H!Spec, T!Spec, A!Spec

\* The inductive invariant of the whole.
THEOREM PlatformInvariance ==
  PlatformSpec => [](Inv /\ L!Inv /\ H!Inv /\ T!Inv /\ A!Inv)
BY PlatformIsEach, Invariance, ListingInvariance, HistoryInvariance, ThreadlessInvariance,
   AppInvariance, PTL

\* LocksReturned: no way out of a handler leaves the thread lock of its host behind,
\* but an exception of try_acquire_run_lock in a state update (platform/_runs.py,
\* platform/_threads.py:407), which keeps the lock while its host lives.
THEOREM LocksAreReturned == PlatformSpec => []LocksReturned
<1>1. Inv => LocksReturned
  BY DEF Inv, LocksFit
<1> QED
  BY <1>1, PlatformInvariance, PTL

\* A client that pages through the threads, or through the past of one, finds what
\* was there all along and is not shown anything twice (platform/_threads.py). Errors
\* included: one that is answered as an empty page (562-567) ends a history too soon,
\* and then nothing is missing between the pages that were shown.
THEOREM PagesAreFaithful == PlatformSpec => []PagesFaithful
<1>1. L!Inv /\ H!Inv => PagesFaithful
  BY DEF L!Inv, H!Inv, PagesFaithful
<1> QED
  BY <1>1, PlatformInvariance, PTL

\* A PATCH does not bring back a thread that was deleted (update, of both stores).
THEOREM NothingResurrected == PlatformSpec => NoResurrection
<1>1. L!Inv /\ [L!Next]_(L!vars) =>
        [\A t \in ThreadIds : lThreads[t].state = "gone" => lThreads'[t].state = "gone"]_(L!vars)
  <2> SUFFICES ASSUME L!TypeOK, L!Next, NEW t \in ThreadIds, lThreads[t].state = "gone"
               PROVE  lThreads'[t].state = "gone"
    BY DEF L!Inv
  <2> USE DEF L!TypeOK
  <2>1. ASSUME NEW u \in ThreadIds, NEW keys \in SUBSET Keys,
               \/ \E now \in L!Time : L!Create(u, keys, now)
               \/ \E s \in {"idle", "busy"} : L!SetStatus(u, s)
               \/ L!PatchReads(u, keys) \/ L!Delete(u)
        PROVE  lThreads'[t].state = "gone"
    BY <2>1 DEF L!Create, L!SetStatus, L!PatchReads, L!Delete, L!NoThread
  <2>2. CASE L!PatchWrites
    BY <2>2 DEF L!PatchWrites
  <2>3. ASSUME L!Search \/ \E f \in Filters, limit \in 1..MaxPage : L!Count(f, limit)
        PROVE  lThreads'[t].state = "gone"
    BY <2>3 DEF L!Search, L!Count
  <2> QED
    BY <2>1, <2>2, <2>3 DEF L!Next
<1> QED
  BY <1>1, PlatformIsEach, PlatformInvariance, PTL DEF L!Spec, NoResurrection, L!NoResurrection

\* A run without a thread persists nothing, and what its stream tells is whole and
\* within the bound of the buffer (runs_wait_threadless, runs_stream_threadless).
THEOREM ThreadlessIsFaithful == PlatformSpec => []ThreadlessFaithful
BY ThreadlessKept, PlatformInvariance, PTL

\* What is served is what was registered and set, in whatever order (app.py).
THEOREM ServedIsRegistered == PlatformSpec => []ServedAsRegistered
BY AppKept, PlatformInvariance, PTL
===============================================================================
