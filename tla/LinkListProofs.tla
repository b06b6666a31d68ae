--------------------------- MODULE LinkListProofs ---------------------------
(***************************************************************************)
(* Proofs about LinkList for any links, accounts and page lengths: the     *)
(* pages a tab gathers are one descending list without a gap, and a list   *)
(* at rest shows the deactivations the tab was told of.                    *)
(***************************************************************************)
EXTENDS LinkList, FiniteSetTheorems, SequenceTheorems, TLAPS

-----------------------------------------------------------------------------
(* A finite set of numbers in descending order.                            *)

(* Fewer are above a greater element.                                      *)
LEMMA AboveShrinks ==
  ASSUME NEW S \in SUBSET Nat, IsFiniteSet(S), NEW i \in S, NEW j \in S, i < j
  PROVE  Cardinality(Above(j, S)) < Cardinality(Above(i, S))
<1>1. /\ Above(i, S) \in SUBSET S /\ Above(j, S) \in SUBSET Above(i, S)
      /\ j \in Above(i, S) /\ j \notin Above(j, S)
  <2>1. \A k \in S : k \in Nat
    OBVIOUS
  <2>2. \A k \in S : (k \in Above(i, S) <=> k > i) /\ (k \in Above(j, S) <=> k > j)
    BY DEF Above
  <2>3. Above(i, S) \subseteq S /\ Above(j, S) \subseteq S
    BY DEF Above
  <2>4. \A k \in S : k > j => k > i
    BY <2>1
  <2>5. Above(j, S) \subseteq Above(i, S)
    BY <2>2, <2>3, <2>4
  <2> QED
    BY <2>1, <2>2, <2>3, <2>5
<1>2. IsFiniteSet(Above(i, S))
  BY <1>1, FS_Subset
<1>3. /\ IsFiniteSet(Above(j, S))
      /\ Cardinality(Above(j, S)) <= Cardinality(Above(i, S))
      /\ Cardinality(Above(j, S)) # Cardinality(Above(i, S))
  BY <1>1, <1>2, FS_Subset
<1>4. Cardinality(Above(i, S)) \in Nat /\ Cardinality(Above(j, S)) \in Nat
  BY <1>2, <1>3, FS_CardinalityType
<1> QED
  BY <1>3, <1>4

LEMMA AboveIsRank ==
  ASSUME NEW S \in SUBSET Nat, IsFiniteSet(S), NEW i \in S
  PROVE  Cardinality(Above(i, S)) \in 0..(Cardinality(S) - 1)
<1>1. Above(i, S) \in SUBSET S /\ i \in S /\ i \notin Above(i, S)
  BY DEF Above
<1>2. /\ IsFiniteSet(Above(i, S))
      /\ Cardinality(Above(i, S)) <= Cardinality(S)
      /\ Cardinality(Above(i, S)) # Cardinality(S)
  BY <1>1, FS_Subset
<1>3. Cardinality(Above(i, S)) \in Nat /\ Cardinality(S) \in Nat
  BY <1>2, FS_CardinalityType
<1> QED
  BY <1>2, <1>3

(* Every rank is taken: ranks are as many as elements, and no two elements *)
(* have the same.                                                          *)
LEMMA EveryRankTaken ==
  ASSUME NEW S \in SUBSET Nat, IsFiniteSet(S), NEW k \in 1..Cardinality(S)
  PROVE  \E i \in S : Cardinality(Above(i, S)) = k - 1
<1> DEFINE Ranks == 0..(Cardinality(S) - 1)
           rank == [i \in S |-> Cardinality(Above(i, S))]
<1>1. Cardinality(S) \in Nat
  BY FS_CardinalityType
<1>2. rank \in [S -> Ranks]
  BY AboveIsRank
<1>3. ASSUME NEW i \in S, NEW j \in S, rank[i] = rank[j] PROVE i = j
  <2>1. CASE i < j
    BY <1>2, <1>3, <2>1, AboveShrinks
  <2>2. CASE j < i
    BY <1>2, <1>3, <2>2, AboveShrinks
  <2> QED
    BY <2>1, <2>2
<1>4. rank \in Injection(S, Ranks)
  <2> HIDE DEF rank, Ranks
  <2> QED
    BY <1>2, <1>3 DEF Injection, IsInjective
<1>5. IsFiniteSet(Ranks) /\ Cardinality(Ranks) = Cardinality(S)
  <2>1. 0 \in Int /\ Cardinality(S) - 1 \in Int
    BY <1>1
  <2>2. /\ IsFiniteSet(0..(Cardinality(S) - 1))
        /\ Cardinality(0..(Cardinality(S) - 1)) =
             IF 0 > Cardinality(S) - 1 THEN 0 ELSE Cardinality(S) - 1 - 0 + 1
    BY <2>1, FS_Interval
  <2> QED
    BY <2>2, <1>1
<1>6. rank \in Surjection(S, Ranks)
  <2> HIDE DEF rank, Ranks
  <2> QED
    BY <1>4, <1>5, FS_Injection
<1>7. k - 1 \in Ranks
  BY <1>1
<1>8. \E i \in S : rank[i] = k - 1
  <2> HIDE DEF rank, Ranks
  <2> QED
    BY <1>6, <1>7 DEF Surjection
<1> QED
  BY <1>8

(* So the list has every element of the set, in its order.                 *)
LEMMA DescendingLists ==
  ASSUME NEW S \in SUBSET Nat, IsFiniteSet(S)
  PROVE  /\ Descending(S) \in Seq(S)
         /\ Len(Descending(S)) = Cardinality(S)
         /\ \A j, k \in 1..Len(Descending(S)) : j < k => Descending(S)[j] > Descending(S)[k]
         /\ \A i \in S : \E k \in 1..Len(Descending(S)) : Descending(S)[k] = i
<1> DEFINE d == Descending(S)
           n == Cardinality(S)
           Rank(i) == Cardinality(Above(i, S))
<1>1. n \in Nat
  BY FS_CardinalityType
<1>2. ASSUME NEW k \in 1..n PROVE d[k] \in S /\ Rank(d[k]) = k - 1
  BY EveryRankTaken DEF Descending
<1>3. DOMAIN d = 1..n /\ d \in [1..n -> S]
  BY <1>2 DEF Descending
<1>4. d \in Seq(S) /\ Len(d) = n
  BY <1>1, <1>3
<1>8. \A i \in S : i \in Nat
  OBVIOUS
<1>5. ASSUME NEW j \in 1..n, NEW k \in 1..n, j < k PROVE d[j] > d[k]
  <2>1. d[j] \in S /\ d[k] \in S /\ Rank(d[j]) = j - 1 /\ Rank(d[k]) = k - 1
    BY <1>2
  <2>2. ASSUME d[j] < d[k] PROVE Rank(d[k]) < Rank(d[j])
    BY <2>1, <2>2, AboveShrinks
  <2> HIDE DEF d, Rank, n
  <2>3. d[j] \in Nat /\ d[k] \in Nat /\ j \in Nat /\ k \in Nat
    <3>1. d[j] \in Nat /\ d[k] \in Nat
      BY <2>1, <1>8
    <3> QED
      BY <3>1, <1>1
  <2>4. ~(d[j] < d[k])
    BY <2>1, <2>2, <2>3, <1>5
  <2>5. d[j] # d[k]
    BY <2>1, <2>3, <1>5
  <2> QED
    BY <2>3, <2>4, <2>5
<1>6. ASSUME NEW i \in S PROVE \E k \in 1..n : d[k] = i
  <2>1. Rank(i) \in 0..(n - 1)
    BY AboveIsRank
  <2>2. PICK k \in 1..n : k - 1 = Rank(i)
    <3> HIDE DEF Rank, n
    <3>1. Rank(i) + 1 \in 1..n
      BY <2>1, <1>1
    <3> QED
      BY <3>1, <2>1, <1>1
  <2>3. d[k] \in S /\ Rank(d[k]) = Rank(i)
    BY <1>2, <2>2
  <2>4. ASSUME d[k] < i PROVE Rank(i) < Rank(d[k])
    BY <2>3, <2>4, AboveShrinks
  <2>5. ASSUME i < d[k] PROVE Rank(d[k]) < Rank(i)
    BY <2>3, <2>5, AboveShrinks
  <2> HIDE DEF d, Rank, n
  <2>6. d[k] \in Nat /\ i \in Nat /\ Rank(i) \in Nat
    <3>1. d[k] \in Nat /\ i \in Nat
      BY <2>3, <1>8
    <3> QED
      BY <3>1, <2>1, <1>1
  <2>7. d[k] = i
    BY <2>3, <2>4, <2>5, <2>6
  <2> QED
    BY <2>7
<1> HIDE DEF d, n
<1>7. /\ d \in Seq(S) /\ Len(d) = n
      /\ \A j, k \in 1..Len(d) : j < k => d[j] > d[k]
      /\ \A i \in S : \E k \in 1..Len(d) : d[k] = i
  BY <1>4, <1>5, <1>6
<1> QED
  BY <1>7 DEF d, n

-----------------------------------------------------------------------------
(* What listUrls answers.                                                  *)

LEMMA FirstOfSequence ==
  ASSUME NEW S, NEW s \in Seq(S), NEW n \in Nat
  PROVE  /\ First(n, s) \in Seq(S)
         /\ Len(First(n, s)) = IF n < Len(s) THEN n ELSE Len(s)
         /\ \A k \in 1..Len(First(n, s)) : First(n, s)[k] = s[k]
<1> DEFINE m == IF n < Len(s) THEN n ELSE Len(s)
<1>1. m \in Nat /\ m <= Len(s) /\ Len(s) \in Nat
  BY LenProperties
<1>2. \A k \in 1..m : s[k] \in S
  BY <1>1, ElementOfSeq
<1>3. First(n, s) = SubSeq(s, 1, m)
  BY DEF First
<1> HIDE DEF m
<1>4. /\ SubSeq(s, 1, m) \in Seq(S)
      /\ Len(SubSeq(s, 1, m)) = IF 1 <= m THEN m - 1 + 1 ELSE 0
      /\ \A k \in 1..(m - 1 + 1) : SubSeq(s, 1, m)[k] = s[1 + k - 1]
  <2>1. 1 \in Int /\ m \in Int
    BY <1>1
  <2> QED
    BY <2>1, <1>2, SubSeqProperties
<1>5. First(n, s) \in Seq(S) /\ Len(First(n, s)) = m
  BY <1>1, <1>3, <1>4
<1>6. ASSUME NEW k \in 1..m PROVE First(n, s)[k] = s[k]
  <2>1. k \in 1..(m - 1 + 1) /\ 1 + k - 1 = k
    BY <1>1
  <2> QED
    BY <2>1, <1>3, <1>4
<1> QED
  BY <1>5, <1>6 DEF m

(* The first ids below the cursor, and the last of them if there are more. *)
LEMMA PageRead ==
  ASSUME NEW u, NEW cursor \in Ids \cup {None}, NEW limit \in Nat \ {0},
         rows \in [Ids -> [owner : Users \cup {None}, active : BOOLEAN]],
         NEW d, d = Descending(ListedFrom(u, cursor)),
         NEW n, n = (IF limit < Len(d) THEN limit ELSE Len(d)),
         NEW p, p = ListUrls(u, cursor, limit)
  PROVE  /\ p \in Page /\ Len(p.items) = n
         /\ \A k \in 1..n : p.items[k] = [id |-> d[k], active |-> rows[d[k]].active]
         /\ p.next = IF limit < Len(d) THEN d[limit] ELSE None
<1> DEFINE S == ListedFrom(u, cursor)
           found == First(limit + 1, d)
           page == First(limit, found)
<1>1. S \subseteq Ids /\ S \in SUBSET Nat /\ IsFiniteSet(S)
  <2>1. S \subseteq Ids
    BY DEF ListedFrom, Owned
  <2> QED
    BY <2>1, IdsAreNumbers, FS_Subset
<1>2. d \in Seq(S)
  BY <1>1, DescendingLists
<1>3. d \in Seq(Ids) /\ Len(d) \in Nat
  <2>1. \A k \in 1..Len(d) : d[k] \in Ids
    BY <1>1, <1>2, ElementOfSeq
  <2>2. Len(d) \in Nat /\ DOMAIN d = 1..Len(d) /\ d \in [1..Len(d) -> S]
    BY <1>2, LenProperties
  <2>3. PICK m \in Nat : m = Len(d)
    BY <2>2
  <2>4. d \in [1..m -> Ids]
    BY <2>1, <2>2, <2>3
  <2>5. d \in Seq(Ids)
    BY <2>4
  <2> QED
    BY <2>2, <2>5
<1> HIDE DEF S
<1>4. /\ found \in Seq(Ids)
      /\ Len(found) = IF limit + 1 < Len(d) THEN limit + 1 ELSE Len(d)
      /\ \A k \in 1..Len(found) : found[k] = d[k]
  BY <1>3, FirstOfSequence
<1> HIDE DEF found
<1>5. /\ page \in Seq(Ids)
      /\ Len(page) = IF limit < Len(found) THEN limit ELSE Len(found)
      /\ \A k \in 1..Len(page) : page[k] = found[k]
  BY <1>4, FirstOfSequence
<1> HIDE DEF page
<1>6. n \in Nat /\ Len(page) = n /\ \A k \in 1..n : k \in 1..Len(found)
  BY <1>3, <1>4, <1>5
<1>7. \A k \in 1..n : page[k] = d[k] /\ d[k] \in Ids
  BY <1>3, <1>4, <1>5, <1>6, ElementOfSeq
<1>8. DOMAIN page = 1..n
  BY <1>5, <1>6, LenProperties
<1>9. p = [items |-> [k \in 1..n |-> [id |-> page[k], active |-> rows[page[k]].active]],
           next |-> NextCursor(found, limit)]
  BY <1>8 DEF ListUrls, found, page, S
<1>10. NextCursor(found, limit) = IF limit < Len(d) THEN d[limit] ELSE None
  <2>1. Len(found) > limit <=> limit < Len(d)
    BY <1>3, <1>4
  <2>2. ASSUME limit < Len(d) PROVE found[limit] = d[limit]
    BY <2>2, <1>3, <1>4
  <2> QED
    BY <2>1, <2>2 DEF NextCursor
<1>11. NextCursor(found, limit) \in Ids \cup {None}
  <2>1. ASSUME limit < Len(d) PROVE d[limit] \in Ids
    BY <2>1, <1>3, ElementOfSeq
  <2> QED
    BY <2>1, <1>10
<1>12. \A k \in 1..n : [id |-> page[k], active |-> rows[page[k]].active] \in Item
  BY <1>7 DEF Item
<1>13. p.items \in Seq(Item) /\ Len(p.items) = n
  <2>1. p.items \in [1..n -> Item]
    BY <1>9, <1>12
  <2> QED
    BY <2>1, <1>6
<1>14. p \in Page
  BY <1>9, <1>11, <1>13 DEF Page
<1> QED
  BY <1>7, <1>9, <1>10, <1>13, <1>14

(* A single page.                                                          *)
LEMMA SinglePage ==
  ASSUME NEW page \in Page
  PROVE  /\ <<page>> # <<>> /\ Last(<<page>>) = page
         /\ DOMAIN page.items = 1..Len(page.items) /\ Len(page.items) \in Nat
         /\ \A k \in DOMAIN page.items : page.items[k] \in Item
         /\ Descends(<<page>>) <=>
              \A j, k \in DOMAIN page.items : j < k => page.items[j].id > page.items[k].id
         /\ Shown(<<page>>) =
              {i \in Ids : \E k \in DOMAIN page.items : page.items[k].id = i}
         /\ Heeds(<<page>>) <=>
              \A k \in DOMAIN page.items : page.items[k].id \in confirmed =>
                                             ~page.items[k].active
<1>1. DOMAIN <<page>> = {1} /\ <<page>>[1] = page /\ Len(<<page>>) = 1 /\ <<page>> # <<>>
  OBVIOUS
<1>2. page.items \in Seq(Item)
  BY DEF Page
<1>3. /\ DOMAIN page.items = 1..Len(page.items) /\ Len(page.items) \in Nat
      /\ \A k \in DOMAIN page.items : page.items[k] \in Item
  BY <1>2, LenProperties, ElementOfSeq
<1>4. Last(<<page>>) = page
  BY <1>1 DEF Last
<1>5. Descends(<<page>>) <=>
        \A j, k \in DOMAIN page.items : j < k => page.items[j].id > page.items[k].id
  BY <1>1 DEF Descends
<1>6. Shown(<<page>>) = {i \in Ids : \E k \in DOMAIN page.items : page.items[k].id = i}
  BY <1>1 DEF Shown
<1>7. Heeds(<<page>>) <=>
        \A k \in DOMAIN page.items : page.items[k].id \in confirmed => ~page.items[k].active
  BY <1>1 DEF Heeds
<1> QED
  BY <1>1, <1>3, <1>4, <1>5, <1>6, <1>7

(* The page is what PageFrom says, and tells the truth about the rows.     *)
LEMMA PageReadIsSound ==
  ASSUME NEW u, NEW cursor \in Ids \cup {None}, NEW limit \in Nat \ {0},
         rows \in [Ids -> [owner : Users \cup {None}, active : BOOLEAN]],
         NEW since \in SUBSET Owned(u),
         \A i \in confirmed : ~rows[i].active
  PROVE  /\ ListUrls(u, cursor, limit) \in Page
         /\ PageFrom(cursor, ListUrls(u, cursor, limit), since)
         /\ Heeds(<<ListUrls(u, cursor, limit)>>)
<1> DEFINE S == ListedFrom(u, cursor)
<1>1. PICK d : d = Descending(S)
  OBVIOUS
<1>2. PICK n : n = IF limit < Len(d) THEN limit ELSE Len(d)
  OBVIOUS
<1>3. PICK p : p = ListUrls(u, cursor, limit)
  OBVIOUS
<1>4. /\ p \in Page /\ Len(p.items) = n
      /\ \A k \in 1..n : p.items[k] = [id |-> d[k], active |-> rows[d[k]].active]
      /\ p.next = IF limit < Len(d) THEN d[limit] ELSE None
  BY <1>1, <1>2, <1>3, PageRead
<1>5. S \subseteq Ids /\ S \subseteq Nat /\ S \in SUBSET Nat /\ IsFiniteSet(S)
  <2>1. S \subseteq Ids
    BY DEF ListedFrom, Owned
  <2> QED
    BY <2>1, IdsAreNumbers, FS_Subset
<1>6. \A i \in S : Below(i, cursor)
  BY DEF ListedFrom, Below
<1>7. \A i \in since : Below(i, cursor) => i \in S
  BY DEF ListedFrom, Below
<1> HIDE DEF S
<1>8. /\ d \in Seq(S)
      /\ \A j, k \in 1..Len(d) : j < k => d[j] > d[k]
      /\ \A i \in S : \E k \in 1..Len(d) : d[k] = i
  BY <1>1, <1>5, DescendingLists
<1>9. Len(d) \in Nat /\ \A k \in 1..Len(d) : d[k] \in S /\ d[k] \in Nat /\ d[k] \in Ids
  BY <1>5, <1>8, LenProperties, ElementOfSeq
<1>10. n \in Nat /\ n <= Len(d) /\ n <= limit
  BY <1>2, <1>9
<1>11. DOMAIN p.items = 1..n
  BY <1>4, SinglePage
<1>12. \A k \in 1..n : p.items[k].id = d[k] /\ p.items[k].active = rows[d[k]].active
  <2> SUFFICES ASSUME NEW k \in 1..n
               PROVE  p.items[k].id = d[k] /\ p.items[k].active = rows[d[k]].active
    OBVIOUS
  <2>1. p.items[k] = [id |-> d[k], active |-> rows[d[k]].active]
    BY <1>4
  <2> QED
    BY <2>1
<1>13. \A i \in Shown(<<p>>) : \E k \in 1..n : d[k] = i
  BY <1>4, <1>11, <1>12, SinglePage
<1>14. \A k \in 1..n : d[k] \in Shown(<<p>>) /\ d[k] \in S /\ d[k] \in Nat
  BY <1>4, <1>9, <1>10, <1>11, <1>12, SinglePage
<1>15. Descends(<<p>>)
  <2>1. ASSUME NEW j \in 1..n, NEW k \in 1..n, j < k
        PROVE  p.items[j].id > p.items[k].id
    <3>1. j \in 1..Len(d) /\ k \in 1..Len(d)
      BY <1>9, <1>10
    <3>2. d[j] > d[k]
      BY <2>1, <3>1, <1>8
    <3> QED
      BY <3>2, <1>12
  <2> QED
    BY <2>1, <1>4, <1>11, SinglePage
<1>16. \A i \in Ids : Reach(<<p>>, i) <=> (limit < Len(d) => i >= d[limit])
  <2>1. limit < Len(d) => d[limit] \in Ids
    BY <1>9
  <2>2. \A i \in Ids : Reach(<<p>>, i) <=> p.next = None \/ i >= p.next
    BY <1>4, SinglePage DEF Reach
  <2> QED
    BY <2>1, <2>2, <1>4, NoneIsNothing
<1>17. ASSUME NEW i \in Shown(<<p>>) PROVE Reach(<<p>>, i)
  <2>1. PICK k \in 1..n : d[k] = i
    BY <1>13
  <2>2. i \in Ids
    BY <2>1, <1>9, <1>10
  <2>3. ASSUME limit < Len(d) PROVE d[k] >= d[limit]
    <3>1. k \in 1..Len(d) /\ limit \in 1..Len(d) /\ (k < limit \/ k = limit)
      BY <2>3, <1>9, <1>10
    <3>2. d[k] \in Nat /\ d[limit] \in Nat
      BY <3>1, <1>9
    <3>3. k < limit => d[k] > d[limit]
      BY <3>1, <1>8
    <3>4. k = limit => d[k] = d[limit]
      OBVIOUS
    <3> QED
      BY <3>1, <3>2, <3>3, <3>4
  <2> QED
    BY <2>1, <2>2, <2>3, <1>16
<1>18. ASSUME NEW i \in since, Below(i, cursor), Reach(<<p>>, i) PROVE i \in Shown(<<p>>)
  <2>1. i \in S /\ i \in Ids /\ i \in Nat
    BY <1>5, <1>7, <1>18
  <2>2. PICK k \in 1..Len(d) : d[k] = i
    BY <2>1, <1>8
  <2>3. k <= n
    <3>1. CASE limit < Len(d)
      <4>1. i >= d[limit] /\ limit \in 1..Len(d) /\ d[limit] \in Nat
        BY <3>1, <2>1, <1>9, <1>16, <1>18
      <4>2. limit < k => d[limit] > d[k]
        BY <4>1, <1>8
      <4> QED
        BY <3>1, <4>1, <4>2, <2>1, <2>2, <1>2, <1>9
    <3>2. CASE ~(limit < Len(d))
      BY <3>2, <1>2, <1>9
    <3> QED
      BY <3>1, <3>2
  <2>4. k \in 1..n
    BY <2>3, <1>9, <1>10
  <2> QED
    BY <2>2, <2>4, <1>14
<1>19. Gathered(<<p>>, {i \in since : Below(i, cursor)})
  BY <1>15, <1>17, <1>18 DEF Gathered
<1>20. \A i \in Shown(<<p>>) : Below(i, cursor)
  BY <1>6, <1>13, <1>14
<1>21. p.next # None => Below(p.next, cursor)
  <2>1. limit < Len(d) => d[limit] \in S
    BY <1>9
  <2> QED
    BY <2>1, <1>4, <1>6
<1>22. Heeds(<<p>>)
  BY <1>4, <1>11, <1>12, SinglePage
<1> QED
  BY <1>3, <1>4, <1>19, <1>20, <1>21, <1>22 DEF PageFrom

-----------------------------------------------------------------------------
(* Pages put together.                                                     *)

LEMMA NothingGathered ==
  ASSUME NEW since
  PROVE  Gathered(<<>>, since) /\ Heeds(<<>>)
<1>1. DOMAIN <<>> = {}
  OBVIOUS
<1> QED
  BY <1>1 DEF Gathered, Descends, Shown, Reach, Heeds

LEMMA GatheredForFewer ==
  ASSUME NEW pages, NEW since, NEW fewer \in SUBSET since, Gathered(pages, since)
  PROVE  Gathered(pages, fewer)
BY DEF Gathered

(* One more page.                                                          *)
LEMMA OneMorePage ==
  ASSUME NEW got \in Seq(Page), NEW page \in Page
  PROVE  /\ Append(got, page) \in Seq(Page) /\ Append(got, page) # <<>>
         /\ Last(Append(got, page)) = page
         /\ Len(got) \in Nat
         /\ DOMAIN got = 1..Len(got) /\ DOMAIN Append(got, page) = 1..(Len(got) + 1)
         /\ \A p \in 1..Len(got) : Append(got, page)[p] = got[p]
         /\ Append(got, page)[Len(got) + 1] = page
         /\ Shown(Append(got, page)) = Shown(got) \cup Shown(<<page>>)
<1> DEFINE all == Append(got, page)
           l == Len(got)
<1>1. /\ all \in Seq(Page) /\ all # <<>> /\ Len(all) = l + 1
      /\ \A p \in 1..l : all[p] = got[p]
      /\ all[l + 1] = page
  BY AppendProperties
<1>2. l \in Nat /\ DOMAIN got = 1..l /\ DOMAIN all = 1..(l + 1)
  BY <1>1, LenProperties
<1>3. Last(all) = page
  BY <1>1 DEF Last
<1>4. \A p : p \in 1..(l + 1) <=> p \in 1..l \/ p = l + 1
  BY <1>2
<1> HIDE DEF all, l
<1>5. Shown(<<page>>) = {i \in Ids : \E k \in DOMAIN page.items : page.items[k].id = i}
  BY SinglePage
<1>6. Shown(all) = Shown(got) \cup Shown(<<page>>)
  <2>1. ASSUME NEW i \in Ids
        PROVE  (\E p \in 1..(l + 1) : \E k \in DOMAIN all[p].items : all[p].items[k].id = i)
               <=> \/ \E p \in 1..l : \E k \in DOMAIN got[p].items : got[p].items[k].id = i
                   \/ \E k \in DOMAIN page.items : page.items[k].id = i
    BY <1>1, <1>4
  <2> QED
    BY <2>1, <1>2, <1>5 DEF Shown
<1> QED
  BY <1>1, <1>2, <1>3, <1>6 DEF all, l

LEMMA ItemsAreShown ==
  ASSUME NEW pages \in Seq(Page), NEW p \in DOMAIN pages, NEW k \in DOMAIN pages[p].items
  PROVE  pages[p].items[k].id \in Shown(pages) /\ pages[p].items[k].id \in Nat
<1>1. pages[p] \in Page
  BY LenProperties, ElementOfSeq
<1>2. pages[p].items[k] \in Item
  BY <1>1, SinglePage
<1>3. pages[p].items[k].id \in Ids
  BY <1>2 DEF Item
<1> QED
  BY <1>3, IdsAreNumbers DEF Shown

(* What the pages had shown is not below their cursor; the new page is.    *)
LEMMA GathersOneMore ==
  ASSUME NEW got \in Seq(Page), NEW page \in Page,
         NEW cursor \in Ids \cup {None}, NEW since \in SUBSET Ids,
         Gathered(got, since),
         cursor = (IF got = <<>> THEN None ELSE Last(got).next),
         got # <<>> => cursor # None,
         PageFrom(cursor, page, since)
  PROVE  Gathered(Append(got, page), since)
<1> DEFINE all == Append(got, page)
           l == Len(got)
<1>1. /\ all \in Seq(Page) /\ all # <<>> /\ Last(all) = page
      /\ l \in Nat /\ DOMAIN got = 1..l /\ DOMAIN all = 1..(l + 1)
      /\ \A p \in 1..l : all[p] = got[p]
      /\ all[l + 1] = page
      /\ Shown(all) = Shown(got) \cup Shown(<<page>>)
  BY OneMorePage
<1> HIDE DEF all, l
<1>2. /\ \A i \in Shown(got) : i \in Nat
      /\ \A i \in Shown(<<page>>) : i \in Nat
      /\ \A i \in since : i \in Nat
      /\ cursor # None => cursor \in Nat
      /\ page.next # None => page.next \in Nat
  <2>1. page.next \in Ids \cup {None}
    BY DEF Page
  <2> QED
    BY <2>1, IdsAreNumbers DEF Shown
<1>3. \A i : Reach(all, i) <=> page.next = None \/ i >= page.next
  BY <1>1 DEF Reach
<1>4. \A i : Reach(<<page>>, i) <=> page.next = None \/ i >= page.next
  BY SinglePage DEF Reach
<1>5. ASSUME NEW i \in Shown(got) PROVE cursor # None /\ i >= cursor
  <2>1. Reach(got, i)
    BY DEF Gathered
  <2> QED
    BY <2>1 DEF Reach
<1>6. \A i \in Shown(<<page>>) : Below(i, cursor)
  BY DEF PageFrom
<1>7. Gathered(<<page>>, {i \in since : Below(i, cursor)})
  BY DEF PageFrom
<1>8. Descends(all)
  <2> SUFFICES ASSUME NEW p \in 1..(l + 1), NEW q \in 1..(l + 1),
                      NEW j \in DOMAIN all[p].items, NEW k \in DOMAIN all[q].items,
                      p < q \/ (p = q /\ j < k)
               PROVE  all[p].items[j].id > all[q].items[k].id
    BY <1>1 DEF Descends
  <2>1. CASE q \in 1..l
    <3>1. p \in 1..l
      BY <2>1, <1>1
    <3>2. Descends(got)
      BY DEF Gathered
    <3> QED
      BY <2>1, <3>1, <3>2, <1>1 DEF Descends
  <2>2. CASE q = l + 1 /\ p = l + 1
    <3>1. Descends(<<page>>) /\ j < k
      BY <2>2, <1>1, <1>7 DEF Gathered
    <3>2. page.items[j].id > page.items[k].id
      BY <2>2, <3>1, <1>1, SinglePage
    <3> QED
      BY <2>2, <3>2, <1>1
  <2>3. CASE q = l + 1 /\ p \in 1..l
    <3>1. all[p].items[j].id \in Shown(got)
      BY <2>3, <1>1, ItemsAreShown
    <3>2. all[q].items[k].id \in Shown(<<page>>)
      <4>1. k \in DOMAIN page.items /\ page.items[k] \in Item
        BY <2>3, <1>1, SinglePage
      <4>2. page.items[k].id \in Ids
        BY <4>1 DEF Item
      <4> QED
        BY <2>3, <4>1, <4>2, <1>1, SinglePage
    <3> QED
      BY <3>1, <3>2, <1>2, <1>5, <1>6 DEF Below
  <2> QED
    BY <2>1, <2>2, <2>3, <1>1
<1>9. ASSUME NEW i \in Shown(all) PROVE Reach(all, i)
  <2>1. CASE i \in Shown(<<page>>)
    <3>1. Reach(<<page>>, i)
      BY <2>1, <1>7, SinglePage DEF Gathered
    <3> QED
      BY <3>1, <1>3, <1>4
  <2>2. CASE i \in Shown(got)
    <3>1. cursor # None /\ i >= cursor
      BY <2>2, <1>5
    <3>2. page.next # None => page.next < cursor
      BY <3>1 DEF PageFrom, Below
    <3> QED
      BY <2>2, <3>1, <3>2, <1>2, <1>3
  <2> QED
    BY <2>1, <2>2, <1>1
<1>10. ASSUME NEW i \in since, Reach(all, i) PROVE i \in Shown(all)
  <2>1. CASE Below(i, cursor)
    <3>1. Reach(<<page>>, i)
      BY <1>3, <1>4, <1>10
    <3> QED
      BY <2>1, <3>1, <1>1, <1>7 DEF Gathered
  <2>2. CASE ~Below(i, cursor)
    <3>1. cursor # None /\ i >= cursor
      BY <2>2, <1>2 DEF Below
    <3>2. got # <<>> /\ cursor = Last(got).next
      BY <3>1
    <3>3. Reach(got, i)
      BY <3>1, <3>2 DEF Reach
    <3> QED
      BY <3>3, <1>1 DEF Gathered
  <2> QED
    BY <2>1, <2>2
<1> QED
  BY <1>1, <1>8, <1>9, <1>10 DEF Gathered, all

LEMMA HeedsOneMore ==
  ASSUME NEW got \in Seq(Page), NEW page \in Page, Heeds(got), Heeds(<<page>>)
  PROVE  Heeds(Append(got, page))
<1> DEFINE all == Append(got, page)
           l == Len(got)
<1>1. /\ l \in Nat /\ DOMAIN got = 1..l /\ DOMAIN all = 1..(l + 1)
      /\ \A p \in 1..l : all[p] = got[p]
      /\ all[l + 1] = page
  BY OneMorePage
<1>2. \A p \in 1..(l + 1) : p \in 1..l \/ p = l + 1
  BY <1>1
<1> HIDE DEF all, l
<1>3. ASSUME NEW p \in 1..(l + 1), NEW k \in DOMAIN all[p].items,
             all[p].items[k].id \in confirmed
      PROVE  ~all[p].items[k].active
  <2>1. CASE p \in 1..l
    BY <2>1, <1>1, <1>3 DEF Heeds
  <2>2. CASE p = l + 1
    BY <2>2, <1>1, <1>3, SinglePage
  <2> QED
    BY <2>1, <2>2, <1>2
<1> QED
  BY <1>1, <1>3 DEF Heeds, all

-----------------------------------------------------------------------------
(* Loads.                                                                  *)

LEMMA LoadAllTyped ==
  ASSUME NEW limit \in Nat \ {0}, NEW pages \in Seq(Page)
  PROVE  LoadAll(limit, pages) \in Load /\ LoadAll(limit, pages) # None
<1>1. (IF pages = <<>> THEN 1 ELSE Len(pages)) \in Nat
  BY LenProperties
<1>2. <<>> \in Seq(Page)
  BY EmptySeq
<1>3. LoadAll(limit, pages) \in Load
  BY <1>1, <1>2 DEF LoadAll, Load
<1> QED
  BY <1>3, NoneIsNothing

LEMMA LimitsArePositive ==
  ASSUME NEW s, Shows(s)
  PROVE  Limits[s] \in Nat \ {0}
BY TwoPages DEF Shows

LEMMA LastPage ==
  ASSUME NEW pages \in Seq(Page), pages # <<>>
  PROVE  Last(pages) \in Page /\ Last(pages).next \in Ids \cup {None}
<1>1. Len(pages) \in 1..Len(pages)
  <2>1. Len(pages) \in Nat \ {0}
    BY EmptySeq
  <2> QED
    BY <2>1
<1>2. Last(pages) \in Page
  BY <1>1, ElementOfSeq DEF Last
<1> QED
  BY <1>2 DEF Page

LEMMA LoadNextTyped ==
  ASSUME NEW limit \in Nat \ {0}, NEW data \in Data, data.pages # <<>>
  PROVE  LoadNext(limit, data) \in Load /\ LoadNext(limit, data) # None
<1>1. /\ data.pages \in Seq(Page) /\ data.since \in SUBSET Ids /\ data.outrun \in BOOLEAN
  BY DEF Data
<1>2. Last(data.pages).next \in Ids \cup {None}
  BY <1>1, LastPage
<1>3. (data.outrun \/ fetch # None) \in BOOLEAN
  BY <1>1
<1>4. LoadNext(limit, data) \in Load
  BY <1>1, <1>2, <1>3 DEF LoadNext, Load
<1> QED
  BY <1>4, NoneIsNothing

(* A load that answers, and one that goes on.                              *)
LEMMA ServedTyped ==
  ASSUME NEW f \in Load, NEW page \in Page, NEW since \in SUBSET Ids
  PROVE  [f EXCEPT !.answer = page, !.since = since] \in Load
BY DEF Load

LEMMA GoesOnTyped ==
  ASSUME NEW f \in Load, NEW page \in Page, f.todo > 1, page.next # None
  PROVE  [f EXCEPT !.todo = @ - 1, !.got = Append(f.got, page),
                   !.cursor = page.next, !.answer = None] \in Load
<1>1. f.todo \in Nat /\ f.got \in Seq(Page)
  BY DEF Load
<1>2. f.todo - 1 \in Nat
  BY <1>1
<1>3. Append(f.got, page) \in Seq(Page)
  BY <1>1, AppendProperties
<1>4. page.next \in Ids \cup {None}
  BY DEF Page
<1> QED
  BY <1>2, <1>3, <1>4 DEF Load

LEMMA OutrunTyped ==
  ASSUME NEW f \in Load
  PROVE  [f EXCEPT !.outrun = TRUE] \in Load
BY DEF Load

-----------------------------------------------------------------------------
(* Types.                                                                  *)

(* What a load under way is.                                               *)
LEMMA LoadParts ==
  ASSUME TypeOK, fetch # None
  PROVE  /\ fetch \in Load /\ fetch.got \in Seq(Page) /\ fetch.limit \in Nat \ {0}
         /\ fetch.cursor \in Ids \cup {None} /\ fetch.since \in SUBSET Ids
         /\ fetch.outrun \in BOOLEAN /\ fetch.answer \in {None} \cup Page
<1>1. fetch \in Load
  BY DEF TypeOK
<1> QED
  BY <1>1 DEF Load

(* What ServePage answers.                                                 *)
LEMMA ServedPage ==
  ASSUME TypeOK, fetch # None, \A i \in confirmed : ~rows[i].active,
         NEW since \in SUBSET Owned(user)
  PROVE  /\ ListUrls(user, fetch.cursor, fetch.limit) \in Page
         /\ PageFrom(fetch.cursor, ListUrls(user, fetch.cursor, fetch.limit), since)
         /\ Heeds(<<ListUrls(user, fetch.cursor, fetch.limit)>>)
<1>1. rows \in [Ids -> [owner : Users \cup {None}, active : BOOLEAN]]
  BY DEF TypeOK
<1> QED
  BY <1>1, LoadParts, PageReadIsSound

(* The two ends of HearPage: the load goes on, or the data is replaced.     *)
GoesOn ==
  /\ fetch.todo > 1 /\ fetch.answer.next # None
  /\ fetch' = [fetch EXCEPT !.todo = @ - 1, !.got = Append(fetch.got, fetch.answer),
                            !.cursor = fetch.answer.next, !.answer = None]
  /\ cache' = cache
Completes ==
  /\ fetch' = None
  /\ cache' = [pages |-> Append(fetch.got, fetch.answer), since |-> fetch.since,
               outrun |-> fetch.outrun, failed |-> FALSE]

LEMMA HeardPage ==
  ASSUME TypeOK, HearPage
  PROVE  /\ fetch # None /\ fetch.answer # None /\ fetch.answer \in Page
         /\ UNCHANGED <<rows, user, screen, delete, confirmed>>
         /\ GoesOn \/ Completes
<1>1. /\ fetch # None /\ fetch.answer # None
      /\ UNCHANGED <<rows, user, screen, delete, confirmed>>
  BY DEF HearPage
<1>2. fetch.answer \in Page
  BY <1>1, LoadParts
<1>3. CASE fetch.todo > 1 /\ fetch.answer.next # None
  <2>1. GoesOn
    BY <1>3, Zenon DEF HearPage, GoesOn
  <2> QED
    BY <1>1, <1>2, <2>1
<1>4. CASE ~(fetch.todo > 1 /\ fetch.answer.next # None)
  <2>1. Completes
    BY <1>4, Zenon DEF HearPage, Completes
  <2> QED
    BY <1>1, <1>2, <2>1
<1> QED
  BY <1>3, <1>4

LEMMA TypeInit == Init => TypeOK
<1> SUFFICES ASSUME Init PROVE TypeOK
  OBVIOUS
<1>1. rows \in [Ids -> [owner : Users \cup {None}, active : BOOLEAN]]
  BY DEF Init
<1>2. NoData \in Data
  <2>1. <<>> \in Seq(Page)
    BY EmptySeq
  <2> QED
    BY <2>1 DEF NoData, Data
<1> QED
  BY <1>1, <1>2 DEF Init, TypeOK

LEMMA TypeNext == TypeOK /\ LoadHeeds /\ [Next]_vars => TypeOK'
<1> SUFFICES ASSUME TypeOK, LoadHeeds, [Next]_vars PROVE TypeOK'
  OBVIOUS
<1> USE DEF TypeOK
<1>1. CASE LinkAppears
  <2>1. PICK i \in Ids, u \in Users : rows' = [rows EXCEPT ![i].owner = u]
    BY <1>1 DEF LinkAppears
  <2>2. rows' \in [Ids -> [owner : Users \cup {None}, active : BOOLEAN]]
    BY <2>1
  <2> QED
    BY <1>1, <2>2 DEF LinkAppears
<1>2. CASE ServePage
  <2> DEFINE page == ListUrls(user, fetch.cursor, fetch.limit)
             since == IF fetch.got = <<>> THEN Owned(user) ELSE fetch.since \cap Owned(user)
  <2>1. fetch # None /\ fetch \in Load /\ fetch.since \in SUBSET Ids
    BY <1>2, LoadParts DEF ServePage
  <2>2. since \in SUBSET Ids
    BY <2>1 DEF Owned
  <2>3. page \in Page
    <3>1. {} \in SUBSET Owned(user)
      OBVIOUS
    <3> QED
      BY <2>1, <3>1, ServedPage DEF LoadHeeds
  <2>4. fetch' = [fetch EXCEPT !.answer = page, !.since = since]
    BY <1>2 DEF ServePage
  <2> HIDE DEF page, since
  <2>5. fetch' \in Load
    BY <2>1, <2>2, <2>3, <2>4, ServedTyped
  <2> QED
    BY <1>2, <2>5 DEF ServePage
<1>3. CASE ServeDelete
  <2>1. delete.at = "sent" /\ delete # NoDelete
    BY <1>3 DEF ServeDelete, NoDelete
  <2>2. delete \in [at : {"sent", "ok"}, id : Ids]
    BY <2>1
  <2>3. rows' \in [Ids -> [owner : Users \cup {None}, active : BOOLEAN]]
    BY <1>3, <2>2 DEF ServeDelete
  <2>4. delete' \in [at : {"sent", "ok"}, id : Ids]
    BY <1>3, <2>2 DEF ServeDelete
  <2> QED
    BY <1>3, <2>3, <2>4 DEF ServeDelete
<1>4. CASE SignIn
  BY <1>4 DEF SignIn
<1>5. CASE SignOut
  BY <1>5 DEF SignOut
<1>6. CASE Navigate
  <2>1. cache.pages \in Seq(Page)
    BY DEF Data
  <2>2. fetch' \in {None} \cup Load
    <3>1. CASE Shows(screen')
      <4>1. Limits[screen'] \in Nat \ {0}
        BY <3>1, LimitsArePositive
      <4> QED
        BY <1>6, <2>1, <3>1, <4>1, LoadAllTyped DEF Navigate
    <3> QED
      BY <1>6, <3>1 DEF Navigate
  <2> QED
    BY <1>6, <2>2 DEF Navigate
<1>7. CASE CacheExpires
  <2>1. NoData \in Data
    <3>1. <<>> \in Seq(Page)
      BY EmptySeq
    <3> QED
      BY <3>1 DEF NoData, Data
  <2> QED
    BY <1>7, <2>1 DEF CacheExpires
<1>8. CASE Refetch
  <2>1. cache.pages \in Seq(Page) /\ Limits[screen] \in Nat \ {0}
    BY <1>8, LimitsArePositive DEF Data, Refetch
  <2>2. fetch' \in Load
    BY <1>8, <2>1, LoadAllTyped DEF Refetch
  <2> QED
    BY <1>8, <2>2 DEF Refetch
<1>9. CASE LoadMore
  <2>1. Limits[screen] \in Nat \ {0} /\ cache.pages # <<>>
    BY <1>9, TwoPages DEF LoadMore
  <2>2. fetch' \in Load
    BY <1>9, <2>1, LoadNextTyped DEF LoadMore
  <2> QED
    BY <1>9, <2>2 DEF LoadMore
<1>10. CASE HearPage
  <2>1. /\ fetch \in Load /\ fetch.answer \in Page
        /\ fetch.got \in Seq(Page) /\ fetch.since \in SUBSET Ids /\ fetch.outrun \in BOOLEAN
    BY <1>10, HeardPage, LoadParts
  <2>2. Append(fetch.got, fetch.answer) \in Seq(Page)
    BY <2>1, AppendProperties
  <2>3. fetch' \in {None} \cup Load /\ cache' \in Data
    <3>1. CASE GoesOn
      <4>1. fetch.todo > 1 /\ fetch.answer.next # None
        BY <3>1 DEF GoesOn
      <4>2. fetch' \in Load
        BY <2>1, <3>1, <4>1, GoesOnTyped DEF GoesOn
      <4> QED
        BY <3>1, <4>2 DEF GoesOn
    <3>2. CASE Completes
      BY <2>1, <2>2, <3>2 DEF Completes, Data
    <3> QED
      BY <1>10, <3>1, <3>2, HeardPage
  <2> QED
    BY <1>10, <2>3, HeardPage
<1>11. CASE LoadFails
  <2>1. cache' \in Data
    BY <1>11 DEF LoadFails, Data
  <2> QED
    BY <1>11, <2>1 DEF LoadFails
<1>12. CASE Deactivate
  BY <1>12 DEF Deactivate, Owned
<1>13. CASE DeleteFails
  BY <1>13 DEF DeleteFails
<1>14. CASE HearDeleted
  <2>1. delete # NoDelete
    BY <1>14 DEF HearDeleted, NoDelete
  <2>2. delete.id \in Ids
    BY <2>1
  <2>3. Invalidated \in {None} \cup Load
    <3>1. CASE ~Shows(screen)
      BY <3>1 DEF Invalidated
    <3>2. CASE Shows(screen) /\ fetch # None /\ cache.pages = <<>>
      BY <3>2, OutrunTyped, LoadParts DEF Invalidated
    <3>3. CASE Shows(screen) /\ ~(fetch # None /\ cache.pages = <<>>)
      <4>1. cache.pages \in Seq(Page) /\ Limits[screen] \in Nat \ {0}
        BY <3>3, LimitsArePositive DEF Data
      <4> QED
        BY <3>3, <4>1, LoadAllTyped DEF Invalidated
    <3> QED
      BY <3>1, <3>2, <3>3
  <2> QED
    BY <1>14, <2>2, <2>3 DEF HearDeleted
<1>15. CASE UNCHANGED vars
  BY <1>15 DEF vars
<1> QED
  BY <1>1, <1>2, <1>3, <1>4, <1>5, <1>6, <1>7, <1>8, <1>9, <1>10, <1>11, <1>12, <1>13,
     <1>14, <1>15 DEF Next

-----------------------------------------------------------------------------
(* The pages make up one list.                                             *)

LoadSound(load) ==
  /\ Gathered(load.got, load.since)
  /\ load.cursor = IF load.got = <<>> THEN None ELSE Last(load.got).next
  /\ load.got # <<>> => load.cursor # None
  /\ load.answer # None => PageFrom(load.cursor, load.answer, load.since)

LEMMA LoadAllSound ==
  ASSUME NEW limit, NEW pages
  PROVE  LoadSound(LoadAll(limit, pages))
BY NothingGathered DEF LoadAll, LoadSound

LEMMA LoadNextSound ==
  ASSUME NEW limit, NEW data \in Data, data.pages # <<>>, Last(data.pages).next # None,
         Gathered(data.pages, data.since)
  PROVE  LoadSound(LoadNext(limit, data))
BY DEF LoadNext, LoadSound

LEMMA ServedSound ==
  ASSUME NEW f \in Load, NEW page, NEW since, LoadSound(f), f.answer = None,
         f.got # <<>> => since \subseteq f.since,
         PageFrom(f.cursor, page, since)
  PROVE  LoadSound([f EXCEPT !.answer = page, !.since = since])
<1> DEFINE g == [f EXCEPT !.answer = page, !.since = since]
<1>1. g.got = f.got /\ g.cursor = f.cursor /\ g.answer = page /\ g.since = since
  BY DEF Load
<1>2. Gathered(f.got, since)
  <2>1. CASE f.got = <<>>
    BY <2>1, NothingGathered
  <2>2. CASE f.got # <<>>
    BY <2>2, GatheredForFewer DEF LoadSound
  <2> QED
    BY <2>1, <2>2
<1> HIDE DEF g
<1>3. LoadSound(g)
  BY <1>1, <1>2 DEF LoadSound
<1> QED
  BY <1>3 DEF g

LEMMA OutrunSound ==
  ASSUME NEW f \in Load, LoadSound(f)
  PROVE  LoadSound([f EXCEPT !.outrun = TRUE])
BY DEF Load, LoadSound

LEMMA GatherParts == LoadGathers <=> (fetch # None => LoadSound(fetch))
BY DEF LoadGathers, LoadSound

LEMMA GatherNextParts == LoadGathers' <=> (fetch' # None => LoadSound(fetch'))
BY DEF LoadGathers, LoadSound

LEMMA GatherNext ==
  TypeOK /\ LoadHeeds /\ Gathered(cache.pages, cache.since) /\ LoadGathers /\ [Next]_vars
  => Gathered(cache'.pages, cache'.since) /\ LoadGathers'
<1> SUFFICES ASSUME TypeOK, LoadHeeds, Gathered(cache.pages, cache.since), LoadGathers,
                    [Next]_vars
             PROVE  /\ Gathered(cache'.pages, cache'.since)
                    /\ fetch' # None => LoadSound(fetch')
  BY GatherNextParts
<1>f. fetch # None => LoadSound(fetch)
  BY GatherParts
<1>1. CASE cache' = cache /\ fetch' = fetch
  BY <1>1, <1>f
<1>2. CASE ServePage
  <2> DEFINE page == ListUrls(user, fetch.cursor, fetch.limit)
             since == IF fetch.got = <<>> THEN Owned(user) ELSE fetch.since \cap Owned(user)
  <2>1. fetch # None /\ fetch \in Load /\ fetch.answer = None
    BY <1>2, LoadParts DEF ServePage
  <2>2. since \in SUBSET Owned(user) /\ (fetch.got # <<>> => since \subseteq fetch.since)
    OBVIOUS
  <2>3. fetch' = [fetch EXCEPT !.answer = page, !.since = since] /\ cache' = cache
    BY <1>2 DEF ServePage
  <2> HIDE DEF since
  <2>4. PageFrom(fetch.cursor, page, since)
    BY <2>1, <2>2, ServedPage DEF LoadHeeds
  <2> HIDE DEF page
  <2>5. LoadSound(fetch')
    BY <1>f, <2>1, <2>2, <2>3, <2>4, ServedSound
  <2> QED
    BY <2>3, <2>5
<1>3. CASE SignOut
  BY <1>3 DEF SignOut
<1>4. CASE Navigate
  BY <1>4, LoadAllSound DEF Navigate
<1>5. CASE CacheExpires
  BY <1>5, <1>f, NothingGathered DEF CacheExpires, NoData
<1>6. CASE Refetch
  BY <1>6, LoadAllSound DEF Refetch
<1>7. CASE LoadMore
  <2>1. cache \in Data
    BY DEF TypeOK
  <2> QED
    BY <1>7, <2>1, LoadNextSound DEF LoadMore
<1>8. CASE HearPage
  <2>1. /\ fetch # None /\ fetch.answer # None /\ fetch.answer \in Page
        /\ GoesOn \/ Completes
    BY <1>8, HeardPage
  <2>2. fetch \in Load /\ fetch.got \in Seq(Page)
        /\ fetch.cursor \in Ids \cup {None} /\ fetch.since \in SUBSET Ids
    BY <2>1, LoadParts
  <2> DEFINE all == Append(fetch.got, fetch.answer)
  <2>3. Gathered(all, fetch.since)
    BY <1>f, <2>1, <2>2, GathersOneMore DEF LoadSound
  <2>4. all # <<>> /\ Last(all) = fetch.answer
    BY <2>1, <2>2, OneMorePage
  <2> HIDE DEF all
  <2>5. CASE GoesOn
    <3>1. /\ fetch'.got = all /\ fetch'.cursor = fetch.answer.next
          /\ fetch'.answer = None /\ fetch'.since = fetch.since
      BY <2>2, <2>5 DEF GoesOn, Load, all
    <3>2. LoadSound(fetch')
      BY <2>3, <2>4, <2>5, <3>1 DEF LoadSound, GoesOn
    <3> QED
      BY <2>5, <3>2 DEF GoesOn
  <2>6. CASE Completes
    <3>1. cache'.pages = all /\ cache'.since = fetch.since /\ fetch' = None
      BY <2>6 DEF Completes, all
    <3> QED
      BY <2>3, <3>1
  <2> QED
    BY <2>1, <2>5, <2>6
<1>9. CASE LoadFails
  <2>1. cache'.pages = cache.pages /\ cache'.since = cache.since /\ fetch' = None
    BY <1>9 DEF LoadFails, TypeOK, Data
  <2> QED
    BY <2>1
<1>10. CASE HearDeleted
  <2>1. Invalidated # None => LoadSound(Invalidated)
    <3>1. CASE fetch # None
      BY <1>f, <3>1, LoadAllSound, OutrunSound, LoadParts DEF Invalidated
    <3>2. CASE fetch = None
      BY <3>2, LoadAllSound DEF Invalidated
    <3> QED
      BY <3>1, <3>2
  <2> QED
    BY <1>10, <2>1 DEF HearDeleted
<1>11. CASE LinkAppears \/ ServeDelete \/ SignIn \/ Deactivate \/ DeleteFails \/ UNCHANGED vars
  BY <1>1, <1>11 DEF LinkAppears, ServeDelete, SignIn, Deactivate, DeleteFails, vars
<1> QED
  BY <1>2, <1>3, <1>4, <1>5, <1>6, <1>7, <1>8, <1>9, <1>10, <1>11 DEF Next

-----------------------------------------------------------------------------
(* Deactivations.                                                          *)

HeedsOf(told, pages) ==
  \A p \in DOMAIN pages : \A k \in DOMAIN pages[p].items :
    pages[p].items[k].id \in told => ~pages[p].items[k].active

(* What a load under way has read, when these links are told.              *)
LoadHeedsOf(told, load) ==
  load # None /\ ~load.outrun =>
    HeedsOf(told, load.got) /\ (load.answer # None => HeedsOf(told, <<load.answer>>))

LEMMA HeedParts ==
  /\ \A pages : Heeds(pages) <=> HeedsOf(confirmed, pages)
  /\ LoadHeeds <=> /\ \A i \in confirmed : ~rows[i].active
                   /\ delete.at = "ok" => ~rows[delete.id].active
                   /\ ~Shows(screen) => fetch = None
                   /\ LoadHeedsOf(confirmed, fetch)
BY DEF LoadHeeds, LoadHeedsOf, Heeds, HeedsOf

LEMMA HeedNextParts ==
  /\ LoadHeeds' <=> /\ \A i \in confirmed' : ~rows'[i].active
                    /\ delete'.at = "ok" => ~rows'[delete'.id].active
                    /\ ~Shows(screen') => fetch' = None
                    /\ LoadHeedsOf(confirmed', fetch')
  /\ DeactivationShown' <=>
       (Shows(screen') /\ fetch' = None /\ ~cache'.failed /\ ~cache'.outrun
        => HeedsOf(confirmed', cache'.pages))
BY DEF LoadHeeds, LoadHeedsOf, Heeds, HeedsOf, DeactivationShown, Shows

LEMMA LoadAllHeeds ==
  ASSUME NEW told, NEW limit, NEW pages
  PROVE  LoadHeedsOf(told, LoadAll(limit, pages))
<1>1. HeedsOf(told, <<>>)
  <2>1. DOMAIN <<>> = {}
    OBVIOUS
  <2> QED
    BY <2>1 DEF HeedsOf
<1> QED
  BY <1>1 DEF LoadAll, LoadHeedsOf

(* Told links stay inactive: no action activates a row.                    *)
LEMMA RowsStayInactive ==
  ASSUME TypeOK, LoadHeeds, [Next]_vars
  PROVE  /\ \A i \in confirmed' : ~rows'[i].active
         /\ delete'.at = "ok" => ~rows'[delete'.id].active
<1> USE DEF TypeOK, LoadHeeds
<1>1. CASE LinkAppears
  <2>1. PICK i \in Ids, u \in Users : rows' = [rows EXCEPT ![i].owner = u]
    BY <1>1 DEF LinkAppears
  <2>2. \A j \in Ids : rows'[j].active = rows[j].active
    BY <2>1
  <2>3. delete.at = "ok" => delete.id \in Ids
    BY DEF NoDelete
  <2> QED
    BY <1>1, <2>2, <2>3 DEF LinkAppears
<1>2. CASE ServeDelete
  <2>1. delete \in [at : {"sent", "ok"}, id : Ids]
    BY <1>2 DEF ServeDelete, NoDelete
  <2>2. delete.id \in Ids /\ delete'.id = delete.id
    BY <1>2, <2>1 DEF ServeDelete
  <2>3. \A j \in Ids : rows'[j].active = IF j = delete.id THEN FALSE ELSE rows[j].active
    BY <1>2, <2>2 DEF ServeDelete
  <2> QED
    BY <1>2, <2>2, <2>3 DEF ServeDelete
<1>3. CASE Deactivate
  BY <1>3 DEF Deactivate
<1>4. CASE DeleteFails
  BY <1>4 DEF DeleteFails, NoDelete
<1>5. CASE HearDeleted
  BY <1>5 DEF HearDeleted, NoDelete
<1>6. CASE UNCHANGED <<rows, delete, confirmed>>
  BY <1>6
<1>7. CASE \/ ServePage \/ SignIn \/ SignOut \/ Navigate \/ CacheExpires \/ Refetch
           \/ LoadMore \/ HearPage \/ LoadFails \/ UNCHANGED vars
  BY <1>6, <1>7 DEF ServePage, SignIn, SignOut, Navigate, CacheExpires, Refetch, LoadMore,
                    HearPage, LoadFails, vars
<1> QED
  BY <1>1, <1>2, <1>3, <1>4, <1>5, <1>7 DEF Next

LEMMA HeedNext ==
  TypeOK /\ LoadHeeds /\ DeactivationShown /\ [Next]_vars => LoadHeeds' /\ DeactivationShown'
<1> SUFFICES ASSUME TypeOK, LoadHeeds, DeactivationShown, [Next]_vars
             PROVE  /\ ~Shows(screen') => fetch' = None
                    /\ LoadHeedsOf(confirmed', fetch')
                    /\ Shows(screen') /\ fetch' = None /\ ~cache'.failed /\ ~cache'.outrun
                       => HeedsOf(confirmed', cache'.pages)
  BY RowsStayInactive, HeedNextParts
<1>f. /\ ~Shows(screen) => fetch = None
      /\ LoadHeedsOf(confirmed, fetch)
      /\ Shows(screen) /\ fetch = None /\ ~cache.failed /\ ~cache.outrun
         => HeedsOf(confirmed, cache.pages)
  BY HeedParts DEF DeactivationShown
<1>1. CASE UNCHANGED <<screen, cache, fetch, confirmed>>
  BY <1>1, <1>f
<1>2. CASE ServePage
  <2> DEFINE page == ListUrls(user, fetch.cursor, fetch.limit)
  <2>1. /\ fetch # None /\ fetch \in Load
        /\ UNCHANGED <<screen, cache, confirmed>>
    BY <1>2, LoadParts DEF ServePage
  <2>2. page \in Page /\ HeedsOf(confirmed, <<page>>)
    <3>1. {} \in SUBSET Owned(user)
      OBVIOUS
    <3> QED
      BY <2>1, <3>1, ServedPage, HeedParts DEF LoadHeeds
  <2> HIDE DEF page
  <2>3. fetch'.got = fetch.got /\ fetch'.outrun = fetch.outrun /\ fetch'.answer = page
    BY <1>2, <2>1 DEF ServePage, Load, page
  <2>4. fetch' # None
    <3> DEFINE since == IF fetch.got = <<>> THEN Owned(user) ELSE fetch.since \cap Owned(user)
    <3>1. fetch' = [fetch EXCEPT !.answer = page, !.since = since]
      BY <1>2 DEF ServePage, page
    <3>2. since \in SUBSET Ids
      BY <2>1, LoadParts DEF Owned
    <3> HIDE DEF since
    <3>3. fetch' \in Load
      BY <2>1, <2>2, <3>1, <3>2, ServedTyped
    <3> QED
      BY <3>3, NoneIsNothing
  <2>5. Shows(screen)
    BY <1>f, <2>1
  <2> QED
    BY <1>f, <2>1, <2>2, <2>3, <2>4, <2>5 DEF LoadHeedsOf
<1>3. CASE SignOut
  BY <1>3, TwoPages DEF SignOut, LoadHeedsOf, Shows
<1>4. CASE Navigate
  <2>1. CASE Shows(screen')
    <3>1. fetch' # None
      BY <1>4, <2>1, LoadAllTyped, LimitsArePositive DEF Navigate, TypeOK, Data
    <3> QED
      BY <1>4, <2>1, <3>1, LoadAllHeeds DEF Navigate
  <2>2. CASE ~Shows(screen')
    BY <1>4, <2>2 DEF Navigate, LoadHeedsOf
  <2> QED
    BY <2>1, <2>2
<1>5. CASE CacheExpires
  BY <1>5, <1>f DEF CacheExpires
<1>6. CASE Refetch
  <2>1. fetch' # None
    BY <1>6, LoadAllTyped, LimitsArePositive DEF Refetch, TypeOK, Data
  <2> QED
    BY <1>6, <2>1, LoadAllHeeds DEF Refetch
<1>7. CASE LoadMore
  <2>1. /\ screen = "list" /\ ~cache.failed /\ cache.pages # <<>> /\ cache \in Data
        /\ UNCHANGED <<screen, cache, confirmed>> /\ fetch' = LoadNext(Limits[screen], cache)
    BY <1>7 DEF LoadMore, TypeOK
  <2>2. Shows(screen) /\ Limits[screen] \in Nat \ {0}
    BY <2>1, TwoPages DEF Shows
  <2>3. fetch' # None
    BY <2>1, <2>2, LoadNextTyped
  <2>4. /\ fetch'.got = cache.pages /\ fetch'.answer = None
        /\ fetch'.outrun <=> cache.outrun \/ fetch # None
    BY <2>1 DEF LoadNext
  <2> QED
    BY <1>f, <2>1, <2>2, <2>3, <2>4 DEF LoadHeedsOf
<1>8. CASE HearPage
  <2>1. /\ fetch # None /\ fetch.answer # None /\ fetch.answer \in Page
        /\ UNCHANGED <<screen, confirmed>>
        /\ GoesOn \/ Completes
    BY <1>8, HeardPage
  <2>2. fetch \in Load /\ fetch.got \in Seq(Page)
    BY <2>1, LoadParts
  <2>3. ~fetch.outrun => HeedsOf(confirmed, Append(fetch.got, fetch.answer))
    <3>1. ~fetch.outrun => Heeds(fetch.got) /\ Heeds(<<fetch.answer>>)
      BY <2>1 DEF LoadHeeds
    <3> QED
      BY <2>1, <2>2, <3>1, HeedsOneMore, HeedParts
  <2>4. Shows(screen)
    BY <1>f, <2>1
  <2>5. CASE GoesOn
    <3>1. /\ fetch'.got = Append(fetch.got, fetch.answer) /\ fetch'.answer = None
          /\ fetch'.outrun = fetch.outrun
      BY <2>2, <2>5 DEF GoesOn, Load
    <3>2. fetch' # None
      <4>1. fetch' \in Load
        BY <2>1, <2>2, <2>5, GoesOnTyped DEF GoesOn
      <4> QED
        BY <4>1, NoneIsNothing
    <3> QED
      BY <2>1, <2>3, <2>4, <3>1, <3>2 DEF LoadHeedsOf
  <2>6. CASE Completes
    <3>1. /\ cache'.pages = Append(fetch.got, fetch.answer)
          /\ cache'.outrun = fetch.outrun /\ fetch' = None
      BY <2>6 DEF Completes
    <3> QED
      BY <2>1, <2>3, <2>4, <3>1 DEF LoadHeedsOf
  <2> QED
    BY <2>1, <2>5, <2>6
<1>9. CASE LoadFails
  <2>1. cache'.failed /\ fetch' = None
    BY <1>9 DEF LoadFails, TypeOK, Data
  <2> QED
    BY <1>9, <2>1 DEF LoadFails, LoadHeedsOf
<1>10. CASE HearDeleted
  <2>1. fetch' = Invalidated /\ UNCHANGED <<screen, cache>>
    BY <1>10 DEF HearDeleted
  <2>2. CASE ~Shows(screen)
    BY <1>f, <2>1, <2>2 DEF Invalidated, LoadHeedsOf
  <2>3. CASE Shows(screen) /\ fetch # None /\ cache.pages = <<>>
    <3>1. fetch' = [fetch EXCEPT !.outrun = TRUE] /\ fetch \in Load
      BY <2>1, <2>3, LoadParts DEF Invalidated
    <3>2. fetch'.outrun /\ fetch' \in Load
      BY <3>1, OutrunTyped DEF Load
    <3> QED
      BY <2>1, <2>3, <3>2, NoneIsNothing DEF LoadHeedsOf
  <2>4. CASE Shows(screen) /\ ~(fetch # None /\ cache.pages = <<>>)
    <3>1. fetch' = LoadAll(Limits[screen], cache.pages)
      BY <2>1, <2>4 DEF Invalidated
    <3>2. fetch' # None
      BY <2>4, <3>1, LoadAllTyped, LimitsArePositive DEF TypeOK, Data
    <3> QED
      BY <2>1, <2>4, <3>1, <3>2, LoadAllHeeds
  <2> QED
    BY <2>2, <2>3, <2>4
<1>11. CASE LinkAppears \/ ServeDelete \/ SignIn \/ Deactivate \/ DeleteFails \/ UNCHANGED vars
  BY <1>1, <1>11 DEF LinkAppears, ServeDelete, SignIn, Deactivate, DeleteFails, vars
<1> QED
  BY <1>2, <1>3, <1>4, <1>5, <1>6, <1>7, <1>8, <1>9, <1>10, <1>11 DEF Next

-----------------------------------------------------------------------------
(* IInv is inductive: whatever enters the account between two pages, and   *)
(* whichever load takes the place of which, what the tab has gathered is   *)
(* one descending list down to its cursor.                                 *)
THEOREM InvariantHolds == Spec => []IInv
<1>1. Init => IInv
  <2> SUFFICES ASSUME Init PROVE IInv
    OBVIOUS
  <2>1. cache.pages = <<>> /\ ~Shows(screen) /\ fetch = None /\ confirmed = {}
    BY TwoPages DEF Init, NoData, Shows
  <2>2. delete.at # "ok"
    BY DEF Init, NoDelete
  <2>3. Gathered(cache.pages, cache.since)
    BY <2>1, NothingGathered
  <2>4. LoadGathers /\ LoadHeeds /\ DeactivationShown
    BY <2>1, <2>2 DEF LoadGathers, LoadHeeds, DeactivationShown
  <2> QED
    BY <2>3, <2>4, TypeInit DEF IInv, Gathered, OneDescendingList
<1>2. IInv /\ [Next]_vars => IInv'
  <2> SUFFICES ASSUME IInv, [Next]_vars PROVE IInv'
    OBVIOUS
  <2>1. TypeOK' /\ LoadHeeds' /\ DeactivationShown'
    BY TypeNext, HeedNext DEF IInv
  <2>2. Gathered(cache'.pages, cache'.since) /\ LoadGathers'
    BY GatherNext DEF IInv
  <2> QED
    BY <2>1, <2>2 DEF IInv, Gathered, OneDescendingList, Reach, Descends, Shown
<1> QED
  BY <1>1, <1>2, PTL DEF Spec

(* The gathered pages are one list, newest first, with no link twice.      *)
THEOREM OneDescendingListHolds == Spec => []OneDescendingList
<1>1. IInv => OneDescendingList
  BY DEF IInv
<1> QED
  BY <1>1, InvariantHolds, PTL

(* No link that was in the account of all the pages when the first of them *)
(* was read is missing above their cursor.                                 *)
THEOREM NothingSkippedHolds == Spec => []NothingSkipped
<1>1. IInv => NothingSkipped
  BY DEF IInv, Gathered, NothingSkipped
<1> QED
  BY <1>1, InvariantHolds, PTL

(* A list at rest does not show a link as active that the tab was told is  *)
(* deactivated.                                                            *)
THEOREM DeactivationShownHolds == Spec => []DeactivationShown
<1>1. IInv => DeactivationShown
  BY DEF IInv
<1> QED
  BY <1>1, InvariantHolds, PTL
=============================================================================
