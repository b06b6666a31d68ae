---------------------------- MODULE ServerProofs ----------------------------
(* Proofs about what server.ts starts behind and what it then keeps doing: *)
(* the statistics under its purges (ClickStats), and the migrations a      *)
(* container runs before it serves (Startup).                              *)
EXTENDS Startup, ClickStats, FiniteSetTheorems, TLAPS

-----------------------------------------------------------------------------
(* Sums over groups.                                                       *)

(* The elements of S whose key is in D.                                    *)
Keyed(S, key, D) == {c \in S : key[c] \in D}

LEMMA KeysFinite ==
  ASSUME NEW S, IsFiniteSet(S), NEW key
  PROVE  IsFiniteSet({key[c] : c \in S})
<1> DEFINE K == {key[c] : c \in S}
           f == [c \in S |-> key[c]]
<1>1. f \in Surjection(S, K)
  BY DEF Surjection
<1> QED
  BY <1>1, FS_Surjection

(* One key more brings its group.                                          *)
LEMMA KeyedOneMore ==
  ASSUME NEW S, IsFiniteSet(S), NEW key, NEW D, NEW d \in D
  PROVE  Cardinality(Keyed(S, key, D)) =
           Cardinality({c \in S : key[c] = d}) + Cardinality(Keyed(S, key, D \ {d}))
<1> DEFINE One == {c \in S : key[c] = d}
           Rest == Keyed(S, key, D \ {d})
<1>1. Keyed(S, key, D) = One \cup Rest /\ One \cap Rest = {}
  BY DEF Keyed
<1>2. IsFiniteSet(One) /\ IsFiniteSet(Rest)
  BY FS_Subset DEF Keyed
<1>3. Cardinality(One) \in Nat /\ Cardinality(Rest) \in Nat
  BY <1>2, FS_CardinalityType
<1> HIDE DEF One, Rest
<1>4. Cardinality(One \cup Rest) = Cardinality(One) + Cardinality(Rest) - Cardinality({})
  BY <1>1, <1>2, FS_Union
<1>5. Cardinality({}) = 0
  BY FS_EmptySet
<1> QED
  BY <1>1, <1>3, <1>4, <1>5 DEF One, Rest

(* One turn of the sum of f over the subsets of D, for g the sums so far.  *)
Unrolled(f, D, g) ==
  [s \in SUBSET D |->
     IF s = {} THEN 0
     ELSE f[CHOOSE x \in s : TRUE] + g[s \ {CHOOSE x \in s : TRUE}]]

LEMMA FoldIsUnrolled ==
  ASSUME NEW f, NEW D
  PROVE  FoldFunctionOnSet(+, 0, f, D) = (CHOOSE g : g = Unrolled(f, D, g))[D]
BY DEF FoldFunctionOnSet, MapThenFoldSet, Unrolled

(* The recursion has one solution: a least set on which two differ cannot  *)
(* be empty, and they agree on it less an element.                         *)
LEMMA OneSolution ==
  ASSUME NEW D, IsFiniteSet(D), NEW f, NEW g, NEW h,
         g = Unrolled(f, D, g), h = Unrolled(f, D, h)
  PROVE  g[D] = h[D]
<1> DEFINE T == {s \in SUBSET D : g[s] # h[s]}
<1>1. SUFFICES ASSUME T # {} PROVE FALSE
  OBVIOUS
<1>2. T \subseteq FiniteSubsetsOf(D)
  BY FS_Subset DEF FiniteSubsetsOf
<1>3. PICK s \in T : \A t \in T : <<t, s>> \notin StrictSubsetOrdering(D)
  <2> HIDE DEF T
  <2> QED
    BY <1>1, <1>2, FS_StrictSubsetOrderingWellFounded, WFMin
<1>4. s # {}
  BY DEF Unrolled
<1> DEFINE x == CHOOSE y \in s : TRUE
           t == s \ {x}
<1>5. x \in s
  BY <1>4
<1>6. t \in SUBSET D /\ t \notin T
  <2>1. t \in SUBSET D /\ s \in SUBSET D /\ t # s
    BY <1>5
  <2>2. <<t, s>> \in StrictSubsetOrdering(D)
    BY <2>1 DEF StrictSubsetOrdering
  <2> HIDE DEF t, T
  <2> QED
    BY <1>3, <2>1, <2>2
<1>7. g[s] = f[x] + g[t] /\ h[s] = f[x] + h[t]
  BY <1>4 DEF Unrolled
<1> QED
  BY <1>6, <1>7

(* The counts of some groups add up to the number of their members.        *)
LEMMA SumOfGroups ==
  ASSUME NEW S, IsFiniteSet(S), NEW key, NEW D, D \subseteq {key[c] : c \in S}
  PROVE  FoldFunctionOnSet(+, 0, GroupBy(S, key), D) = Cardinality(Keyed(S, key, D))
<1> DEFINE f == GroupBy(S, key)
           h == [s \in SUBSET D |-> Cardinality(Keyed(S, key, s))]
           g == CHOOSE k : k = Unrolled(f, D, k)
<1>1. h = Unrolled(f, D, h)
  <2>1. h[{}] = 0
    BY FS_EmptySet DEF Keyed
  <2>2. ASSUME NEW s \in SUBSET D, NEW x \in s
        PROVE  h[s] = f[x] + h[s \ {x}]
    BY KeyedOneMore DEF GroupBy
  <2>3. ASSUME NEW s \in SUBSET D, s # {}
        PROVE  h[s] = f[CHOOSE x \in s : TRUE] + h[s \ {CHOOSE x \in s : TRUE}]
    BY <2>2, <2>3
  <2> HIDE DEF f
  <2> QED
    BY <2>1, <2>3 DEF Unrolled
<1> HIDE DEF f, h
<1>2. g = Unrolled(f, D, g)
  BY <1>1
<1>3. IsFiniteSet(D)
  <2>1. IsFiniteSet({key[c] : c \in S})
    BY KeysFinite
  <2> QED
    BY <2>1, FS_Subset
<1>4. g[D] = h[D]
  BY <1>1, <1>2, <1>3, OneSolution
<1> QED
  BY <1>4, FoldIsUnrolled DEF f, h

-----------------------------------------------------------------------------
(* Types.                                                                  *)

LEMMA OpenPage ==
  ASSUME StatsTypeOK, page # Closed
  PROVE  /\ page.kind \in Kinds /\ page.of \in ShownOf(page.kind) /\ page.late \in BOOLEAN
         /\ page.answers \in [Queries(page.kind) -> Answers]
         /\ page = [kind |-> page.kind, of |-> page.of, late |-> page.late, answers |-> page.answers]
BY DEF StatsTypeOK

LEMMA OpenPageType ==
  ASSUME NEW kind \in Kinds, NEW of \in ShownOf(kind), NEW late \in BOOLEAN,
         NEW answers \in [Queries(kind) -> Answers],
         page' = [kind |-> kind, of |-> of, late |-> late, answers |-> answers]
  PROVE  /\ page' # Closed
         /\ \E k \in Kinds :
              page' \in [kind : {k}, of : ShownOf(k), late : BOOLEAN,
                         answers : [Queries(k) -> Answers]]
<1>1. page'.kind = kind /\ kind # "none"
  BY DEF Kinds
<1> QED
  BY <1>1 DEF Closed

LEMMA StatsTypeInit == StatsInit => StatsTypeOK
BY DaysAssumption DEF StatsInit, StatsTypeOK, NotYet

(* An answer concerns its query only.                                      *)
LEMMA AnswerEffect ==
  ASSUME StatsTypeOK, page # Closed, NEW q \in Queries(page.kind), Answer(q)
  PROVE  /\ page' = [kind |-> page.kind, of |-> page.of, late |-> page.late,
                      answers |-> page'.answers]
         /\ page'.kind = page.kind /\ page'.of = page.of /\ page'.late = page.late
         /\ page'.answers \in [Queries(page.kind) -> Answers]
         /\ page'.answers[q] = [served |-> TRUE, rows |-> Matching(q), ever |-> inserted \cap Covered]
         /\ \A k \in Queries(page.kind) \ {q} : page'.answers[k] = page.answers[k]
<1> DEFINE a == [served |-> TRUE, rows |-> Matching(q), ever |-> inserted \cap Covered]
<1>1. a \in Answers
  BY DEF Answers, StatsTypeOK, Matching
<1>2. page' = [kind |-> page.kind, of |-> page.of, late |-> page.late,
               answers |-> [page.answers EXCEPT ![q] = a]]
  BY OpenPage DEF Answer
<1> HIDE DEF a
<1> QED
  BY <1>1, <1>2, OpenPage DEF a

(* The end of a day only marks a page that is loading.                     *)
LEMMA DayEffect ==
  ASSUME StatsTypeOK, DayPasses, page # Closed
  PROVE  page' = [kind |-> page.kind, of |-> page.of, late |-> page'.late, answers |-> page.answers]
         /\ page'.late \in BOOLEAN /\ (page'.late = page.late \/ (Loading /\ page'.late = TRUE))
BY OpenPage DEF DayPasses, Loading

LEMMA StatsTypeStep == StatsTypeOK /\ [StatsNext]_statsVars => StatsTypeOK'
<1> SUFFICES ASSUME StatsTypeOK, [StatsNext]_statsVars PROVE StatsTypeOK'
  OBVIOUS
<1> DEFINE PageType ==
      \/ page = Closed
      \/ \E kind \in Kinds :
           page \in [kind : {kind}, of : ShownOf(kind), late : BOOLEAN,
                     answers : [Queries(kind) -> Answers]]
<1>1. CASE DayPasses
  <2>1. PageType'
    <3>1. CASE page = Closed
      BY <1>1, <3>1 DEF DayPasses, Loading, Loaded
    <3>2. CASE page # Closed
      BY <1>1, <3>2, DayEffect, OpenPage, OpenPageType
    <3> QED
      BY <3>1, <3>2
  <2>2. now' \in 0..Horizon /\ 0..now \subseteq 0..now'
    BY <1>1, DaysAssumption DEF DayPasses, StatsTypeOK
  <2> HIDE DEF PageType
  <2>3. clicked' \in [Clicks -> 0..now' \cup {NotYet}]
    BY <1>1, <2>2 DEF DayPasses, StatsTypeOK
  <2> QED
    BY <1>1, <2>1, <2>2, <2>3 DEF DayPasses, StatsTypeOK, PageType
<1>2. ASSUME NEW c \in Clicks, Click(c) PROVE StatsTypeOK'
  <2>1. clicked' \in [Clicks -> 0..now \cup {NotYet}]
    BY <1>2, DaysAssumption DEF Click, StatsTypeOK
  <2>2. \A d \in inserted : clicked'[d] # NotYet
    BY <1>2 DEF Click, StatsTypeOK
  <2> QED
    BY <1>2, <2>1, <2>2 DEF Click, StatsTypeOK
<1>3. ASSUME NEW B \in SUBSET Clicks, InsertBatch(B) PROVE StatsTypeOK'
  BY <1>3 DEF InsertBatch, StatsTypeOK
<1>4. ASSUME NEW i \in Instances,
             PurgeStarts(i) \/ PurgeFails(i) \/ ClicksPurged(i) \/ OtherTablePurged(i)
      PROVE  StatsTypeOK'
  <2>1. purge' \in [Instances -> {"idle", "outbox", "clicks", "sessions"}]
    BY <1>4 DEF PurgeStarts, PurgeFails, ClicksPurged, OtherTablePurged, PurgeTurnsTo, Following, StatsTypeOK
  <2>2. stored' \subseteq stored /\ UNCHANGED <<now, clicked, inserted, owned, page>>
    BY <1>4 DEF PurgeStarts, PurgeFails, ClicksPurged, OtherTablePurged
  <2> QED
    BY <2>1, <2>2 DEF StatsTypeOK
<1>5. CASE Ask
  <2>0. PICK kind \in Kinds : \E of \in ShownOf(kind) : page' = Opened(kind, of)
    BY <1>5 DEF Ask
  <2>1. PICK of \in ShownOf(kind) : page' = Opened(kind, of)
    BY <2>0
  <2>2. [q \in Queries(kind) |-> Waiting] \in [Queries(kind) -> Answers]
    BY DEF Waiting, Answers
  <2>3. PageType'
    BY <2>1, <2>2, OpenPageType DEF Opened
  <2> HIDE DEF PageType
  <2> QED
    BY <1>5, <2>3 DEF Ask, StatsTypeOK, PageType
<1>6. ASSUME page # Closed, NEW q \in Queries(page.kind), Answer(q) PROVE StatsTypeOK'
  <2>1. PageType'
    BY <1>6, AnswerEffect, OpenPage, OpenPageType
  <2> HIDE DEF PageType
  <2> QED
    BY <1>6, <2>1 DEF Answer, StatsTypeOK, PageType
<1>7. CASE UNCHANGED statsVars
  BY <1>7 DEF statsVars, StatsTypeOK
<1>8. ASSUME NEW L \in SUBSET Links, LinksJoin(L) PROVE StatsTypeOK'
  BY <1>8 DEF LinksJoin, StatsTypeOK
<1> QED
  BY <1>1, <1>2, <1>3, <1>4, <1>5, <1>6, <1>7, <1>8 DEF StatsNext

-----------------------------------------------------------------------------
(* What the answers leave out.                                             *)

LEMMA Numbers ==
  ASSUME StatsTypeOK
  PROVE  /\ now \in Nat /\ Retention \in Nat /\ Retention > 7
         /\ \A c \in inserted : clicked[c] \in Nat /\ clicked[c] <= now
BY DaysAssumption, RetentionAssumption DEF StatsTypeOK, NotYet

(* Which actions change what.                                              *)
LEMMA Steps ==
  ASSUME [StatsNext]_statsVars
  PROVE  /\ now' = now \/ (DayPasses /\ now' = now + 1)
         /\ clicked' = clicked \/ \E c \in Clicks : Click(c)
         /\ inserted' = inserted \/ \E B \in SUBSET Clicks : InsertBatch(B)
         /\ owned \subseteq owned'
         /\ \/ stored' = stored
            \/ \E B \in SUBSET Clicks : InsertBatch(B)
            \/ \E i \in Instances : ClicksPurged(i)
         /\ \/ page' = page /\ now' = now
            \/ DayPasses
            \/ Ask
            \/ page # Closed /\ \E q \in Queries(page.kind) : Answer(q)
<1>1. CASE DayPasses
  BY <1>1 DEF DayPasses
<1>2. ASSUME NEW c \in Clicks, Click(c) PROVE UNCHANGED <<now, stored, inserted, owned, page>>
  BY <1>2 DEF Click
<1>3. ASSUME NEW B \in SUBSET Clicks, InsertBatch(B) PROVE UNCHANGED <<now, clicked, owned, page>>
  BY <1>3 DEF InsertBatch
<1>4. ASSUME NEW i \in Instances, PurgeStarts(i) \/ PurgeFails(i) \/ OtherTablePurged(i)
      PROVE  UNCHANGED <<now, clicked, stored, inserted, owned, page>>
  BY <1>4 DEF PurgeStarts, PurgeFails, OtherTablePurged
<1>5. ASSUME NEW i \in Instances, ClicksPurged(i)
      PROVE  UNCHANGED <<now, clicked, inserted, owned, page>>
  BY <1>5 DEF ClicksPurged
<1>6. Ask => UNCHANGED <<now, clicked, stored, inserted, owned>>
  BY DEF Ask
<1>7. ASSUME page # Closed, NEW q \in Queries(page.kind), Answer(q)
      PROVE  UNCHANGED <<now, clicked, stored, inserted, owned>>
  BY <1>7 DEF Answer
<1>8. UNCHANGED statsVars => UNCHANGED <<now, clicked, stored, inserted, owned, page>>
  BY DEF statsVars
<1>9. ASSUME NEW L \in SUBSET Links, LinksJoin(L)
      PROVE  UNCHANGED <<now, clicked, stored, inserted, page>> /\ owned \subseteq owned'
  BY <1>9 DEF LinksJoin
<1> QED
  BY <1>1, <1>2, <1>3, <1>4, <1>5, <1>6, <1>7, <1>8, <1>9 DEF StatsNext

(* A click keeps its day, and time goes on.                                *)
LEMMA DaysStay ==
  ASSUME StatsTypeOK, [StatsNext]_statsVars
  PROVE  /\ now' \in Nat /\ now' >= now
         /\ \A c \in inserted : clicked'[c] = clicked[c]
<1>1. now' = now \/ now' = now + 1
  BY Steps
<1>2. ASSUME NEW c \in Clicks, Click(c) PROVE \A d \in inserted : clicked'[d] = clicked[d]
  BY <1>2 DEF Click, StatsTypeOK
<1>3. clicked' = clicked => \A d \in inserted : clicked'[d] = clicked[d]
  OBVIOUS
<1> QED
  BY <1>1, <1>2, <1>3, Steps, Numbers

(* A page goes on to cover what it covered.                                *)
LEMMA CoveredGrows ==
  ASSUME [StatsNext]_statsVars, page'.of = page.of
  PROVE  Covered \subseteq Covered'
BY Steps DEF Covered

(* Hence what is past its retention stays so.                              *)
LEMMA StaysStale ==
  ASSUME StatsTypeOK, [StatsNext]_statsVars, NEW c \in inserted, now - clicked[c] >= Retention
  PROVE  now' - clicked'[c] >= Retention
BY Numbers, DaysStay

LEMMA GoneStep == StatsTypeOK /\ GoneAreStale /\ [StatsNext]_statsVars => GoneAreStale'
<1> SUFFICES ASSUME StatsTypeOK, GoneAreStale, [StatsNext]_statsVars, NEW c \in inserted' \ stored'
             PROVE  now' - clicked'[c] >= Retention
  BY DEF GoneAreStale
<1>1. \/ c \in inserted \ stored
      \/ c \in inserted /\ \E i \in Instances : ClicksPurged(i)
  <2>1. ASSUME NEW B \in SUBSET Clicks, InsertBatch(B) PROVE c \in inserted \ stored
    BY <2>1 DEF InsertBatch
  <2>2. ASSUME NEW i \in Instances, ClicksPurged(i) PROVE c \in inserted
    BY <2>2 DEF ClicksPurged
  <2> QED
    BY <2>1, <2>2, Steps
<1>2. CASE c \in inserted \ stored
  BY <1>2, StaysStale DEF GoneAreStale
<1>3. CASE c \in inserted \cap stored /\ \E i \in Instances : ClicksPurged(i)
  <2>1. now - clicked[c] >= Retention
    BY <1>3 DEF ClicksPurged, StaleRows, Stale
  <2> QED
    BY <1>3, <2>1, StaysStale
<1> QED
  BY <1>1, <1>2, <1>3

(* The part of AnswersComplete that is about one answer.                   *)
Complete(q, a) ==
  a.served =>
    /\ a.rows \subseteq a.ever /\ a.ever \subseteq inserted \cap Covered
    /\ q # "today" => \A c \in a.ever \ a.rows : now - clicked[c] >= Retention

(* An answer that was complete remains so ...                              *)
LEMMA StaysComplete ==
  ASSUME StatsTypeOK, [StatsNext]_statsVars, NEW q, NEW a, Complete(q, a),
         inserted \subseteq inserted', Covered \subseteq Covered'
  PROVE  Complete(q, a)'
BY StaysStale DEF Complete

(* ... and it is when it is given.                                         *)
LEMMA CompleteAtFirst ==
  ASSUME StatsTypeOK, GoneAreStale, NEW q
  PROVE  Complete(q, [served |-> TRUE, rows |-> Matching(q), ever |-> inserted \cap Covered])
BY DEF Complete, Matching, GoneAreStale, StatsTypeOK

(* A step either leaves the answers of the page alone, or opens another    *)
(* page, or gives one answer.                                              *)
LEMMA PageSteps ==
  ASSUME StatsTypeOK, [StatsNext]_statsVars
  PROVE  \/ page' = Closed
         \/ \E kind \in Kinds : \E of : page' = Opened(kind, of)
         \/ /\ page # Closed /\ page'.kind = page.kind /\ page'.of = page.of
            /\ page'.answers = page.answers
            /\ DayPasses \/ UNCHANGED <<now, page>>
         \/ page # Closed /\ \E q \in Queries(page.kind) : Answer(q)
<1>1. CASE DayPasses
  BY <1>1, DayEffect DEF DayPasses, Loading
<1>2. CASE Ask
  BY <1>2 DEF Ask
<1>3. CASE page # Closed /\ \E q \in Queries(page.kind) : Answer(q)
  BY <1>3
<1> QED
  BY <1>1, <1>2, <1>3, Steps

LEMMA InsertedGrows == [StatsNext]_statsVars => inserted \subseteq inserted'
BY Steps DEF InsertBatch

LEMMA AnswersStep ==
  StatsTypeOK /\ GoneAreStale /\ AnswersComplete /\ [StatsNext]_statsVars => AnswersComplete'
<1> SUFFICES ASSUME StatsTypeOK, GoneAreStale, AnswersComplete, [StatsNext]_statsVars, page' # Closed,
                    NEW k \in Queries(page'.kind)
             PROVE  Complete(k, page.answers[k])'
  BY DEF AnswersComplete, Complete
<1>1. CASE \E kind \in Kinds : \E of : page' = Opened(kind, of)
  BY <1>1 DEF Opened, Waiting, Complete
<1>2. CASE page # Closed /\ page'.kind = page.kind /\ page'.of = page.of
           /\ page'.answers = page.answers
  <2>1. Complete(k, page.answers[k])
    BY <1>2 DEF AnswersComplete, Complete
  <2> QED
    BY <1>2, <2>1, StaysComplete, InsertedGrows, CoveredGrows DEF Complete
<1>3. ASSUME page # Closed, NEW q \in Queries(page.kind), Answer(q)
      PROVE  Complete(k, page.answers[k])'
  <2>1. page'.kind = page.kind /\ k \in Queries(page.kind) /\ Covered' = Covered
    BY <1>3, AnswerEffect, OpenPage DEF Covered, Answer
  <2>2. CASE k = q
    <3>1. page'.answers[k] = [served |-> TRUE, rows |-> Matching(q), ever |-> inserted \cap Covered]
      BY <1>3, <2>2, AnswerEffect, OpenPage
    <3> QED
      BY <1>3, <2>1, <2>2, <3>1, CompleteAtFirst DEF Complete, Answer
  <2>3. CASE k # q
    <3>1. page'.answers[k] = page.answers[k]
      BY <1>3, <2>1, <2>3, AnswerEffect, OpenPage
    <3> QED
      BY <1>3, <2>1, <3>1 DEF Complete, Answer, AnswersComplete
  <2> QED
    BY <2>2, <2>3
<1> QED
  BY <1>1, <1>2, <1>3, PageSteps

(* Today is the day of the page or the one after.                          *)
LEMMA RecentDays ==
  ASSUME StatsTypeOK
  PROVE  StartOfToday \in Int /\ StartOfToday >= now - 1 /\ StartOfToday <= now
BY Numbers DEF StartOfToday

LEMMA TodayQueries == Queries("today") = {"total", "today"}
BY DEF Queries

(* A recent click is not among those past their retention.                 *)
LEMMA RecentNotGone ==
  ASSUME StatsTypeOK, NEW today \in SUBSET inserted, NEW gone \in SUBSET inserted,
         \A c \in today : clicked[c] >= StartOfToday,
         \A c \in gone : now - clicked[c] >= Retention
  PROVE  today \cap gone = {}
BY Numbers, RecentDays

LEMMA TodayStep ==
  StatsTypeOK /\ GoneAreStale /\ AnswersComplete /\ TodayCounted /\ [StatsNext]_statsVars => TodayCounted'
<1> SUFFICES ASSUME StatsTypeOK, GoneAreStale, AnswersComplete, TodayCounted, [StatsNext]_statsVars,
                    page' # Closed, page'.kind = "today", page'.answers["today"].served
             PROVE  LET today == page'.answers["today"].rows
                        total == page'.answers["total"]
                    IN  /\ Loading' => \A c \in today : clicked'[c] >= StartOfToday'
                        /\ Loaded' => today \cap (total.ever \ total.rows) = {}
  BY DEF TodayCounted
<1>1. ASSUME NEW kind \in Kinds, NEW of PROVE page' # Opened(kind, of)
  <2> SUFFICES ASSUME page' = Opened(kind, of) PROVE FALSE
    OBVIOUS
  <2>1. kind = "today" /\ page'.answers["today"] = Waiting
    BY TodayQueries DEF Opened
  <2> QED
    BY <2>1 DEF Waiting
<1>2. CASE page # Closed /\ page'.kind = page.kind /\ page'.answers = page.answers
           /\ (DayPasses \/ UNCHANGED <<now, page>>)
  <2>1. Loaded' <=> Loaded
    BY <1>2 DEF Loaded
  <2>2. Loading' <=> Loading
    BY <1>2, <2>1 DEF Loading
  <2>3. Loading => StartOfToday' = StartOfToday
    BY <1>2, Numbers, OpenPage DEF DayPasses, StartOfToday
  <2>4. \A c \in page.answers["today"].rows : clicked'[c] = clicked[c]
    BY <1>2, TodayQueries, DaysStay DEF AnswersComplete
  <2> QED
    BY <1>2, <2>1, <2>2, <2>3, <2>4 DEF TodayCounted
<1>3. ASSUME page # Closed, NEW q \in Queries(page.kind), Answer(q)
      PROVE  LET today == page'.answers["today"].rows
                 total == page'.answers["total"]
             IN  /\ Loading' => \A c \in today : clicked'[c] >= StartOfToday'
                 /\ Loaded' => today \cap (total.ever \ total.rows) = {}
  <2>1. /\ page.kind = "today" /\ q \in {"total", "today"}
        /\ page'.late = page.late /\ now' = now /\ clicked' = clicked
    BY <1>3, AnswerEffect, TodayQueries DEF Answer
  <2>2. StartOfToday' = StartOfToday
    BY <2>1 DEF StartOfToday
  <2> DEFINE today == page'.answers["today"].rows
             total == page'.answers["total"]
  <2>3. today \subseteq inserted /\ \A c \in today : clicked[c] >= StartOfToday
    <3>1. CASE q = "today"
      <4>1. page'.answers["today"] = [served |-> TRUE, rows |-> Matching("today"), ever |-> inserted \cap Covered]
        BY <1>3, <3>1, AnswerEffect
      <4> QED
        BY <4>1 DEF Matching, StatsTypeOK
    <3>2. CASE q = "total"
      <4>1. page'.answers["today"] = page.answers["today"]
        BY <1>3, <2>1, <3>2, AnswerEffect, TodayQueries
      <4>2. page.answers["today"].served /\ Loading
        BY <1>3, <3>2, <4>1 DEF Loading, Loaded, Answer
      <4> QED
        BY <1>3, <2>1, <4>1, <4>2, TodayQueries DEF TodayCounted, AnswersComplete
    <3> QED
      BY <2>1, <3>1, <3>2
  <2>4. ASSUME Loaded'
        PROVE  /\ total.ever \subseteq inserted
               /\ \A c \in total.ever \ total.rows : now - clicked[c] >= Retention
    <3>1. total.served
      BY <2>4, TodayQueries DEF Loaded
    <3>2. CASE q = "total"
      <4>1. total = [served |-> TRUE, rows |-> Matching("total"), ever |-> inserted \cap Covered]
        BY <1>3, <3>2, AnswerEffect
      <4> QED
        BY <4>1 DEF Matching, GoneAreStale
    <3>3. CASE q = "today"
      <4>1. total = page.answers["total"]
        BY <1>3, <2>1, <3>3, AnswerEffect, TodayQueries
      <4> QED
        BY <1>3, <2>1, <3>1, <4>1, TodayQueries DEF AnswersComplete
    <3> QED
      BY <2>1, <3>2, <3>3
  <2> HIDE DEF today, total
  <2>5. Loaded' => today \cap (total.ever \ total.rows) = {}
    BY <2>3, <2>4, RecentNotGone
  <2> QED
    BY <2>1, <2>2, <2>3, <2>5 DEF today, total
<1> QED
  BY <1>1, <1>2, <1>3, PageSteps

(* Of the clicks ever inserted of the links a query was about when it was  *)
(* served, only those past their retention are missing from its answer,    *)
(* today's apart, although late batches bring some of them back            *)
(* (purgeClicksOlderThan, recordClickBatch, countForUser).                 *)
THEOREM StatisticsInvariantHolds == StatsSpec => []StatsIInv
<1>1. StatsInit => StatsIInv
  BY StatsTypeInit DEF StatsInit, StatsIInv, GoneAreStale, AnswersComplete, TodayCounted
<1>2. StatsIInv /\ [StatsNext]_statsVars => StatsIInv'
  BY StatsTypeStep, GoneStep, AnswersStep, TodayStep DEF StatsIInv
<1> QED
  BY <1>1, <1>2, PTL DEF StatsSpec

-----------------------------------------------------------------------------
(* The cards.                                                              *)

(* The days of a week, and those of a month, up to now.                    *)
LEMMA DaysOfWeek ==
  ASSUME NEW n \in Nat, NEW d \in 0..n
  PROVE  /\ (d + 6) \div 7 = (n + 6) \div 7 <=> d >= n - MondayOffset(n % 7)
         /\ MondayOffset(n % 7) \in 0..6
BY DEF MondayOffset

LEMMA DaysOfMonth ==
  ASSUME NEW m \in Nat \ {0}, NEW n \in Nat, NEW d \in 0..n
  PROVE  d \div m = n \div m <=> d >= n - (n % m)
<1> DEFINE q == n \div m
           p == d \div m
<1>1. q \in Int /\ n = (m * q) + (n % m) /\ (n % m) \in 0..(m - 1)
  OBVIOUS
<1>2. p \in Int /\ d = (m * p) + (d % m) /\ (d % m) \in 0..(m - 1)
  OBVIOUS
<1>3. CASE p = q
  BY <1>1, <1>2, <1>3
<1>4. CASE p <= q - 1
  <2>1. m * p <= m * (q - 1)
    BY <1>1, <1>2, <1>4
  <2> QED
    BY <1>1, <1>2, <1>4, <2>1
<1>5. CASE p >= q + 1
  <2>1. m * p >= m * (q + 1)
    BY <1>1, <1>2, <1>5
  <2> QED
    BY <1>1, <1>2, <1>5, <2>1
<1> QED
  BY <1>1, <1>2, <1>3, <1>4, <1>5

(* The rows of an answer are finitely many clicks of days up to now.       *)
LEMMA AnswerRows ==
  ASSUME StatsTypeOK, AnswersComplete, page # Closed, Loaded, NEW q \in Queries(page.kind)
  PROVE  LET a == page.answers[q] IN
         /\ a.rows \subseteq a.ever /\ a.ever \subseteq inserted
         /\ IsFiniteSet(a.rows) /\ IsFiniteSet(a.ever)
         /\ \A c \in a.ever : clicked[c] \in 0..now
         /\ q # "today" => \A c \in a.ever \ a.rows : now - clicked[c] >= Retention
<1> DEFINE a == page.answers[q]
<1>1. /\ a.rows \subseteq a.ever /\ a.ever \subseteq inserted
      /\ q # "today" => \A c \in a.ever \ a.rows : now - clicked[c] >= Retention
  BY DEF Loaded, AnswersComplete
<1>2. a.ever \subseteq Clicks /\ \A c \in inserted : clicked[c] \in 0..now
  BY <1>1, Numbers DEF StatsTypeOK
<1> HIDE DEF a
<1>3. IsFiniteSet(a.rows) /\ IsFiniteSet(a.ever)
  BY <1>1, <1>2, ClicksAssumption, FS_Subset
<1> QED
  BY <1>1, <1>2, <1>3 DEF a

LEMMA DaysQueries == Queries("days") = {"total", "days"}
BY DEF Queries

(* A sum of days is the number of their clicks.                            *)
LEMMA SinceCounts ==
  ASSUME StatsTypeOK, AnswersComplete, page # Closed, Loaded, page.kind = "days", NEW day
  PROVE  Since(day) = Cardinality({c \in page.answers["days"].rows : clicked[c] >= day})
<1> DEFINE S == page.answers["days"].rows
           D == {d \in DOMAIN ClicksByDay : d >= day}
<1>1. IsFiniteSet(S)
  BY AnswerRows, DaysQueries
<1>2. DOMAIN ClicksByDay = {clicked[c] : c \in S}
  BY DEF ClicksByDay, GroupBy, Day
<1>3. Since(day) = Cardinality(Keyed(S, clicked, D))
  <2>1. D \subseteq {clicked[c] : c \in S}
    BY <1>2
  <2>2. Since(day) = FoldFunctionOnSet(+, 0, GroupBy(S, clicked), D)
    BY DEF Since, ClicksByDay, Day
  <2> HIDE DEF S, D
  <2> QED
    BY <1>1, <2>1, <2>2, SumOfGroups
<1>4. Keyed(S, clicked, D) = {c \in S : clicked[c] >= day}
  BY <1>2 DEF Keyed
<1> QED
  BY <1>3, <1>4

(* A window of days within the retention misses no click.                  *)
LEMMA WindowCounts ==
  ASSUME StatsTypeOK, AnswersComplete, page # Closed, Loaded, page.kind = "days",
         NEW W, NEW day \in Int, day > now - Retention,
         \A d \in 0..now : d \in W <=> d >= day
  PROVE  Since(day) = On(W)
<1> DEFINE a == page.answers["days"]
<1>1. /\ a.rows \subseteq a.ever /\ \A c \in a.ever : clicked[c] \in 0..now
      /\ \A c \in a.ever \ a.rows : now - clicked[c] >= Retention
  BY AnswerRows, DaysQueries
<1>2. {c \in a.rows : clicked[c] >= day} = {c \in a.ever : clicked[c] \in W}
  <2> HIDE DEF a
  <2> QED
    BY <1>1, Numbers
<1> QED
  BY <1>2, SinceCounts DEF On

LEMMA CardsCompleteHolds == StatsIInv => CardsComplete
<1> SUFFICES ASSUME StatsTypeOK, AnswersComplete, Loaded, page.kind = "days"
             PROVE  /\ TodayCard = On({now})
                    /\ ThisWeekCard = On({d \in 0..now : (d + 6) \div 7 = (now + 6) \div 7})
                    /\ Last7DaysCard = On({d \in 0..now : now - d <= 7})
                    /\ ThisMonthCard = On({d \in 0..now : d \div Month = now \div Month})
  BY DEF StatsIInv, CardsComplete
<1>0. page # Closed /\ now \in Nat /\ Retention \in Nat /\ Retention > 7 /\ Month \in Nat \ {0}
      /\ Retention >= Month
  BY Numbers, DaysAssumption, RetentionAssumption DEF Closed
<1>1. TodayCard = On({now})
  <2> DEFINE a == page.answers["days"]
  <2>1. /\ a.rows \subseteq a.ever /\ \A c \in a.ever : clicked[c] \in 0..now
        /\ \A c \in a.ever \ a.rows : now - clicked[c] >= Retention
    BY <1>0, AnswerRows, DaysQueries
  <2>2. {c \in a.rows : clicked[c] = now} = {c \in a.ever : clicked[c] \in {now}}
    <3> HIDE DEF a
    <3> QED
      BY <1>0, <2>1
  <2>3. CASE now \in DOMAIN ClicksByDay
    <3>1. TodayCard = Cardinality({c \in a.rows : clicked[c] = now})
      BY <2>3 DEF TodayCard, ClicksByDay, GroupBy, Day
    <3> QED
      BY <2>2, <3>1 DEF On
  <2>4. CASE now \notin DOMAIN ClicksByDay
    <3>1. {c \in a.rows : clicked[c] = now} = {}
      BY <2>4 DEF ClicksByDay, GroupBy, Day
    <3>2. TodayCard = 0
      BY <2>4 DEF TodayCard
    <3> QED
      BY <2>2, <3>1, <3>2, FS_EmptySet DEF On
  <2> QED
    BY <2>3, <2>4
<1>2. ThisWeekCard = On({d \in 0..now : (d + 6) \div 7 = (now + 6) \div 7})
  <2> DEFINE day == now - MondayOffset(now % 7)
             W == {d \in 0..now : (d + 6) \div 7 = (now + 6) \div 7}
  <2>1. MondayOffset(now % 7) \in 0..6
    BY <1>0, DaysOfWeek
  <2>2. day \in Int /\ day > now - Retention
    BY <1>0, <2>1
  <2>3. \A d \in 0..now : d \in W <=> d >= day
    BY <1>0, DaysOfWeek
  <2>4. ThisWeekCard = Since(day)
    BY DEF ThisWeekCard
  <2> HIDE DEF day, W
  <2>5. Since(day) = On(W)
    BY <1>0, <2>2, <2>3, WindowCounts
  <2> QED
    BY <2>4, <2>5 DEF W
<1>3. Last7DaysCard = On({d \in 0..now : now - d <= 7})
  <2> DEFINE day == now - 7
             W == {d \in 0..now : now - d <= 7}
  <2>1. day \in Int /\ day > now - Retention
    BY <1>0
  <2>2. \A d \in 0..now : d \in W <=> d >= day
    BY <1>0
  <2>3. Last7DaysCard = Since(day)
    BY DEF Last7DaysCard
  <2> HIDE DEF day, W
  <2>4. Since(day) = On(W)
    BY <1>0, <2>1, <2>2, WindowCounts
  <2> QED
    BY <2>3, <2>4 DEF W
<1>4. ThisMonthCard = On({d \in 0..now : d \div Month = now \div Month})
  <2> DEFINE day == now - (now % Month)
             W == {d \in 0..now : d \div Month = now \div Month}
  <2>1. (now % Month) \in 0..(Month - 1)
    BY <1>0
  <2>2. day \in Int /\ day > now - Retention
    BY <1>0, <2>1
  <2>3. \A d \in 0..now : d \in W <=> d >= day
    BY <1>0, DaysOfMonth
  <2>4. ThisMonthCard = Since(day)
    BY DEF ThisMonthCard
  <2> HIDE DEF day, W
  <2>5. Since(day) = On(W)
    BY <1>0, <2>2, <2>3, WindowCounts
  <2> QED
    BY <2>4, <2>5 DEF W
<1> QED
  BY <1>1, <1>2, <1>3, <1>4

-----------------------------------------------------------------------------
(* The totals.                                                             *)

(* A total taken no earlier than the days holds all of a recent window.    *)
LEMMA TotalCoversDays ==
  ASSUME StatsTypeOK, AnswersComplete, page # Closed, Loaded, page.kind = "days",
         page.answers["days"].ever \subseteq page.answers["total"].ever,
         NEW day \in Int, day > now - Retention
  PROVE  Since(day) <= TotalClicks
<1> DEFINE a == page.answers["days"]
           t == page.answers["total"]
           S == {c \in a.rows : clicked[c] >= day}
<1>1. /\ a.rows \subseteq a.ever /\ a.ever \subseteq t.ever
      /\ \A c \in t.ever : clicked[c] \in 0..now
      /\ \A c \in t.ever \ t.rows : now - clicked[c] >= Retention
  BY AnswerRows, DaysQueries
<1>2. IsFiniteSet(t.rows)
  BY AnswerRows, DaysQueries
<1>3. Since(day) = Cardinality(S) /\ TotalClicks = Cardinality(t.rows)
  BY SinceCounts DEF TotalClicks
<1> HIDE DEF a, t
<1>4. S \subseteq t.rows
  BY <1>1, Numbers
<1> HIDE DEF S
<1> QED
  BY <1>2, <1>3, <1>4, FS_Subset

(* The groups of the browsers are those of all the rows.                   *)
LEMMA BrowsersCount ==
  ASSUME StatsTypeOK, AnswersComplete, page # Closed, Loaded, page.kind = "browsers"
  PROVE  Total(Browsers) = Cardinality(page.answers["browsers"].rows)
<1> DEFINE S == page.answers["browsers"].rows
           D == {Browser[c] : c \in S}
<1>1. IsFiniteSet(S)
  BY AnswerRows DEF Queries
<1>2. DOMAIN GroupBy(S, Browser) = D
  BY DEF GroupBy
<1>3. Total(Browsers) = FoldFunctionOnSet(+, 0, GroupBy(S, Browser), D)
  <2>1. Total(Browsers) = FoldFunctionOnSet(+, 0, Browsers, DOMAIN Browsers)
    BY DEF Total, FoldFunction
  <2> QED
    BY <1>2, <2>1 DEF Browsers
<1>4. Keyed(S, Browser, D) = S
  BY DEF Keyed
<1> HIDE DEF S
<1>5. FoldFunctionOnSet(+, 0, GroupBy(S, Browser), D) = Cardinality(Keyed(S, Browser, D))
  BY <1>1, SumOfGroups
<1> QED
  BY <1>3, <1>4, <1>5 DEF S

(* A part of two finite sets has no more members than both.                *)
LEMMA AtMostBoth ==
  ASSUME NEW S, NEW T, NEW U, IsFiniteSet(T), IsFiniteSet(U), S \subseteq T \cup U
  PROVE  Cardinality(S) <= Cardinality(T) + Cardinality(U)
<1>1. /\ IsFiniteSet(T \cup U)
      /\ Cardinality(T \cup U) = Cardinality(T) + Cardinality(U) - Cardinality(T \cap U)
  BY FS_Union
<1>2. IsFiniteSet(T \cap U) /\ IsFiniteSet(S) /\ Cardinality(S) <= Cardinality(T \cup U)
  BY <1>1, FS_Subset
<1>3. /\ Cardinality(S) \in Nat /\ Cardinality(T) \in Nat /\ Cardinality(U) \in Nat
      /\ Cardinality(T \cap U) \in Nat /\ Cardinality(T \cup U) \in Nat
  BY <1>1, <1>2, FS_CardinalityType
<1> QED
  BY <1>1, <1>2, <1>3

LEMMA TotalsCoverHolds == StatsIInv => TotalsCover
<1> SUFFICES ASSUME StatsTypeOK, AnswersComplete, TodayCounted, Loaded,
                    page.answers[page.kind].ever \subseteq page.answers["total"].ever
             PROVE  /\ page.kind = "days" =>
                         ThisMonthCard <= TotalClicks /\ Last7DaysCard <= TotalClicks
                    /\ page.kind = "today" => ClicksToday <= TotalClicks
                    /\ page.kind = "browsers" =>
                         Total(Browsers) <= TotalClicks
                           + Cardinality({c \in page.answers["browsers"].rows :
                                            now - clicked[c] >= Retention})
  <2>1. Loaded => page # Closed
    BY DEF Loaded
  <2> QED
    BY <2>1, OpenPage DEF StatsIInv, TotalsCover, Kinds
<1>0. page # Closed /\ page.answers[page.kind].served /\ page.answers["total"].served
  BY DEF Loaded, Queries
<1>1. ASSUME page.kind = "days"
      PROVE  ThisMonthCard <= TotalClicks /\ Last7DaysCard <= TotalClicks
  <2>1. (now % Month) \in 0..(Month - 1)
    BY Numbers, DaysAssumption
  <2>2. /\ now - (now % Month) \in Int /\ now - (now % Month) > now - Retention
        /\ now - 7 \in Int /\ now - 7 > now - Retention
    BY <2>1, Numbers, DaysAssumption, RetentionAssumption
  <2> QED
    BY <1>0, <1>1, <2>2, TotalCoversDays DEF ThisMonthCard, Last7DaysCard
<1> DEFINE t == page.answers["total"]
<1>2. IsFiniteSet(t.rows)
  BY <1>0, AnswerRows DEF Queries
<1>3. ASSUME page.kind = "today" PROVE ClicksToday <= TotalClicks
  <2> DEFINE a == page.answers["today"]
  <2>1. a.rows \subseteq a.ever /\ a.ever \subseteq t.ever
    BY <1>0, <1>3, AnswerRows, TodayQueries
  <2>2. a.rows \cap (t.ever \ t.rows) = {}
    BY <1>0, <1>3 DEF TodayCounted
  <2>3. a.rows \subseteq t.rows
    BY <2>1, <2>2
  <2> QED
    BY <1>2, <2>3, FS_Subset DEF ClicksToday, TotalClicks
<1>4. ASSUME page.kind = "browsers"
      PROVE  Total(Browsers) <= TotalClicks
               + Cardinality({c \in page.answers["browsers"].rows : now - clicked[c] >= Retention})
  <2> DEFINE a == page.answers["browsers"]
             Past == {c \in a.rows : now - clicked[c] >= Retention}
  <2>1. /\ a.rows \subseteq a.ever /\ a.ever \subseteq t.ever /\ IsFiniteSet(a.rows)
        /\ \A c \in t.ever \ t.rows : now - clicked[c] >= Retention
    BY <1>0, <1>4, AnswerRows DEF Queries
  <2>2. Total(Browsers) = Cardinality(a.rows)
    BY <1>0, <1>4, BrowsersCount
  <2>3. IsFiniteSet(Past)
    BY <2>1, FS_Subset
  <2>4. a.rows \subseteq t.rows \cup Past
    BY <2>1
  <2> HIDE DEF a, Past
  <2>5. Cardinality(a.rows) <= Cardinality(t.rows) + Cardinality(Past)
    BY <1>2, <2>3, <2>4, AtMostBoth
  <2> QED
    BY <2>2, <2>5 DEF TotalClicks, Past, a
<1> QED
  BY <1>1, <1>3, <1>4

(* The cards count every click of their windows, for the purge spares all  *)
(* they show; no figure exceeds a total that was counted with all of its   *)
(* clicks inserted and their links in the account, a breakdown by more     *)
(* than what is past its retention (click-event-repository.ts,             *)
(* analytics-summary.tsx).                                                 *)
THEOREM FiguresRightHolds == StatsSpec => []FiguresRight
<1>1. StatsIInv => FiguresRight
  BY CardsCompleteHolds, TotalsCoverHolds DEF FiguresRight
<1> QED
  BY <1>1, StatisticsInvariantHolds, PTL

-----------------------------------------------------------------------------
(* Containers coming up.                                                   *)

(* The part of IInv that is about the order of the migrations.             *)
Order == OncePerFile /\ InOrder /\ LoopInOrder /\ Exclusive /\ CommitsNew

(* Only a serving container is probed or healthy.                          *)
ProbesServe ==
  \A c \in Containers : Probing(c) \/ health[c] = "healthy" => pc[c] = "serving"

Traffic == ProbesServe /\ SchemaBeforeTraffic

(* Files are counted from 1, and an image's files are among them.          *)
LEMMA FileNumbers ==
  /\ Files \subseteq Nat \ {0}
  /\ \A c \in Containers : Release[c] \in Nat /\ 1..Release[c] \subseteq Files
BY ReleaseAssumption DEF Files

(* So a runner's place in its loop is a number.                            *)
LEMMA PlacesAreNumbers ==
  ASSUME TypeOK, NEW c \in Containers
  PROVE  at[c] \in Nat /\ \A f \in 1..Release[c] : f \in Nat
<1>1. at[c] \in Files \cup {0}
  BY DEF TypeOK
<1>2. at[c] \in Nat
  <2>1. Files \cup {0} \subseteq Nat
    BY FileNumbers
  <2> QED
    BY <1>1, <2>1
<1>3. Release[c] \in Nat
  BY FileNumbers
<1> QED
  BY <1>2, <1>3

(* An idle probe has the type of one.                                      *)
LEMMA NoProbeType ==
  NoProbe \in [Dependencies -> {"idle", "waiting", "ok", "failed"}]
BY DEF NoProbe

(* The initial state has nothing applied and nobody running.               *)
LEMMA BootInit == Init => TypeOK /\ Order /\ Traffic
<1> SUFFICES ASSUME Init PROVE TypeOK /\ Order /\ Traffic
  OBVIOUS
<1>1. TypeOK
  <2>1. executions \in [Files -> Nat] /\ at \in [Containers -> Files \cup {0}]
    BY DEF Init
  <2>2. pc \in [Containers -> Running \cup {"down", "serving"}]
    BY DEF Init
  <2>3. tracked \in BOOLEAN /\ recorded \subseteq Files /\ nginx \in BOOLEAN
    BY DEF Init
  <2>4. applied \in [Containers -> SUBSET Files] /\ faults \in 0..MaxFaults
    BY FaultsAssumption DEF Init
  <2>5. /\ health \in [Containers -> {"starting", "healthy", "unhealthy"}]
        /\ dependency \in [Dependencies -> {"up", "down", "hung"}]
    BY DEF Init
  <2>6. checks \in [Containers -> [Dependencies -> {"idle", "waiting", "ok", "failed"}]]
    BY NoProbeType DEF Init
  <2> QED
    BY <2>1, <2>2, <2>3, <2>4, <2>5, <2>6 DEF TypeOK
<1>2. Order
  BY DEF Init, Order, OncePerFile, InOrder, LoopInOrder, Exclusive, CommitsNew
<1>3. Traffic
  BY DEF Init, Traffic, ProbesServe, SchemaBeforeTraffic, Probing
<1> QED
  BY <1>1, <1>2, <1>3

-----------------------------------------------------------------------------
(* Types.                                                                  *)

LEMMA ExitKeepsTypes ==
  ASSUME TypeOK, NEW c \in Containers, Exit(c), UNCHANGED <<schemaVars, dependency>>,
         faults' \in 0..MaxFaults
  PROVE  TypeOK'
BY NoProbeType DEF TypeOK, Exit, Goto, schemaVars, Running, Connected

(* A runner with a transaction open is at a file.                          *)
LEMMA AtFile ==
  ASSUME LoopInOrder, NEW c \in Containers, pc[c] \in {"script", "record", "commit"}
  PROVE  at[c] \in 1..Release[c] /\ at[c] \in Files /\ at[c] \in Nat \ {0}
BY FileNumbers DEF LoopInOrder

LEMMA TypeStep == TypeOK /\ LoopInOrder /\ [Next]_vars => TypeOK'
<1> SUFFICES ASSUME TypeOK, LoopInOrder, [Next]_vars PROVE TypeOK'
  OBVIOUS
<1>1. ASSUME NEW c \in Containers, Migrates(c) PROVE TypeOK'
  <2>1. CASE \/ Start(c) \/ LookUp(c) \/ CreateTracker(c) \/ RunScript(c)
             \/ Record(c) \/ Serve(c)
    BY <2>1 DEF TypeOK, Start, LookUp, CreateTracker, RunScript, Record, Serve, Goto, Running,
       Connected, schemaVars, runnerVars, probeVars
  <2>2. CASE CreateCollides(c) \/ Collides(c) \/ ConnectionLost(c)
    BY <2>2, ExitKeepsTypes DEF CreateCollides, Collides, ConnectionLost, TypeOK, schemaVars
  <2>3. CASE ReadApplied(c)
    BY <2>3 DEF TypeOK, ReadApplied, Goto, Running, schemaVars, probeVars
  <2>4. CASE Begin(c)
    BY <2>4 DEF TypeOK, Begin, Goto, Running, Connected, schemaVars, probeVars
  <2>5. CASE Commit(c)
    <3>1. at[c] \in Files
      BY <2>5, AtFile DEF Commit, Committed
    <3> QED
      BY <2>5, <3>1 DEF TypeOK, Commit, Committed, Goto, Running, probeVars
  <2> QED
    BY <1>1, <2>1, <2>2, <2>3, <2>4, <2>5 DEF Migrates
<1>2. ASSUME NEW c \in Containers, StartProbe(c) \/ Probes(c) PROVE TypeOK'
  <2>1. checks' \in [Containers -> [Dependencies -> {"idle", "waiting", "ok", "failed"}]]
    <3>1. CASE StartProbe(c)
      BY <3>1 DEF TypeOK, StartProbe
    <3>2. CASE ProbeEnds(c)
      BY <3>2, NoProbeType DEF TypeOK, ProbeEnds
    <3>3. ASSUME NEW d \in Dependencies, DependencyAnswers(c, d) \/ CheckTimesOut(c, d)
          PROVE  checks' \in [Containers -> [Dependencies -> {"idle", "waiting", "ok", "failed"}]]
      <4>1. PICK result \in {"ok", "failed"} : checks' = [checks EXCEPT ![c][d] = result]
        BY <3>3 DEF DependencyAnswers, CheckTimesOut, CheckEnds
      <4> QED
        BY <4>1 DEF TypeOK
    <3> QED
      BY <1>2, <3>1, <3>2, <3>3 DEF Probes
  <2>2. /\ health' \in [Containers -> {"starting", "healthy", "unhealthy"}]
        /\ UNCHANGED <<schemaVars, runnerVars, nginx, dependency, faults>>
    BY <1>2 DEF TypeOK, StartProbe, Probes, ProbeEnds, DependencyAnswers, CheckTimesOut, CheckEnds
  <2> QED
    BY <2>1, <2>2 DEF TypeOK, schemaVars, runnerVars
<1>3. ASSUME NEW c \in Containers, QueryFails(c) \/ Fails(c) \/ CommitUnheard(c) PROVE TypeOK'
  <2>1. faults' \in 0..MaxFaults
    BY <1>3, FaultsAssumption DEF QueryFails, Fails, CommitUnheard, Fault, TypeOK
  <2>2. CASE QueryFails(c) \/ Fails(c)
    BY <2>1, <2>2, ExitKeepsTypes DEF QueryFails, Fails, schemaVars
  <2>3. CASE CommitUnheard(c)
    <3>1. at[c] \in Files
      BY <2>3, AtFile DEF CommitUnheard, Committed
    <3> QED
      BY <2>1, <2>3, <3>1, NoProbeType DEF TypeOK, CommitUnheard, Committed, Exit, Goto, Running
  <2> QED
    BY <1>3, <2>2, <2>3
<1>4. ASSUME NEW d \in Dependencies, Outage(d) \/ Recovers(d) PROVE TypeOK'
  <2>1. CASE Outage(d)
    <3>1. pc' \in [Containers -> Running \cup {"down", "serving"}]
      BY <2>1 DEF Outage, TypeOK, Running
    <3>2. dependency' \in [Dependencies -> {"up", "down", "hung"}] /\ faults' \in 0..MaxFaults
      BY <2>1, FaultsAssumption DEF Outage, Fault, TypeOK
    <3> QED
      BY <2>1, <3>1, <3>2 DEF TypeOK, Outage, schemaVars, probeVars
  <2>2. CASE Recovers(d)
    BY <2>2 DEF TypeOK, Recovers, schemaVars, runnerVars, probeVars
  <2> QED
    BY <1>4, <2>1, <2>2
<1>5. CASE StartNginx
  BY <1>5 DEF TypeOK, StartNginx, schemaVars, runnerVars
<1>6. CASE UNCHANGED vars
  BY <1>6 DEF TypeOK, vars, schemaVars, runnerVars, probeVars
<1> QED
  BY <1>1, <1>2, <1>3, <1>4, <1>5, <1>6 DEF Next

-----------------------------------------------------------------------------
(* The order of the migrations.                                            *)

(* A step that changes neither the schema nor a runner keeps it.           *)
LEMMA OrderFrame == Order /\ UNCHANGED <<schemaVars, runnerVars>> => Order'
BY DEF Order, OncePerFile, InOrder, LoopInOrder, Exclusive, CommitsNew, schemaVars, runnerVars

(* So do runners that end or lose their connection: their transactions are *)
(* rolled back.                                                            *)
LEMMA RollbackKeepsOrder ==
  ASSUME Order, UNCHANGED <<schemaVars, at, applied>>,
         \A d \in Containers : pc'[d] \in {pc[d], "down", "cut"}
  PROVE  Order'
BY DEF Order, OncePerFile, InOrder, LoopInOrder, Exclusive, CommitsNew, schemaVars

LEMMA ExitKeepsOrder ==
  ASSUME TypeOK, Order, NEW c \in Containers, Exit(c), UNCHANGED schemaVars
  PROVE  Order'
<1>1. \A d \in Containers : pc'[d] \in {pc[d], "down", "cut"}
  BY DEF Exit, Goto, TypeOK
<1> QED
  BY <1>1, RollbackKeepsOrder DEF Exit

(* A commit puts the next file in, wherever its runner goes from there.    *)
LEMMA CommittedKeepsOrder ==
  ASSUME TypeOK, Order, NEW c \in Containers, Committed(c), UNCHANGED <<at, applied>>,
         NEW label \in {"next", "down"}, Goto(c, label)
  PROVE  Order'
<1>1. /\ at[c] \in 1..Release[c] /\ at[c] \in Files /\ at[c] \in Nat \ {0}
      /\ at[c] \notin recorded
  BY AtFile DEF Committed, Order, CommitsNew
<1>2. pc' = [pc EXCEPT ![c] = label]
  BY DEF Goto
<1>3. OncePerFile'
  BY <1>1 DEF Committed, Order, OncePerFile, TypeOK
<1>4. InOrder'
  <2>1. \A f \in 1..at[c] : f \in recorded'
    BY <1>1, FileNumbers DEF Order, LoopInOrder, Committed
  <2> QED
    BY <2>1 DEF Committed, Order, InOrder
<1>5. LoopInOrder'
  <2> SUFFICES ASSUME NEW d \in Containers
               PROVE  /\ applied'[d] \subseteq recorded'
                      /\ pc'[d] \in {"script", "record", "commit"} => at'[d] \in 1..Release[d]
                      /\ pc'[d] \in {"next", "script", "record", "commit", "serving"} =>
                           \A f \in 1..Release[d] :
                             f < at'[d] \/ (f = at'[d] /\ pc'[d] \in {"next", "serving"})
                               => f \in recorded'
    BY DEF LoopInOrder
  <2>1. CASE d = c
    BY <1>1, <1>2, <2>1 DEF Committed, Order, LoopInOrder, TypeOK
  <2>2. CASE d # c
    BY <1>2, <2>2 DEF Committed, Order, LoopInOrder, TypeOK
  <2> QED
    BY <2>1, <2>2
<1>6. Exclusive' /\ CommitsNew'
  BY <1>2 DEF Committed, Order, Exclusive, CommitsNew, TypeOK
<1> QED
  BY <1>3, <1>4, <1>5, <1>6 DEF Order

LEMMA OrderStep == TypeOK /\ Order /\ [Next]_vars => Order'
<1> SUFFICES ASSUME TypeOK, Order, [Next]_vars PROVE Order'
  OBVIOUS
<1>1. ASSUME NEW c \in Containers, Migrates(c) PROVE Order'
  <2>1. CASE Start(c) \/ LookUp(c) \/ CreateTracker(c) \/ Serve(c)
    BY <1>1, <2>1 DEF TypeOK, Start, LookUp, CreateTracker, Serve, Goto, schemaVars, Order,
       OncePerFile, InOrder, LoopInOrder, Exclusive, CommitsNew
  <2>2. CASE CreateCollides(c) \/ Collides(c) \/ ConnectionLost(c)
    BY <2>2, ExitKeepsOrder DEF CreateCollides, Collides, ConnectionLost
  <2>3. CASE ReadApplied(c)
    <3>1. OncePerFile' /\ InOrder' /\ Exclusive' /\ CommitsNew'
      BY <2>3 DEF ReadApplied, Goto, TypeOK, schemaVars, Order, OncePerFile, InOrder,
         Exclusive, CommitsNew
    <3>2. LoopInOrder'
      BY <2>3, FileNumbers DEF ReadApplied, Goto, TypeOK, schemaVars, Order, LoopInOrder
    <3> QED
      BY <3>1, <3>2 DEF Order
  <2>4. CASE Begin(c)
    <3>1. OncePerFile' /\ InOrder' /\ Exclusive' /\ CommitsNew'
      BY <2>4 DEF Begin, Goto, TypeOK, schemaVars, Order, OncePerFile, InOrder, Exclusive,
         CommitsNew
    <3>2. PICK f \in Files : NextFile(c, f) /\ at' = [at EXCEPT ![c] = f]
      BY <2>4 DEF Begin
    <3>3. \A g \in 1..Release[c] : g < f => g \in recorded
      <4> SUFFICES ASSUME NEW g \in 1..Release[c], g < f PROVE g \in recorded
        OBVIOUS
      <4>1. f \in Nat /\ g \in Nat /\ at[c] \in Nat
        BY FileNumbers, PlacesAreNumbers
      <4>2. g \notin Pending(c)
        BY <3>2, <4>1 DEF NextFile
      <4>3. CASE g \in applied[c]
        BY <4>3 DEF Order, LoopInOrder
      <4>4. CASE ~(g > at[c])
        BY <2>4, <4>1, <4>4 DEF Begin, Order, LoopInOrder
      <4> QED
        BY <4>2, <4>3, <4>4 DEF Pending
    <3>4. f \in 1..Release[c]
      BY <3>2 DEF NextFile, Pending
    <3>5. LoopInOrder'
      BY <2>4, <3>2, <3>3, <3>4 DEF Begin, Goto, TypeOK, schemaVars, Order, LoopInOrder
    <3> QED
      BY <3>1, <3>5 DEF Order
  <2>5. CASE RunScript(c)
    <3>1. OncePerFile' /\ InOrder' /\ LoopInOrder' /\ CommitsNew'
      BY <2>5 DEF RunScript, Goto, TypeOK, schemaVars, Order, OncePerFile, InOrder,
         LoopInOrder, CommitsNew
    <3>2. Exclusive'
      BY <2>5 DEF RunScript, Locked, Goto, TypeOK, Order, Exclusive
    <3> QED
      BY <3>1, <3>2 DEF Order
  <2>6. CASE Record(c)
    <3>1. OncePerFile' /\ InOrder' /\ LoopInOrder' /\ CommitsNew'
      BY <2>6 DEF Record, Goto, TypeOK, schemaVars, Order, OncePerFile, InOrder,
         LoopInOrder, CommitsNew
    <3>2. Exclusive'
      BY <2>6 DEF Record, Goto, TypeOK, Order, Exclusive
    <3> QED
      BY <3>1, <3>2 DEF Order
  <2>7. CASE Commit(c)
    BY <2>7, CommittedKeepsOrder DEF Commit
  <2> QED
    BY <1>1, <2>1, <2>2, <2>3, <2>4, <2>5, <2>6, <2>7 DEF Migrates
<1>2. ASSUME NEW c \in Containers, StartProbe(c) \/ Probes(c) PROVE Order'
  BY <1>2, OrderFrame DEF StartProbe, Probes, ProbeEnds, DependencyAnswers, CheckTimesOut, CheckEnds
<1>3. ASSUME NEW c \in Containers, QueryFails(c) \/ Fails(c) \/ CommitUnheard(c) PROVE Order'
  <2>1. CASE QueryFails(c) \/ Fails(c)
    BY <2>1, ExitKeepsOrder DEF QueryFails, Fails
  <2>2. CASE CommitUnheard(c)
    BY <2>2, CommittedKeepsOrder DEF CommitUnheard, Exit
  <2> QED
    BY <1>3, <2>1, <2>2
<1>4. ASSUME NEW d \in Dependencies, Outage(d) \/ Recovers(d) PROVE Order'
  <2>1. CASE Outage(d)
    <3>1. \A c \in Containers : pc'[c] \in {pc[c], "down", "cut"}
      BY <2>1 DEF Outage
    <3> QED
      BY <2>1, <3>1, RollbackKeepsOrder DEF Outage
  <2>2. CASE Recovers(d)
    BY <2>2, OrderFrame DEF Recovers
  <2> QED
    BY <1>4, <2>1, <2>2
<1>5. CASE StartNginx
  BY <1>5, OrderFrame DEF StartNginx
<1>6. CASE UNCHANGED vars
  BY <1>6, OrderFrame DEF vars
<1> QED
  BY <1>1, <1>2, <1>3, <1>4, <1>5, <1>6 DEF Next

-----------------------------------------------------------------------------
(* Traffic.                                                                *)

(* The schema only grows.                                                  *)
LEMMA SchemaGrows == TypeOK /\ [Next]_vars => recorded \subseteq recorded'
BY DEF Next, vars, schemaVars, Migrates, Start, LookUp, CreateTracker, CreateCollides, ReadApplied,
   Begin, RunScript, Collides, Record, Commit, Committed, Serve, ConnectionLost, QueryFails,
   StartProbe, Probes, ProbeEnds, DependencyAnswers, CheckTimesOut, CheckEnds, Fails,
   CommitUnheard, Outage, Recovers, StartNginx

(* Whoever starts to serve has found nothing left to apply.                *)
LEMMA ServesComplete ==
  ASSUME TypeOK, Order, NEW c \in Containers, Serve(c)
  PROVE  1..Release[c] \subseteq recorded
<1> SUFFICES ASSUME NEW f \in 1..Release[c] PROVE f \in recorded
  OBVIOUS
<1>1. f \in Nat /\ at[c] \in Nat
  BY PlacesAreNumbers
<1>2. f <= at[c] \/ f \in applied[c]
  BY <1>1 DEF Serve, Pending
<1> QED
  BY <1>1, <1>2 DEF Serve, Order, LoopInOrder

(* An end of a process takes its probe and its health with it.             *)
LEMMA ExitKeepsTraffic ==
  ASSUME TypeOK, Traffic, NEW c \in Containers, Exit(c), recorded \subseteq recorded'
  PROVE  Traffic'
BY DEF Exit, Goto, TypeOK, Traffic, ProbesServe, Probing, NoProbe, SchemaBeforeTraffic

LEMMA TrafficStep == TypeOK /\ Order /\ Traffic /\ [Next]_vars => Traffic'
<1> SUFFICES ASSUME TypeOK, Order, Traffic, [Next]_vars PROVE Traffic'
  OBVIOUS
<1>0. recorded \subseteq recorded'
  BY SchemaGrows
<1>1. ASSUME NEW c \in Containers, Migrates(c) PROVE Traffic'
  <2>1. CASE CreateCollides(c) \/ Collides(c) \/ ConnectionLost(c)
    BY <1>0, <2>1, ExitKeepsTraffic DEF CreateCollides, Collides, ConnectionLost
  <2>2. CASE Serve(c)
    <3>1. 1..Release[c] \subseteq recorded'
      BY <1>0, <2>2, ServesComplete
    <3> QED
      BY <1>0, <2>2, <3>1 DEF Serve, Goto, TypeOK, probeVars, Traffic, ProbesServe, Probing,
         NoProbe, SchemaBeforeTraffic
  <2>3. CASE ~(CreateCollides(c) \/ Collides(c) \/ ConnectionLost(c) \/ Serve(c))
    <3>1. PICK label \in Running : Goto(c, label)
      BY <1>1, <2>3 DEF Migrates, Start, LookUp, CreateTracker, ReadApplied, Begin, RunScript,
         Record, Commit, Running, Connected
    <3>2. pc[c] # "serving" /\ UNCHANGED probeVars
      BY <1>1, <2>3 DEF Migrates, Start, LookUp, CreateTracker, ReadApplied, Begin, RunScript, Record,
         Commit, Committed
    <3> QED
      BY <1>0, <3>1, <3>2 DEF Goto, TypeOK, Running, Connected, probeVars, Traffic,
         ProbesServe, Probing, NoProbe, SchemaBeforeTraffic
  <2> QED
    BY <2>1, <2>2, <2>3
<1>2. ASSUME NEW c \in Containers, StartProbe(c) \/ Probes(c) PROVE Traffic'
  <2>1. pc[c] = "serving"
    BY <1>2 DEF StartProbe, Probes, ProbeEnds, DependencyAnswers, CheckTimesOut, CheckEnds,
       Traffic, ProbesServe, Probing, NoProbe
  <2>2. /\ UNCHANGED <<pc, recorded, nginx>>
        /\ \A d \in Containers \ {c} : checks'[d] = checks[d] /\ health'[d] = health[d]
    BY <1>2 DEF StartProbe, Probes, ProbeEnds, DependencyAnswers, CheckTimesOut, CheckEnds,
       schemaVars, runnerVars, TypeOK
  <2> QED
    BY <2>1, <2>2 DEF Traffic, ProbesServe, Probing, NoProbe, SchemaBeforeTraffic
<1>3. ASSUME NEW c \in Containers, QueryFails(c) \/ Fails(c) \/ CommitUnheard(c)
      PROVE  Traffic'
  BY <1>0, <1>3, ExitKeepsTraffic DEF QueryFails, Fails, CommitUnheard
<1>4. ASSUME NEW d \in Dependencies, Outage(d) \/ Recovers(d) PROVE Traffic'
  <2>1. \A c \in Containers : pc'[c] = "serving" <=> pc[c] = "serving"
    BY <1>4 DEF Outage, Recovers, Severed, Connected, runnerVars, TypeOK
  <2> QED
    BY <1>4, <2>1 DEF Outage, Recovers, schemaVars, probeVars, Traffic, ProbesServe,
       Probing, NoProbe, SchemaBeforeTraffic
<1>5. CASE StartNginx
  <2>1. \A c \in Containers : 1..Release[c] \subseteq recorded
    BY <1>5 DEF StartNginx, Traffic, ProbesServe, SchemaBeforeTraffic
  <2> QED
    BY <1>5, <2>1 DEF StartNginx, schemaVars, runnerVars, Traffic, ProbesServe, Probing,
       NoProbe, SchemaBeforeTraffic
<1>6. CASE UNCHANGED vars
  BY <1>6 DEF vars, schemaVars, runnerVars, probeVars, Traffic, ProbesServe, Probing, NoProbe,
     SchemaBeforeTraffic
<1> QED
  BY <1>1, <1>2, <1>3, <1>4, <1>5, <1>6 DEF Next

-----------------------------------------------------------------------------
LEMMA BootInvariant == Spec => [](TypeOK /\ Order /\ Traffic)
<1>1. TypeOK /\ Order /\ Traffic /\ [Next]_vars => (TypeOK /\ Order /\ Traffic)'
  BY TypeStep, OrderStep, TrafficStep DEF Order
<1> QED
  BY <1>1, BootInit, PTL DEF Spec

(* Every migration takes effect once, exactly when it is recorded, and in  *)
(* filename order, whatever runners race or die (migrate.ts:29-43).        *)
THEOREM MigrationsInvariantHolds == Spec => []IInv
<1>1. TypeOK /\ Order /\ Traffic => IInv
  BY DEF Order, IInv
<1> QED
  BY <1>1, BootInvariant, PTL

(* No container serves, and nginx forwards nothing, before the schema has  *)
(* every migration of its image (the start command, depends_on).           *)
THEOREM SchemaBeforeTrafficHolds == Spec => []SchemaBeforeTraffic
<1>1. TypeOK /\ Order /\ Traffic => SchemaBeforeTraffic
  BY DEF Traffic
<1> QED
  BY <1>1, BootInvariant, PTL
=============================================================================
