-------------------------- MODULE ApiRoutesProofs --------------------------
(***************************************************************************)
(* Proofs about ApiRoutes and its limiter for any clients, requests in     *)
(* progress, budgets' sizes and windows: every counter expires, a window's *)
(* length of time sees at most two budgets, and every request spends its   *)
(* own budget and acts for its own account.                                *)
(***************************************************************************)
EXTENDS ApiRoutes, FiniteSetTheorems, SequenceTheorems,
        WellFoundedInduction, TLAPS

-----------------------------------------------------------------------------
(* The least of a set of naturals.                                         *)
LEMMA LeastOfNaturals ==
  ASSUME NEW S \in SUBSET Nat, S # {}
  PROVE  \E x \in S : \A y \in S : x <= y
<1> DEFINE less == OpToRel(<, Nat)
<1>1. \A x \in Nat, y \in Nat : y < x => <<y, x>> \in less
  BY DEF OpToRel
<1>2. IsWellFoundedOn(less, Nat)
  BY NatLessThanWellFounded
<1> HIDE DEF less
<1>3. PICK x \in S : \A y \in S : <<y, x>> \notin less
  BY <1>2, WFMin
<1>4. \A y \in S : ~(y < x)
  BY <1>1, <1>3
<1> QED
  BY <1>4

LEMMA MinOfTwo ==
  ASSUME NEW a \in Int, NEW b \in Int
  PROVE  Min({a, b}) = IF a < b THEN a ELSE b
<1> DEFINE least == IF a < b THEN a ELSE b
<1>1. least \in {a, b} /\ \A y \in {a, b} : least <= y
  OBVIOUS
<1>2. \A x \in {a, b} : (\A y \in {a, b} : x <= y) => x = least
  OBVIOUS
<1> HIDE DEF least
<1>3. Min({a, b}) = least
  BY <1>1, <1>2 DEF Min
<1> QED
  BY <1>3 DEF least

-----------------------------------------------------------------------------
(* Counting admissions.                                                    *)

Ages == 0..(Window - 1)
Counts == [Ages -> Nat]
AdmittedIn(rec, ages) == UNION {{a} \X (1..rec[a]) : a \in ages}

LEMMA AdmittedMembers ==
  ASSUME NEW rec \in Counts, NEW ages \in SUBSET Ages
  PROVE  \A p : p \in AdmittedIn(rec, ages) <=>
                  \E a \in ages : \E k \in 1..rec[a] : p = <<a, k>>
BY DEF AdmittedIn

LEMMA AdmittedFinite ==
  ASSUME NEW rec \in Counts, NEW ages \in SUBSET Ages
  PROVE  /\ IsFiniteSet(AdmittedIn(rec, ages))
         /\ Cardinality(AdmittedIn(rec, ages)) \in Nat
<1> DEFINE parts == {{a} \X (1..rec[a]) : a \in ages}
           part == [a \in ages |-> {a} \X (1..rec[a])]
<1>1. IsFiniteSet(Ages)
  <2>1. 0 \in Int /\ Window - 1 \in Int
    BY SomeTime
  <2> QED
    BY <2>1, FS_Interval DEF Ages
<1>2. IsFiniteSet(ages)
  BY <1>1, FS_Subset
<1>3. part \in Surjection(ages, parts)
  BY DEF Surjection
<1>4. IsFiniteSet(parts)
  <2> HIDE DEF part, parts
  <2> QED
    BY <1>2, <1>3, FS_Surjection
<1>5. ASSUME NEW a \in ages PROVE IsFiniteSet({a} \X (1..rec[a]))
  <2>1. rec[a] \in Int /\ 1 \in Int
    BY DEF Counts
  <2>2. IsFiniteSet(1..rec[a]) /\ IsFiniteSet({a})
    BY <2>1, FS_Interval, FS_Singleton
  <2> QED
    BY <2>2, FS_Product
<1>6. IsFiniteSet(AdmittedIn(rec, ages))
  BY <1>4, <1>5, FS_UNION DEF AdmittedIn
<1> QED
  BY <1>6, FS_CardinalityType

(* More ages, more admissions.                                             *)
LEMMA AdmittedGrow ==
  ASSUME NEW rec \in Counts, NEW ages \in SUBSET Ages, NEW fewer \in SUBSET ages
  PROVE  Cardinality(AdmittedIn(rec, fewer)) <= Cardinality(AdmittedIn(rec, ages))
<1>1. AdmittedIn(rec, fewer) \in SUBSET AdmittedIn(rec, ages)
  BY DEF AdmittedIn
<1> QED
  BY <1>1, AdmittedFinite, FS_Subset

(* Two ranges of ages see at most what each sees.                          *)
LEMMA AdmittedSplit ==
  ASSUME NEW rec \in Counts, NEW early \in SUBSET Ages, NEW late \in SUBSET Ages
  PROVE  Cardinality(AdmittedIn(rec, early \cup late)) <=
           Cardinality(AdmittedIn(rec, early)) + Cardinality(AdmittedIn(rec, late))
<1> DEFINE A == AdmittedIn(rec, early)
           B == AdmittedIn(rec, late)
<1>1. AdmittedIn(rec, early \cup late) = A \cup B
  BY DEF AdmittedIn
<1>2. /\ IsFiniteSet(A) /\ IsFiniteSet(B)
      /\ Cardinality(A) \in Nat /\ Cardinality(B) \in Nat
  BY AdmittedFinite
<1> HIDE DEF A, B
<1>3. IsFiniteSet(A \cap B)
  <2>1. A \cap B \in SUBSET A
    OBVIOUS
  <2> QED
    BY <1>2, <2>1, FS_Subset
<1>4. Cardinality(A \cap B) \in Nat
  BY <1>3, FS_CardinalityType
<1>5. Cardinality(A \cup B) = Cardinality(A) + Cardinality(B) - Cardinality(A \cap B)
  BY <1>2, FS_Union
<1>6. Cardinality(A \cup B) <= Cardinality(A) + Cardinality(B)
  BY <1>2, <1>4, <1>5
<1> QED
  BY <1>1, <1>6 DEF A, B

LEMMA NoneAdmitted ==
  ASSUME NEW rec \in Counts, NEW ages \in SUBSET Ages, \A a \in ages : rec[a] = 0
  PROVE  Cardinality(AdmittedIn(rec, ages)) = 0
<1>1. AdmittedIn(rec, ages) = {}
  BY DEF AdmittedIn
<1> QED
  BY <1>1, FS_EmptySet

(* One more admission, now.                                                *)
Again(rec) == [rec EXCEPT ![0] = @ + 1]

LEMMA AdmittedAgain ==
  ASSUME NEW rec \in Counts, NEW ages \in SUBSET Ages
  PROVE  /\ Again(rec) \in Counts
         /\ Cardinality(AdmittedIn(Again(rec), ages)) <=
              Cardinality(AdmittedIn(rec, ages)) + 1
         /\ 0 \notin ages => AdmittedIn(Again(rec), ages) = AdmittedIn(rec, ages)
<1> DEFINE A == AdmittedIn(rec, ages)
           B == AdmittedIn(Again(rec), ages)
           now == <<0, rec[0] + 1>>
<1>1. 0 \in Ages
  BY SomeTime DEF Ages
<1>2. /\ Again(rec) \in Counts /\ rec[0] \in Nat /\ Again(rec)[0] = rec[0] + 1
      /\ \A a \in Ages : a # 0 => Again(rec)[a] = rec[a]
  BY <1>1 DEF Again, Counts
<1>3. B \subseteq A \cup {now}
  <2> SUFFICES ASSUME NEW a \in ages, NEW k \in 1..Again(rec)[a]
               PROVE  <<a, k>> \in A \cup {now}
    BY <1>2, AdmittedMembers
  <2>1. CASE a = 0
    <3>1. k \in 1..rec[0] \/ k = rec[0] + 1
      BY <1>2, <2>1
    <3> QED
      BY <2>1, <3>1, AdmittedMembers
  <2>2. CASE a # 0
    <3>1. k \in 1..rec[a]
      BY <1>2, <2>2
    <3> QED
      BY <3>1, AdmittedMembers
  <2> QED
    BY <2>1, <2>2
<1>4. 0 \notin ages => B = A
  <2>1. ASSUME 0 \notin ages, NEW a \in ages PROVE Again(rec)[a] = rec[a]
    BY <1>2, <2>1
  <2> QED
    BY <2>1 DEF AdmittedIn
<1>5. Cardinality(B) <= Cardinality(A) + 1
  <2> HIDE DEF A, B
  <2>1. IsFiniteSet(A) /\ Cardinality(A) \in Nat /\ IsFiniteSet(B) /\ Cardinality(B) \in Nat
    BY <1>2, AdmittedFinite DEF A, B
  <2>2. /\ IsFiniteSet(A \cup {now})
        /\ Cardinality(A \cup {now}) = IF now \in A THEN Cardinality(A) ELSE Cardinality(A) + 1
    BY <2>1, FS_AddElement
  <2>3. Cardinality(B) <= Cardinality(A \cup {now})
    BY <1>3, <2>2, FS_Subset
  <2> QED
    BY <2>1, <2>2, <2>3
<1> QED
  BY <1>2, <1>4, <1>5

(* A tick later everything is older, and what was oldest is gone.          *)
Older(rec) == [a \in DOMAIN rec |-> IF a = 0 THEN 0 ELSE rec[a - 1]]

LEMMA AdmittedOlder ==
  ASSUME NEW rec \in Counts, NEW ages \in SUBSET Ages, NEW later \in SUBSET Ages,
         \A b \in later : b # 0 => b - 1 \in ages
  PROVE  /\ Older(rec) \in Counts /\ Older(rec)[0] = 0
         /\ Cardinality(AdmittedIn(Older(rec), later)) <= Cardinality(AdmittedIn(rec, ages))
<1> DEFINE A == AdmittedIn(rec, ages)
           B == AdmittedIn(Older(rec), later)
           f == [p \in B |-> <<p[1] - 1, p[2]>>]
<1>1. 0 \in Ages /\ DOMAIN rec = Ages /\ \A a \in Ages : a \in Nat /\ (a # 0 => a - 1 \in Ages)
  BY SomeTime DEF Ages, Counts
<1>2. /\ Older(rec) \in Counts /\ Older(rec)[0] = 0
      /\ \A a \in Ages : a # 0 => Older(rec)[a] = rec[a - 1]
  BY <1>1 DEF Older, Counts
<1>3. ASSUME NEW p \in B
      PROVE  p = <<p[1], p[2]>> /\ p[1] \in Int /\ <<p[1] - 1, p[2]>> \in A
  <2>1. PICK b \in later : \E k \in 1..Older(rec)[b] : p = <<b, k>>
    BY <1>2, AdmittedMembers
  <2>5. PICK k \in 1..Older(rec)[b] : p = <<b, k>>
    BY <2>1
  <2>2. b # 0
    BY <1>2
  <2>3. k \in 1..rec[b - 1] /\ b - 1 \in ages
    BY <1>2, <2>2
  <2>4. <<b - 1, k>> \in A
    BY <2>3, AdmittedMembers
  <2> QED
    BY <1>1, <2>5, <2>4
<1> HIDE DEF A, B
<1>4. f \in [B -> A]
  BY <1>3
<1>5. ASSUME NEW p \in B, NEW q \in B, f[p] = f[q] PROVE p = q
  <2>1. <<p[1] - 1, p[2]>> = <<q[1] - 1, q[2]>>
    BY <1>5
  <2>2. p[1] - 1 = q[1] - 1 /\ p[2] = q[2]
    BY <2>1
  <2>3. p[1] = q[1]
    <3>1. p[1] \in Int /\ q[1] \in Int
      BY <1>3
    <3> QED
      BY <2>2, <3>1
  <2> QED
    BY <2>2, <2>3, <1>3
<1>6. f \in Injection(B, A)
  <2> HIDE DEF f
  <2> QED
    BY <1>4, <1>5 DEF Injection, IsInjective
<1>7. IsFiniteSet(A)
  BY AdmittedFinite DEF A
<1>8. Cardinality(B) <= Cardinality(A)
  BY <1>6, <1>7, FS_Injection
<1> QED
  BY <1>2, <1>8 DEF A, B

-----------------------------------------------------------------------------
(* One counter.                                                            *)

Buckets == [count : 0..Cap, ttl : Forever..Window]
Expires(b) == b.count > 0 => b.ttl > 0

ApartIn(b, rec) ==
  IF b.count = 0
    THEN rec[0] = 0 /\ Cardinality(AdmittedIn(rec, Ages)) <= MaxRequests
    ELSE /\ Cardinality(AdmittedIn(rec, 0..Age(b))) <= Min({b.count, MaxRequests})
         /\ Cardinality(AdmittedIn(rec, (Age(b) + 1)..(Window - 1))) <= MaxRequests

LEMMA LimiterParts ==
  LimiterTypeOK => /\ watched \in Keys /\ bucket \in Buckets /\ recent \in Counts
                   /\ DOMAIN recent = Ages
                   /\ CountersExpire <=> Expires(bucket)
                   /\ WindowsApart <=> ApartIn(bucket, recent)
<1> SUFFICES ASSUME LimiterTypeOK
             PROVE  /\ watched \in Keys /\ bucket \in Buckets /\ recent \in Counts
                    /\ DOMAIN recent = Ages
                    /\ CountersExpire <=> Expires(bucket)
                    /\ WindowsApart <=> ApartIn(bucket, recent)
  OBVIOUS
<1>1. watched \in Keys /\ bucket \in Buckets /\ recent \in Counts
  BY DEF LimiterTypeOK, Buckets, Counts, Ages
<1>2. DOMAIN recent = Ages
  BY <1>1 DEF Counts
<1>3. \A ages : Admitted(ages) = AdmittedIn(recent, ages)
  BY DEF Admitted, AdmittedIn
<1>4. CountersExpire <=> Expires(bucket)
  BY DEF CountersExpire, Expires
<1>5. WindowsApart <=> ApartIn(bucket, recent)
  BY <1>2, <1>3, Zenon DEF WindowsApart, ApartIn
<1> QED
  BY <1>1, <1>2, <1>4, <1>5

(* An INCR, or two: a counter at rest starts its window, one that runs     *)
(* keeps its deadline, and an admission is counted.                        *)
Grows(b, c) ==
  /\ c \in Buckets
  /\ b.count <= c.count /\ 0 < c.count
  /\ c.count <= MaxRequests => b.count < c.count
  /\ c.ttl = IF b.count = 0 THEN Window ELSE b.ttl

LEMMA IncrementGrows ==
  ASSUME NEW b \in Buckets, Expires(b)
  PROVE  Grows(b, Incremented(b))
<1>1. /\ b.count \in Nat /\ b.count <= Cap /\ b.ttl \in Int /\ b.ttl <= Window
      /\ Cap = MaxRequests + 1 /\ MaxRequests \in Nat \ {0} /\ Window \in Nat \ {0}
      /\ Forever = -1
  BY SomeRequests, SomeTime DEF Buckets, Cap, Forever
<1>2. Min({b.count + 1, Cap}) = IF b.count + 1 < Cap THEN b.count + 1 ELSE Cap
  BY <1>1, MinOfTwo
<1> DEFINE c == Incremented(b)
<1>3. /\ c = [count |-> c.count, ttl |-> c.ttl]
      /\ c.count = IF b.count + 1 < Cap THEN b.count + 1 ELSE Cap
      /\ c.ttl = IF b.count = 0 \/ b.ttl = Forever THEN Window ELSE b.ttl
  BY <1>2 DEF Incremented
<1>4. c.ttl = IF b.count = 0 THEN Window ELSE b.ttl
  BY <1>1, <1>3 DEF Expires
<1>5. c.count \in 0..Cap /\ c.ttl \in Forever..Window
  BY <1>1, <1>3, <1>4 DEF Expires
<1> HIDE DEF c
<1>6. c \in Buckets
  BY <1>3, <1>5 DEF Buckets
<1>7. Grows(b, c)
  BY <1>1, <1>3, <1>4, <1>6 DEF Grows
<1> QED
  BY <1>7 DEF c

LEMMA GrownExpires ==
  ASSUME NEW b \in Buckets, NEW c, Expires(b), Grows(b, c)
  PROVE  c \in Buckets /\ Expires(c)
<1>1. b.count \in Nat /\ b.ttl \in Int /\ Window \in Nat \ {0}
  BY SomeTime DEF Buckets, Cap, Forever
<1> QED
  BY <1>1 DEF Grows, Expires

LEMMA GrowsTwice ==
  ASSUME NEW b \in Buckets, NEW c, NEW d, Grows(b, c), Grows(c, d)
  PROVE  Grows(b, d)
<1>1. /\ b.count \in Nat /\ c.count \in Nat /\ d.count \in Nat /\ MaxRequests \in Nat
      /\ d \in Buckets
  BY SomeRequests DEF Buckets, Grows, Cap
<1> QED
  BY <1>1 DEF Grows

LEMMA CountedGrows ==
  ASSUME NEW b \in Buckets, Expires(b),
         NEW c \in {Incremented(b), Incremented(Incremented(b))}
  PROVE  Grows(b, c)
<1>1. Grows(b, Incremented(b))
  BY IncrementGrows
<1>2. Incremented(b) \in Buckets /\ Expires(Incremented(b))
  BY <1>1, GrownExpires
<1>3. Grows(Incremented(b), Incremented(Incremented(b)))
  BY <1>2, IncrementGrows
<1> QED
  BY <1>1, <1>3, GrowsTwice

(* The ranges of ages of the two windows.                                  *)
LEMMA AgesOfWindows ==
  ASSUME NEW b \in Buckets, b.ttl > 0
  PROVE  /\ Age(b) \in Ages /\ 0..Age(b) \in SUBSET Ages
         /\ (Age(b) + 1)..(Window - 1) \in SUBSET Ages
         /\ 0 \notin (Age(b) + 1)..(Window - 1)
         /\ 0..Age(b) \cup (Age(b) + 1)..(Window - 1) = Ages
<1>1. Window \in Nat \ {0} /\ b.ttl \in Int /\ b.ttl <= Window
  BY SomeTime DEF Buckets, Forever
<1>2. Age(b) \in Ages /\ Age(b) \in Int
  BY <1>1 DEF Age, Ages
<1> QED
  BY <1>1, <1>2 DEF Ages

(* A count, with its admission or without one.                             *)
LEMMA ApartGrows ==
  ASSUME NEW b \in Buckets, Expires(b), NEW c, Grows(b, c), NEW rec \in Counts,
         ApartIn(b, rec),
         NEW later, later = rec \/ (c.count <= MaxRequests /\ later = Again(rec))
  PROVE  ApartIn(c, later)
<1>1. /\ b.count \in Nat /\ c.count \in Nat /\ MaxRequests \in Nat /\ 0 < c.count
      /\ Window \in Nat \ {0} /\ c.ttl \in Int /\ c.ttl > 0 /\ c \in Buckets
  <2>1. b.count \in Nat /\ MaxRequests \in Nat /\ Window \in Nat \ {0}
    BY SomeRequests, SomeTime DEF Buckets, Cap
  <2>2. c \in Buckets /\ Expires(c) /\ 0 < c.count
    BY GrownExpires DEF Grows
  <2>3. c.count \in Nat /\ c.ttl \in Int
    BY <2>2 DEF Buckets, Cap, Forever
  <2> QED
    BY <2>1, <2>2, <2>3 DEF Expires
<1> DEFINE now == 0..Age(c)
           before == (Age(c) + 1)..(Window - 1)
           N(r, ages) == Cardinality(AdmittedIn(r, ages))
<1>2. now \in SUBSET Ages /\ before \in SUBSET Ages /\ 0 \notin before
  BY <1>1, AgesOfWindows
<1>3. Ages \in SUBSET Ages
  OBVIOUS
<1>4. N(rec, now) \in Nat /\ N(rec, before) \in Nat /\ N(rec, Ages) \in Nat
  BY <1>2, <1>3, AdmittedFinite
<1>5. Min({c.count, MaxRequests}) = IF c.count < MaxRequests THEN c.count ELSE MaxRequests
  BY <1>1, MinOfTwo
<1>6. /\ N(later, before) = N(rec, before)
      /\ N(later, now) \in Nat
      /\ later = rec \/ (c.count <= MaxRequests /\ N(later, now) <= N(rec, now) + 1)
  <2>1. CASE later = rec
    BY <2>1, <1>4
  <2>2. CASE c.count <= MaxRequests /\ later = Again(rec)
    <3>1. later \in Counts
      BY <2>2, <1>2, AdmittedAgain
    <3> QED
      BY <2>2, <3>1, <1>2, AdmittedAgain, AdmittedFinite
  <2> QED
    BY <2>1, <2>2
<1>7. CASE b.count = 0
  <2>1. Age(c) = 0
    BY <1>1, <1>7 DEF Grows, Age
  <2>2. N(rec, now) = 0
    <3>1. \A a \in now : rec[a] = 0
      BY <2>1, <1>7 DEF ApartIn
    <3> QED
      BY <3>1, <1>2, NoneAdmitted
  <2>3. N(rec, before) <= N(rec, Ages) /\ N(rec, Ages) <= MaxRequests
    BY <1>2, <1>3, <1>7, AdmittedGrow DEF ApartIn
  <2> HIDE DEF N, now, before
  <2>4. /\ N(later, now) <= Min({c.count, MaxRequests})
        /\ N(later, before) <= MaxRequests
    BY <2>2, <2>3, <1>1, <1>4, <1>5, <1>6
  <2> QED
    BY <2>4, <1>1 DEF ApartIn, N, now, before
<1>8. CASE b.count # 0
  <2>1. Age(c) = Age(b)
    BY <1>8 DEF Grows, Age
  <2>2. Min({b.count, MaxRequests}) = IF b.count < MaxRequests THEN b.count ELSE MaxRequests
    BY <1>1, MinOfTwo
  <2>3. /\ N(rec, now) <= Min({b.count, MaxRequests})
        /\ N(rec, before) <= MaxRequests
    BY <2>1, <1>8 DEF ApartIn
  <2>4. b.count <= c.count /\ (c.count <= MaxRequests => b.count < c.count)
    BY DEF Grows
  <2> HIDE DEF N, now, before
  <2>5. /\ N(later, now) <= Min({c.count, MaxRequests})
        /\ N(later, before) <= MaxRequests
    BY <2>2, <2>3, <2>4, <1>1, <1>4, <1>5, <1>6
  <2> QED
    BY <2>5, <1>1 DEF ApartIn, N, now, before
<1> QED
  BY <1>7, <1>8

(* A tick, at which the window may end.                                    *)
Ticked(b) ==
  CASE b.ttl \in {0, Forever} -> b
    [] b.ttl = 1 -> Empty
    [] OTHER -> [b EXCEPT !.ttl = @ - 1]

LEMMA ApartTicks ==
  ASSUME NEW b \in Buckets, Expires(b), NEW rec \in Counts, ApartIn(b, rec)
  PROVE  /\ Ticked(b) \in Buckets /\ Expires(Ticked(b))
         /\ Older(rec) \in Counts /\ ApartIn(Ticked(b), Older(rec))
<1>1. /\ b.count \in Nat /\ b.count <= Cap /\ b.ttl \in Int /\ b.ttl <= Window /\ -1 <= b.ttl
      /\ MaxRequests \in Nat \ {0} /\ Window \in Nat \ {0} /\ Cap = MaxRequests + 1
      /\ Forever = -1
  BY SomeRequests, SomeTime DEF Buckets, Cap, Forever
<1>2. b = [count |-> b.count, ttl |-> b.ttl]
  BY DEF Buckets
<1> DEFINE c == Ticked(b)
           N(r, ages) == Cardinality(AdmittedIn(r, ages))
<1>3. \/ b.ttl \in {0, Forever} /\ c = b
      \/ b.ttl = 1 /\ c = [count |-> 0, ttl |-> 0]
      \/ b.ttl > 1 /\ c = [count |-> b.count, ttl |-> b.ttl - 1]
  <2>1. CASE b.ttl \in {0, Forever}
    <3>1. b.ttl # 1
      BY <2>1, <1>1
    <3>2. Ticked(b) = b
      <4> HIDE DEF c
      <4> QED
        BY <2>1, <3>1, Zenon DEF Ticked
    <3> QED
      BY <2>1, <3>2
  <2>2. CASE b.ttl = 1
    BY <2>2, <1>1 DEF Ticked, Empty
  <2>3. CASE b.ttl > 1
    BY <2>3, <1>1, <1>2 DEF Ticked
  <2> QED
    BY <2>1, <2>2, <2>3, <1>1
<1> HIDE DEF c
<1>4. c \in Buckets /\ Expires(c)
  <2>1. c.count \in 0..Cap /\ c.ttl \in Forever..Window /\ c = [count |-> c.count, ttl |-> c.ttl]
    BY <1>1, <1>2, <1>3
  <2>2. c \in Buckets
    BY <2>1 DEF Buckets
  <2> QED
    BY <2>2, <1>1, <1>3 DEF Expires
<1>5. Ages \in SUBSET Ages /\ \A a \in Ages : a # 0 => a - 1 \in Ages
  BY <1>1 DEF Ages
<1>6. Older(rec) \in Counts /\ Older(rec)[0] = 0 /\ N(Older(rec), Ages) <= N(rec, Ages)
  BY <1>5, AdmittedOlder
<1>7. \A ages \in SUBSET Ages : N(rec, ages) \in Nat /\ N(Older(rec), ages) \in Nat
  BY <1>6, AdmittedFinite
<1>8. Min({b.count, MaxRequests}) = IF b.count < MaxRequests THEN b.count ELSE MaxRequests
  BY <1>1, MinOfTwo
<1>9. CASE b.count = 0
  <2>1. c.count = 0
    BY <1>3, <1>9
  <2>2. N(rec, Ages) <= MaxRequests
    BY <1>9 DEF ApartIn
  <2>3. N(Older(rec), Ages) <= MaxRequests
    <3> HIDE DEF N
    <3> QED
      BY <2>2, <1>1, <1>5, <1>6, <1>7
  <2> QED
    BY <2>1, <2>3, <1>4, <1>6 DEF ApartIn, c
<1>10. CASE b.count # 0
  <2>1. b.ttl > 0
    BY <1>1, <1>10 DEF Expires
  <2> DEFINE now == 0..Age(b)
             before == (Age(b) + 1)..(Window - 1)
  <2>2. now \in SUBSET Ages /\ before \in SUBSET Ages
    BY <2>1, AgesOfWindows
  <2>3. N(rec, now) <= Min({b.count, MaxRequests}) /\ N(rec, before) <= MaxRequests
    BY <1>10 DEF ApartIn
  <2>4. CASE b.ttl = 1
    <3>1. now = Ages /\ c.count = 0
      BY <2>4, <1>1, <1>3 DEF Age, Ages
    <3>2. N(rec, Ages) <= MaxRequests
      <4> HIDE DEF N
      <4> QED
        BY <3>1, <2>3, <1>1, <1>5, <1>7, <1>8
    <3>3. N(Older(rec), Ages) <= MaxRequests
      <4> HIDE DEF N
      <4> QED
        BY <3>2, <1>1, <1>5, <1>6, <1>7
    <3> QED
      BY <3>1, <3>3, <1>4, <1>6 DEF ApartIn, c
  <2>5. CASE b.ttl > 1
    <3>1. c.ttl = b.ttl - 1 /\ c.count = b.count /\ c.ttl > 0
      BY <2>5, <1>1, <1>3
    <3>2. Age(c) = Age(b) + 1 /\ Age(b) \in Int /\ Age(b) >= 0
      BY <3>1, <1>1 DEF Age
    <3> DEFINE now2 == 0..Age(c)
               before2 == (Age(c) + 1)..(Window - 1)
    <3>3. now2 \in SUBSET Ages /\ before2 \in SUBSET Ages
      BY <3>1, <1>4, AgesOfWindows
    <3>4. \A a \in now2 : a # 0 => a - 1 \in now
      BY <3>2
    <3>5. \A a \in before2 : a # 0 => a - 1 \in before
      BY <3>2, <1>1
    <3>6. N(Older(rec), now2) <= N(rec, now)
      BY <3>3, <3>4, <2>2, AdmittedOlder
    <3>7. N(Older(rec), before2) <= N(rec, before)
      BY <3>3, <3>5, <2>2, AdmittedOlder
    <3> HIDE DEF N, now, before, now2, before2
    <3>8. /\ N(Older(rec), now2) <= Min({b.count, MaxRequests})
          /\ N(Older(rec), before2) <= MaxRequests
      BY <3>3, <3>6, <3>7, <2>2, <2>3, <1>1, <1>7, <1>8
    <3> QED
      BY <3>1, <3>8, <1>4, <1>6, <1>10 DEF ApartIn, N, now2, before2, c
  <2> QED
    BY <2>1, <2>4, <2>5, <1>1
<1> QED
  BY <1>9, <1>10, <1>1

-----------------------------------------------------------------------------
(* The limiter's steps.                                                    *)

LimiterInv == LimiterTypeOK /\ CountersExpire /\ WindowsApart

Apart(b, rec) == b \in Buckets /\ Expires(b) /\ rec \in Counts /\ ApartIn(b, rec)

LEMMA LimiterNow == LimiterInv <=> watched \in Keys /\ Apart(bucket, recent)
<1>1. LimiterTypeOK <=> watched \in Keys /\ bucket \in Buckets /\ recent \in Counts
  BY DEF LimiterTypeOK, Buckets, Counts, Ages
<1> QED
  BY <1>1, LimiterParts DEF LimiterInv, Apart

LEMMA LimiterLater ==
  watched' \in Keys /\ Apart(bucket', recent') => LimiterInv'
<1> SUFFICES ASSUME watched' \in Keys, Apart(bucket', recent') PROVE LimiterInv'
  OBVIOUS
<1>1. bucket' \in Buckets /\ recent' \in Counts /\ Expires(bucket') /\ ApartIn(bucket', recent')
  BY DEF Apart
<1>2. LimiterTypeOK'
  BY <1>1 DEF LimiterTypeOK, Buckets, Counts, Ages
<1>3. DOMAIN recent' = Ages
  BY <1>1 DEF Counts
<1>4. \A ages : Admitted(ages)' = AdmittedIn(recent', ages)
  BY DEF Admitted, AdmittedIn
<1>5. CountersExpire'
  BY <1>1 DEF CountersExpire, Expires
<1>6. WindowsApart'
  BY <1>1, <1>3, <1>4, Zenon DEF WindowsApart, ApartIn
<1> QED
  BY <1>2, <1>5, <1>6 DEF LimiterInv

LEMMA LimiterCounts ==
  ASSUME LimiterInv, NEW k, NEW verdict, watched' = watched,
         Counted(k, verdict) \/ FailedOpen(k)
  PROVE  LimiterInv'
<1>1. watched \in Keys /\ Apart(bucket, recent)
  BY LimiterNow
<1>2. bucket \in Buckets /\ Expires(bucket) /\ recent \in Counts /\ ApartIn(bucket, recent)
  BY <1>1 DEF Apart
<1>3. CASE bucket' = bucket /\ recent' = recent
  BY <1>1, <1>3, LimiterLater
<1>4. CASE /\ bucket' \in {Incremented(bucket), Incremented(Incremented(bucket))}
           /\ recent' = recent \/ (Admits(bucket') /\ recent' = Again(recent))
  <2>1. Grows(bucket, bucket')
    BY <1>2, <1>4, CountedGrows
  <2>2. bucket' \in Buckets /\ Expires(bucket')
    BY <1>2, <2>1, GrownExpires
  <2>3. recent' \in Counts
    <3>1. {} \in SUBSET Ages
      OBVIOUS
    <3> QED
      BY <1>2, <1>4, <3>1, AdmittedAgain
  <2>4. recent' = recent \/ (bucket'.count <= MaxRequests /\ recent' = Again(recent))
    BY <1>4 DEF Admits
  <2>5. ApartIn(bucket', recent')
    BY <1>2, <2>1, <2>4, ApartGrows
  <2>6. Apart(bucket', recent')
    BY <2>2, <2>3, <2>5 DEF Apart
  <2> QED
    BY <1>1, <2>6, LimiterLater
<1>5. CASE Counted(k, verdict)
  <2>1. CASE k # watched
    BY <1>3, <1>5, <2>1 DEF Counted
  <2>2. CASE k = watched
    <3>1. /\ bucket' \in {Incremented(bucket), Incremented(Incremented(bucket))}
          /\ verdict = IF Admits(bucket') THEN "admitted" ELSE "refused"
          /\ recent' = [recent EXCEPT ![0] = IF verdict = "admitted" THEN @ + 1 ELSE @]
      BY <1>5, <2>2 DEF Counted
    <3>2. CASE Admits(bucket')
      BY <3>1, <3>2, <1>4 DEF Again
    <3>3. CASE ~Admits(bucket')
      <4>1. recent' = recent
        BY <3>1, <3>3, <1>2 DEF Counts
      <4> QED
        BY <3>1, <4>1, <1>4
    <3> QED
      BY <3>2, <3>3
  <2> QED
    BY <2>1, <2>2
<1>6. CASE FailedOpen(k)
  BY <1>3, <1>4, <1>6 DEF FailedOpen
<1> QED
  BY <1>5, <1>6

LEMMA LimiterTicks ==
  ASSUME LimiterInv, watched' = watched, Tick
  PROVE  LimiterInv'
<1>1. watched \in Keys /\ Apart(bucket, recent)
  BY LimiterNow
<1>2. bucket' = Ticked(bucket) /\ recent' = Older(recent)
  BY DEF Tick, Ticked, Older
<1>3. Apart(bucket', recent')
  BY <1>1, <1>2, ApartTicks DEF Apart
<1> QED
  BY <1>1, <1>3, LimiterLater

LEMMA NothingCounted == Apart(Empty, [a \in Ages |-> 0])
<1> DEFINE none == [a \in Ages |-> 0]
<1>1. 0 \in Ages /\ MaxRequests \in Nat \ {0} /\ Window \in Nat \ {0}
  BY SomeRequests, SomeTime DEF Ages
<1>2. Empty \in Buckets /\ Expires(Empty) /\ Empty.count = 0
  BY <1>1 DEF Empty, Buckets, Expires, Cap, Forever
<1>3. none \in Counts /\ none[0] = 0
  BY <1>1 DEF Counts
<1>4. Ages \in SUBSET Ages /\ \A a \in Ages : none[a] = 0
  OBVIOUS
<1>5. Cardinality(AdmittedIn(none, Ages)) = 0
  BY <1>3, <1>4, NoneAdmitted
<1> HIDE DEF none
<1>6. ApartIn(Empty, none)
  BY <1>1, <1>2, <1>3, <1>5 DEF ApartIn
<1> QED
  BY <1>2, <1>3, <1>6 DEF Apart, none

LEMMA LimiterStarts == LimiterInit => LimiterInv
<1>1. LimiterInit => watched \in Keys /\ bucket = Empty /\ recent = [a \in Ages |-> 0]
  BY DEF LimiterInit, Ages
<1> QED
  BY <1>1, NothingCounted, LimiterNow

LEMMA LimiterForgets ==
  ASSUME LimiterInv, watched' = watched, Forget
  PROVE  LimiterInv'
<1>1. watched \in Keys /\ DOMAIN recent = Ages
  BY LimiterParts DEF LimiterInv
<1>2. bucket' = Empty /\ recent' = [a \in Ages |-> 0]
  BY <1>1 DEF Forget
<1> QED
  BY <1>1, <1>2, NothingCounted, LimiterLater

(* The two windows together.                                               *)
LEMMA TwoBursts == LimiterInv => AtMostTwoBursts
<1> SUFFICES ASSUME LimiterInv PROVE AtMostTwoBursts
  OBVIOUS
<1>1. /\ bucket \in Buckets /\ recent \in Counts /\ Expires(bucket)
      /\ ApartIn(bucket, recent) /\ DOMAIN recent = Ages
  BY LimiterParts DEF LimiterInv
<1>2. /\ bucket.count \in Nat /\ bucket.ttl \in Int /\ MaxRequests \in Nat \ {0}
  BY <1>1, SomeRequests DEF Buckets, Cap, Forever
<1> DEFINE N(ages) == Cardinality(AdmittedIn(recent, ages))
<1>3. AtMostTwoBursts <=> N(Ages) <= 2 * MaxRequests
  BY <1>1 DEF AtMostTwoBursts, Admitted, AdmittedIn
<1>4. CASE bucket.count = 0
  <2>1. N(Ages) <= MaxRequests
    BY <1>1, <1>4 DEF ApartIn
  <2>2. Ages \in SUBSET Ages
    OBVIOUS
  <2>3. N(Ages) \in Nat
    BY <1>1, <2>2, AdmittedFinite
  <2> HIDE DEF N
  <2>4. N(Ages) <= 2 * MaxRequests
    BY <2>1, <2>3, <1>2
  <2> QED
    BY <2>4, <1>3
<1>5. CASE bucket.count # 0
  <2> DEFINE now == 0..Age(bucket)
             before == (Age(bucket) + 1)..(Window - 1)
  <2>1. bucket.ttl > 0
    BY <1>1, <1>2, <1>5 DEF Expires
  <2>2. now \in SUBSET Ages /\ before \in SUBSET Ages /\ now \cup before = Ages
    BY <1>1, <2>1, AgesOfWindows
  <2>3. N(now) <= Min({bucket.count, MaxRequests}) /\ N(before) <= MaxRequests
    BY <1>1, <1>5 DEF ApartIn
  <2>4. Min({bucket.count, MaxRequests})
          = IF bucket.count < MaxRequests THEN bucket.count ELSE MaxRequests
    BY <1>2, MinOfTwo
  <2> HIDE DEF now, before
  <2>5. N(now \cup before) <= N(now) + N(before)
    BY <1>1, <2>2, AdmittedSplit
  <2>6. N(now) \in Nat /\ N(before) \in Nat /\ N(now \cup before) \in Nat
    BY <1>1, <2>2, AdmittedFinite
  <2>7. N(now \cup before) = N(Ages)
    BY <2>2
  <2> HIDE DEF N
  <2>8. N(Ages) <= 2 * MaxRequests
    BY <2>3, <2>4, <2>5, <2>6, <2>7, <1>2
  <2> QED
    BY <2>8, <1>3
<1> QED
  BY <1>4, <1>5

-----------------------------------------------------------------------------
(* The layers, as createApp and server.ts register them.                   *)

LEMMA LayersAre ==
  /\ DOMAIN Layers = 1..15 /\ Len(Layers) = 15
  /\ Layers[1] = On(When(Nginx, {"nginx-health"}), <<>>, "nginx")
  /\ Layers[2] = On({"health"}, <<>>, "health")
  /\ Layers[3] = On({"ready"}, <<>>, "ready")
  /\ Layers[4] = On({"metrics"}, <<>>, "metrics")
  /\ Layers[5] = On(When(~Production, {"docs"}), <<>>, "docs")
  /\ Layers[6] = On({"login"}, <<Limit("auth:credentials")>>, "auth")
  /\ Layers[7] = On({"me", "logout"}, <<RequireAuth>>, "auth")
  /\ Layers[8] = On({"create"}, <<Identify, CreateBudget>>, "createUrl")
  /\ Layers[9] = Claim
  /\ Layers[10] = List
  /\ Layers[11] = Stats
  /\ Layers[12] = UrlsRouter
  /\ Layers[13] = On({"root"}, <<>>, "root")
  /\ Layers[14] = On({"link"} \cup Words, <<>>, "redirect")
  /\ Layers[15] = Use(UnderUrls, <<RequireAuth>>, {"stream"}, "sse")
BY DEF Layers, LayersFrom

Open == {1, 2, 3, 4, 5, 13, 14}

LEMMA LayerGates ==
  /\ \A n \in Open : Layers[n].gates = <<>>
  /\ Layers[6].gates = <<Limit("auth:credentials")>>
  /\ Layers[7].gates = <<RequireAuth>>
  /\ Layers[8].gates = <<Identify, CreateBudget>>
  /\ \A n \in {9, 10, 11} : Layers[n].gates = <<Limit("urls:read"), RequireAuth>>
  /\ Layers[12].gates = <<Limit("urls:write"), RequireAuth>>
  /\ Layers[15].gates = <<RequireAuth>>
<1>1. \A n \in Open : Layers[n].gates = <<>>
  BY LayersAre DEF Open, On, Use
<1>2. /\ Layers[6].gates = <<Limit("auth:credentials")>>
      /\ Layers[7].gates = <<RequireAuth>>
      /\ Layers[8].gates = <<Identify, CreateBudget>>
      /\ Layers[15].gates = <<RequireAuth>>
  BY LayersAre DEF On, Use
<1>3. /\ \A n \in {9, 10, 11} : Layers[n].gates = <<Limit("urls:read"), RequireAuth>>
      /\ Layers[12].gates = <<Limit("urls:write"), RequireAuth>>
  BY LayersAre DEF Claim, List, Stats, UrlsRouter, On, Use
<1> QED
  BY <1>1, <1>2, <1>3

(* Every layer answers what it takes, but the router of the deletion and   *)
(* the one of the stream.                                                  *)
LEMMA LayerRoutes ==
  /\ \A n \in 1..15 : n \notin {12, 15} => Layers[n].serves = Layers[n].takes
  /\ \A n \in {12, 15} : Layers[n].takes = UnderUrls
  /\ Layers[12].serves = {"delete"} /\ Layers[15].serves = {"stream"}
<1>0. \A routes, gates, by : On(routes, gates, by).serves = On(routes, gates, by).takes
  BY DEF On, Use
<1>1. \A n \in {1, 2, 3, 4, 5, 6, 7, 8, 13, 14} : Layers[n].serves = Layers[n].takes
  BY <1>0, LayersAre
<1>2. \A n \in {9, 10, 11} : Layers[n].serves = Layers[n].takes
  BY <1>0, LayersAre DEF Claim, List, Stats
<1>3. /\ \A n \in {12, 15} : Layers[n].takes = UnderUrls
      /\ Layers[12].serves = {"delete"} /\ Layers[15].serves = {"stream"}
  BY LayersAre DEF UrlsRouter, Use
<1>4. \A n \in 1..15 : n \notin {12, 15} =>
        n \in {1, 2, 3, 4, 5, 6, 7, 8, 13, 14} \/ n \in {9, 10, 11}
  OBVIOUS
<1> QED
  BY <1>1, <1>2, <1>3, <1>4

LEMMA LayerTakes ==
  /\ Layers[6].takes = {"login"} /\ Layers[7].takes = {"me", "logout"}
  /\ Layers[8].takes = {"create"} /\ Layers[9].takes = {"claim"}
  /\ Layers[10].takes = {"list", "details", "analytics"}
  /\ Layers[11].takes = {"stats"}
  /\ \A n \in Open : Layers[n].takes \subseteq {"root", "link"} \cup Words
  /\ Layers[14].takes = {"link"} \cup Words
<1>1. \A n \in Open : Layers[n].takes \subseteq {"root", "link"} \cup Words
  BY LayersAre DEF Open, On, Use, When, Words
<1>2. /\ Layers[6].takes = {"login"} /\ Layers[7].takes = {"me", "logout"}
      /\ Layers[8].takes = {"create"} /\ Layers[14].takes = {"link"} \cup Words
  BY LayersAre DEF On, Use
<1>3. /\ Layers[9].takes = {"claim"}
      /\ Layers[10].takes = {"list", "details", "analytics"}
      /\ Layers[11].takes = {"stats"}
  BY LayersAre DEF Claim, List, Stats, Reads, On, Use
<1> QED
  BY <1>1, <1>2, <1>3

LEMMA GateCounts ==
  \A n \in 1..15 : /\ Len(Layers[n].gates) \in 0..2
                   /\ DOMAIN Layers[n].gates = 1..Len(Layers[n].gates)
<1>1. \A n \in Open : Len(Layers[n].gates) = 0 /\ DOMAIN Layers[n].gates = {}
  BY LayerGates
<1> DEFINE Has(s, k) == Len(s) = k /\ DOMAIN s = 1..k
<1>5. \A x, y : Has(<<x>>, 1) /\ Has(<<x, y>>, 2)
  OBVIOUS
<1> HIDE DEF Has
<1>6. \A n \in {6, 7, 15} : Has(Layers[n].gates, 1)
  BY <1>5, LayerGates
<1>7. \A n \in {8, 9, 10, 11, 12} : Has(Layers[n].gates, 2)
  BY <1>5, LayerGates
<1>2. \A n \in {6, 7, 15} : Len(Layers[n].gates) = 1 /\ DOMAIN Layers[n].gates = 1..1
  BY <1>6 DEF Has
<1>3. \A n \in {8, 9, 10, 11, 12} : Len(Layers[n].gates) = 2 /\ DOMAIN Layers[n].gates = 1..2
  BY <1>7 DEF Has
<1>4. \A n \in 1..15 : n \in Open \/ n \in {6, 7, 15} \/ n \in {8, 9, 10, 11, 12}
  BY DEF Open
<1> QED
  BY <1>1, <1>2, <1>3, <1>4

-----------------------------------------------------------------------------
(* The way through the layers.                                             *)

LEMMA Whereabouts ==
  ASSUME NEW q, OnItsWay(q)
  PROVE  /\ q.layer \in 1..15 /\ q.layer \in Int
         /\ q.route \in Layers[q.layer].takes
         /\ q.gate \in 1..(Len(Layers[q.layer].gates) + 1) /\ q.gate \in Int
         /\ \A n \in 1..(q.layer - 1) : q.route \notin Layers[n].serves
<1>1. DOMAIN Layers = 1..15
  BY LayersAre
<1>2. q.layer \in 1..15 /\ q.route \in Layers[q.layer].takes
  BY <1>1 DEF OnItsWay
<1>3. q.gate \in 1..(Len(Layers[q.layer].gates) + 1)
  BY DEF OnItsWay
<1>4. \A n \in 1..(q.layer - 1) : q.route \notin Layers[n].serves
  BY DEF OnItsWay
<1>5. Len(Layers[q.layer].gates) \in 0..2
  BY <1>2, GateCounts
<1>6. q.layer \in Int /\ q.gate \in Int
  BY <1>2, <1>3, <1>5
<1> QED
  BY <1>2, <1>3, <1>4, <1>6

(* Only the router of the deletion lets a request of its own pass, to the  *)
(* stream.                                                                 *)
LEMMA SeenTwice ==
  ASSUME NEW q, OnItsWay(q), NEW n \in 1..(q.layer - 1), q.route \in Layers[n].takes
  PROVE  n = 12 /\ q.layer = 15
<1>1. /\ q.layer \in 1..15 /\ q.route \in Layers[q.layer].takes
      /\ q.route \notin Layers[n].serves
  BY Whereabouts
<1>2. n \in 1..15 /\ n < q.layer
  BY <1>1
<1>3. n = 12
  BY <1>1, <1>2, LayerRoutes
<1>4. q.route \in UnderUrls
  BY <1>3, LayerRoutes
<1>5. q.layer # 13 /\ q.layer # 14
  BY <1>1, <1>4, LayerTakes DEF Open, UnderUrls, Words
<1> QED
  BY <1>1, <1>2, <1>3, <1>5

(* The gates behind it at a layer that no router let it pass to.           *)
LEMMA PassedHere ==
  ASSUME NEW q, OnItsWay(q), q.layer # 15, NEW kinds, Passed(q, kinds)
  PROVE  \E g \in DOMAIN Layers[q.layer].gates :
           g < q.gate /\ Layers[q.layer].gates[g].kind \in kinds
<1>1. PICK n \in 1..q.layer :
        /\ q.route \in Layers[n].takes
        /\ \E g \in DOMAIN Layers[n].gates :
             (n = q.layer => g < q.gate) /\ Layers[n].gates[g].kind \in kinds
  BY DEF Passed
<1>2. q.layer \in Int
  BY Whereabouts
<1>3. n = q.layer
  BY <1>1, <1>2, SeenTwice
<1> QED
  BY <1>1, <1>3

(* The stream's requests have left the write-limited router's gates behind.*)
LEMMA PassedToStream ==
  ASSUME NEW q, OnItsWay(q), q.layer = 15
  PROVE  Passed(q, {"limit", "createBudget"}) /\ Passed(q, {"requireAuth"})
<1>1. 12 \in 1..q.layer /\ q.route \in Layers[12].takes /\ 12 # q.layer
  BY LayerRoutes, Whereabouts
<1>2. /\ 1 \in DOMAIN Layers[12].gates /\ Layers[12].gates[1].kind = "limit"
      /\ 2 \in DOMAIN Layers[12].gates /\ Layers[12].gates[2].kind = "requireAuth"
  BY LayerGates DEF Limit, RequireAuth
<1> QED
  BY <1>1, <1>2 DEF Passed

(* One gate further.                                                       *)
LEMMA PassedNext ==
  ASSUME NEW q, OnItsWay(q), q.gate \in DOMAIN Layers[q.layer].gates, NEW kinds,
         NEW p, p.route = q.route, p.layer = q.layer, p.gate = q.gate + 1
  PROVE  Passed(p, kinds)
           <=> Passed(q, kinds) \/ Layers[q.layer].gates[q.gate].kind \in kinds
<1>1. q.layer \in 1..15 /\ q.route \in Layers[q.layer].takes /\ q.gate \in Int
  BY Whereabouts
<1>2. \A g \in DOMAIN Layers[q.layer].gates : g \in Int
  <2>1. /\ Len(Layers[q.layer].gates) \in 0..2
        /\ DOMAIN Layers[q.layer].gates = 1..Len(Layers[q.layer].gates)
    BY <1>1, GateCounts
  <2> QED
    BY <2>1
<1>3. ASSUME Passed(p, kinds)
      PROVE  Passed(q, kinds) \/ Layers[q.layer].gates[q.gate].kind \in kinds
  <2>1. PICK n \in 1..q.layer :
          /\ q.route \in Layers[n].takes
          /\ \E g \in DOMAIN Layers[n].gates :
               (n = q.layer => g < q.gate + 1) /\ Layers[n].gates[g].kind \in kinds
    BY <1>3 DEF Passed
  <2>2. PICK g \in DOMAIN Layers[n].gates :
          (n = q.layer => g < q.gate + 1) /\ Layers[n].gates[g].kind \in kinds
    BY <2>1
  <2>3. n = q.layer => g < q.gate \/ g = q.gate
    BY <2>2, <1>1, <1>2
  <2> QED
    BY <2>1, <2>2, <2>3 DEF Passed
<1>4. ASSUME Passed(q, kinds) PROVE Passed(p, kinds)
  <2>1. PICK n \in 1..q.layer :
          /\ q.route \in Layers[n].takes
          /\ \E g \in DOMAIN Layers[n].gates :
               (n = q.layer => g < q.gate) /\ Layers[n].gates[g].kind \in kinds
    BY <1>4 DEF Passed
  <2>2. PICK g \in DOMAIN Layers[n].gates :
          (n = q.layer => g < q.gate) /\ Layers[n].gates[g].kind \in kinds
    BY <2>1
  <2>3. n = q.layer => g < q.gate + 1
    BY <2>2, <1>1, <1>2
  <2> QED
    BY <2>1, <2>2, <2>3 DEF Passed
<1>5. ASSUME Layers[q.layer].gates[q.gate].kind \in kinds PROVE Passed(p, kinds)
  <2>1. q.layer \in 1..q.layer /\ q.gate < q.gate + 1
    BY <1>1
  <2> QED
    BY <1>1, <1>5, <2>1 DEF Passed
<1> QED
  BY <1>3, <1>4, <1>5

-----------------------------------------------------------------------------
(* What a request has to have right.                                       *)

InOrder(q) ==
  /\ q # Idle => AskedFor(q)
  /\ q.at = "gate" => OnItsWay(q)
  /\ OwnBudget(q) /\ OwnAccount(q)

Fine(q) == q \in Live /\ InOrder(q)

(* The fields of a request in progress.                                    *)
LEMMA Fields ==
  ASSUME NEW q \in Live
  PROVE  /\ q # Idle /\ q.at \in {"gate", "answered"} /\ q.route \in Routes
         /\ q.client \in Clients /\ q.user \in BOOLEAN /\ q.spent \in Seq(Budgets)
         /\ q.ip \in Addresses \cup {Edge} /\ q.wrote \in BOOLEAN /\ q.carries \in Credentials
         /\ q.code \in Codes \cup {None}
BY DEF Live, Idle

(* What an answer keeps and what it sets.                                  *)
LEMMA AnsweredFields ==
  ASSUME NEW q \in Live, NEW status \in Statuses, NEW by \in Answerers
  PROVE  LET p == Answered(q, status, by) IN
         /\ p \in Live /\ p.at = "answered" /\ p.by = by
         /\ p.route = q.route /\ p.code = q.code /\ p.client = q.client /\ p.ip = q.ip /\ p.wrote = q.wrote
         /\ p.carries = q.carries /\ p.user = q.user /\ p.spent = q.spent
<1>1. 0 \in 0..Len(Layers) /\ 0 \in 0..3
  BY LayersAre
<1> QED
  BY <1>1 DEF Answered, Live

(* An answer by no handler asks nothing of the request.                    *)
LEMMA RefusalFine ==
  ASSUME NEW q \in Live, AskedFor(q), NEW status \in Statuses, NEW by \in {"gate", "fallback"}
  PROVE  Fine(Answered(q, status, by))
<1> DEFINE p == Answered(q, status, by)
<1>0. by \in Answerers
  BY DEF Answerers
<1>1. /\ p \in Live /\ p.at = "answered" /\ p.by = by
      /\ p.route = q.route /\ p.code = q.code /\ p.client = q.client /\ p.ip = q.ip /\ p.wrote = q.wrote
      /\ p.carries = q.carries /\ p.user = q.user /\ p.spent = q.spent
  BY <1>0, AnsweredFields
<1> HIDE DEF p
<1>2. AskedFor(p)
  BY <1>1 DEF AskedFor
<1>3. ~ServedByHandler(p) /\ p.at # "gate"
  BY <1>1 DEF ServedByHandler
<1>4. Fine(p)
  BY <1>1, <1>2, <1>3 DEF Fine, InOrder, OwnBudget, OwnAccount
<1> QED
  BY <1>4 DEF p

(* A handler's answer to a request that it serves.                         *)
LEMMA ServedAtLayer ==
  ASSUME NEW q, OnItsWay(q), q.gate > Len(Layers[q.layer].gates),
         q.route \in Layers[q.layer].serves
  PROVE  /\ q.spent = Policy(q.route, q.user)
         /\ Protected(q.route) => /\ q.carries = "session" => q.user
                                  /\ q.route # "create" => q.user
<1>1. /\ q.layer \in 1..15 /\ q.layer \in Int /\ q.gate \in Int
      /\ q.route \in Layers[q.layer].takes
  BY Whereabouts
<1>2. \A g \in DOMAIN Layers[q.layer].gates : g < q.gate
  <2>1. /\ Len(Layers[q.layer].gates) \in 0..2
        /\ DOMAIN Layers[q.layer].gates = 1..Len(Layers[q.layer].gates)
    BY <1>1, GateCounts
  <2> QED
    BY <1>1, <2>1
<1>3. ASSUME NEW kinds, NEW g \in DOMAIN Layers[q.layer].gates,
             Layers[q.layer].gates[g].kind \in kinds
      PROVE  Passed(q, kinds)
  BY <1>1, <1>2, <1>3 DEF Passed
<1>4. /\ q.route # "no such url route" =>
           q.spent = IF Passed(q, {"limit", "createBudget"})
                       THEN Policy(q.route, q.user) ELSE <<>>
      /\ Passed(q, {"requireAuth"}) => q.user
      /\ Passed(q, {"identify"}) /\ q.carries = "session" => q.user
  BY DEF OnItsWay
<1>5. CASE q.layer \in Open
  <2>1. q.route \in {"root", "link"} \cup Words
    BY <1>1, <1>5, LayerTakes
  <2>2. Policy(q.route, q.user) = <<>> /\ ~Protected(q.route) /\ q.route # "no such url route"
    BY <2>1 DEF Policy, Protected, Words
  <2>3. q.spent = Policy(q.route, q.user)
    BY <1>4, <2>2
  <2> QED
    BY <2>2, <2>3
<1>6. CASE q.layer = 6
  <2>1. q.route = "login" /\ 1 \in DOMAIN Layers[6].gates /\ Layers[6].gates[1].kind = "limit"
    BY <1>1, <1>6, LayerTakes, LayerGates DEF Limit
  <2>2. Passed(q, {"limit", "createBudget"})
    BY <1>3, <1>6, <2>1
  <2> QED
    BY <1>4, <2>1, <2>2 DEF Protected
<1>7. CASE q.layer = 7
  <2>1. /\ q.route \in {"me", "logout"}
        /\ 1 \in DOMAIN Layers[7].gates /\ Layers[7].gates[1].kind = "requireAuth"
    BY <1>1, <1>7, LayerTakes, LayerGates DEF RequireAuth
  <2>2. Passed(q, {"requireAuth"})
    BY <1>3, <1>7, <2>1
  <2>3. Policy(q.route, q.user) = <<>>
    BY <2>1 DEF Policy
  <2> QED
    BY <1>4, <2>1, <2>2, <2>3
<1>8. CASE q.layer = 8
  <2>1. /\ q.route = "create"
        /\ 1 \in DOMAIN Layers[8].gates /\ Layers[8].gates[1].kind = "identify"
        /\ 2 \in DOMAIN Layers[8].gates /\ Layers[8].gates[2].kind = "createBudget"
    BY <1>1, <1>8, LayerTakes, LayerGates DEF Identify, CreateBudget
  <2>2. Passed(q, {"identify"}) /\ Passed(q, {"limit", "createBudget"})
    BY <1>3, <1>8, <2>1
  <2> QED
    BY <1>4, <2>1, <2>2
<1>9. CASE q.layer \in {9, 10, 11, 12}
  <2>1. /\ 1 \in DOMAIN Layers[q.layer].gates
        /\ Layers[q.layer].gates[1].kind = "limit"
        /\ 2 \in DOMAIN Layers[q.layer].gates
        /\ Layers[q.layer].gates[2].kind = "requireAuth"
    BY <1>9, LayerGates DEF Limit, RequireAuth
  <2>2. Passed(q, {"requireAuth"}) /\ Passed(q, {"limit", "createBudget"})
    BY <1>3, <2>1
  <2>3. q.route # "no such url route"
    BY <1>1, <1>9, LayerTakes, LayerRoutes
  <2> QED
    BY <1>4, <2>2, <2>3
<1>10. CASE q.layer = 15
  <2>1. Passed(q, {"requireAuth"}) /\ Passed(q, {"limit", "createBudget"})
    BY <1>10, PassedToStream
  <2>2. q.route = "stream"
    BY <1>10, LayerRoutes
  <2> QED
    BY <1>4, <2>1, <2>2
<1>11. q.layer \in Open \/ q.layer = 6 \/ q.layer = 7 \/ q.layer = 8
         \/ q.layer \in {9, 10, 11, 12} \/ q.layer = 15
  BY <1>1 DEF Open
<1> QED
  BY <1>5, <1>6, <1>7, <1>8, <1>9, <1>10, <1>11

LEMMA AnswerFine ==
  ASSUME NEW q, Fine(q), q.at = "gate", q.gate > Len(Layers[q.layer].gates),
         q.route \in Layers[q.layer].serves, NEW status \in Statuses
  PROVE  Fine(Answered(q, status, Layers[q.layer].by))
<1> DEFINE p == Answered(q, status, Layers[q.layer].by)
<1>1. q \in Live /\ AskedFor(q) /\ OnItsWay(q)
  BY Fields DEF Fine, InOrder
<1>2. Layers[q.layer].by \in Answerers
  <2>1. q.layer \in DOMAIN Layers
    BY <1>1, Whereabouts, LayersAre
  <2> QED
    BY <2>1 DEF Answerers
<1>3. /\ p \in Live /\ p.at = "answered"
      /\ p.route = q.route /\ p.code = q.code /\ p.client = q.client /\ p.ip = q.ip /\ p.wrote = q.wrote
      /\ p.carries = q.carries /\ p.user = q.user /\ p.spent = q.spent
  BY <1>1, <1>2, AnsweredFields
<1>4. /\ q.spent = Policy(q.route, q.user)
      /\ Protected(q.route) => /\ q.carries = "session" => q.user
                               /\ q.route # "create" => q.user
  BY <1>1, ServedAtLayer
<1> HIDE DEF p
<1>5. AskedFor(p)
  BY <1>1, <1>3 DEF AskedFor
<1>6. OwnBudget(p)
  BY <1>1, <1>3, <1>4 DEF OwnBudget, AskedFor
<1>7. OwnAccount(p)
  <2>1. q.user \in BOOLEAN /\ (q.user => q.carries = "session")
    BY <1>1, Fields DEF AskedFor
  <2> QED
    BY <1>3, <1>4, <2>1 DEF OwnAccount
<1>8. Fine(p)
  BY <1>3, <1>5, <1>6, <1>7 DEF Fine, InOrder
<1> QED
  BY <1>8 DEF p

(* To the next layer that takes the request, past those before it.         *)
Behind(q, after, kinds) ==
  \E n \in 1..after :
    q.route \in Layers[n].takes /\ \E g \in DOMAIN Layers[n].gates :
                                     Layers[n].gates[g].kind \in kinds

(* It has left those layers behind, unanswered, and what their gates ask.  *)
Left(q, after) ==
  /\ q \in Live /\ q.at = "gate" /\ AskedFor(q)
  /\ \A n \in 1..after : q.route \notin Layers[n].serves
  /\ q.route # "no such url route" =>
       q.spent = IF Behind(q, after, {"limit", "createBudget"})
                   THEN Policy(q.route, q.user) ELSE <<>>
  /\ Behind(q, after, {"requireAuth"}) => q.user
  /\ Behind(q, after, {"identify"}) /\ q.carries = "session" => q.user

LEMMA Between ==
  ASSUME NEW after \in 0..15, NEW next \in (after + 1)..15
  PROVE  /\ next \in 1..15 /\ next \in Int /\ next # 0
         /\ \A n \in 1..after : n \in 1..next /\ n # next
         /\ \A n \in 1..next : n = next \/ n \in 1..after \/ n \in (after + 1)..(next - 1)
         /\ \A n \in 1..(next - 1) : n \in 1..after \/ n \in (after + 1)..(next - 1)
         /\ \A n \in (after + 1)..(next - 1) : n \in 1..15 /\ n \in (after + 1)..15 /\ n < next
OBVIOUS

LEMMA FollowingIsNext ==
  ASSUME NEW route, NEW after \in 0..15
  PROVE  \/ /\ Following(route, after) = 0
            /\ \A n \in (after + 1)..15 : route \notin Layers[n].takes
         \/ /\ Following(route, after) \in (after + 1)..15
            /\ route \in Layers[Following(route, after)].takes
            /\ \A n \in (after + 1)..(Following(route, after) - 1) :
                 route \notin Layers[n].takes
<1> DEFINE taking == {j \in (after + 1)..15 : route \in Layers[j].takes}
<1>1. Following(route, after) = IF taking = {} THEN 0 ELSE Min(taking)
  BY LayersAre DEF Following
<1>2. CASE taking = {}
  BY <1>1, <1>2
<1>3. CASE taking # {}
  <2>1. taking \in SUBSET Nat /\ \A j \in taking : j \in Int
    OBVIOUS
  <2> HIDE DEF taking
  <2>2. \E x \in taking : \A y \in taking : x <= y
    BY <1>3, <2>1, LeastOfNaturals
  <2>3. Min(taking) \in taking /\ \A y \in taking : Min(taking) <= y
    BY <2>2 DEF Min
  <2>5. Min(taking) \in (after + 1)..15 /\ route \in Layers[Min(taking)].takes
    BY <2>3 DEF taking
  <2>6. \A n \in (after + 1)..(Min(taking) - 1) : n \in (after + 1)..15 /\ n < Min(taking)
    BY <2>5, Between
  <2>4. \A n \in (after + 1)..(Min(taking) - 1) : n \notin taking
    <3>1. Min(taking) \in Int
      BY <2>1, <2>3
    <3>2. \A n \in (after + 1)..(Min(taking) - 1) : ~(Min(taking) <= n)
      BY <2>6, <3>1
    <3> QED
      BY <2>3, <3>2
  <2>7. \A n \in (after + 1)..(Min(taking) - 1) : route \notin Layers[n].takes
    BY <2>4, <2>6 DEF taking
  <2> QED
    BY <1>1, <1>3, <2>5, <2>7
<1> QED
  BY <1>2, <1>3

LEMMA WalkFine ==
  ASSUME NEW q, NEW after \in 0..15, Left(q, after)
  PROVE  Fine(Walked(q, after))
<1> DEFINE next == Following(q.route, after)
           p == [q EXCEPT !.layer = next, !.gate = 1]
<1>1. CASE next = 0
  <2>1. Walked(q, after) = Answered(q, "NotFound", "fallback")
    BY <1>1 DEF Walked
  <2>2. "NotFound" \in Statuses
    BY DEF Statuses
  <2>3. q \in Live /\ AskedFor(q)
    BY DEF Left
  <2> QED
    BY <2>1, <2>2, <2>3, RefusalFine
<1>2. CASE next # 0
  <2>1. Walked(q, after) = p
    BY <1>2 DEF Walked
  <2>2. /\ next \in (after + 1)..15 /\ q.route \in Layers[next].takes
        /\ \A n \in (after + 1)..(next - 1) : q.route \notin Layers[n].takes
    BY <1>2, FollowingIsNext
  <2> HIDE DEF next
  <2>3. /\ next \in 1..15
        /\ \A n \in 1..after : n \in 1..next /\ n # next
        /\ \A n \in 1..next : n = next \/ n \in 1..after \/ n \in (after + 1)..(next - 1)
        /\ \A n \in 1..(next - 1) : n \in 1..after \/ n \in (after + 1)..(next - 1)
        /\ \A n \in (after + 1)..(next - 1) : n \in 1..15
    BY <2>2, Between
  <2>10. next \in 0..Len(Layers) /\ 1 \in 0..3
    BY <2>3, LayersAre
  <2>11. q \in Live /\ q.at = "gate" /\ AskedFor(q)
    BY DEF Left
  <2>4. /\ p \in Live /\ p.at = "gate" /\ p.layer = next /\ p.gate = 1
        /\ p.route = q.route /\ p.code = q.code /\ p.client = q.client /\ p.ip = q.ip /\ p.wrote = q.wrote
        /\ p.carries = q.carries /\ p.user = q.user /\ p.spent = q.spent
    BY <2>10, <2>11 DEF Live
  <2> HIDE DEF p
  <2>5. AskedFor(p)
    BY <2>4, <2>11 DEF AskedFor
  <2>6. ASSUME NEW kinds PROVE Passed(p, kinds) <=> Behind(q, after, kinds)
    <3>1. ASSUME Passed(p, kinds) PROVE Behind(q, after, kinds)
      <4>1. PICK n \in 1..next :
              /\ q.route \in Layers[n].takes
              /\ \E g \in DOMAIN Layers[n].gates :
                   (n = next => g < 1) /\ Layers[n].gates[g].kind \in kinds
        BY <2>4, <3>1 DEF Passed
      <4>2. n # next
        <5>1. /\ Len(Layers[next].gates) \in 0..2
              /\ DOMAIN Layers[next].gates = 1..Len(Layers[next].gates)
          BY <2>3, GateCounts
        <5>2. \A g \in DOMAIN Layers[next].gates : ~(g < 1)
          <6> DEFINE gates == Layers[next].gates
          <6> HIDE DEF gates
          <6>1. Len(gates) \in 0..2 /\ DOMAIN gates = 1..Len(gates)
            BY <5>1 DEF gates
          <6>2. \A g \in DOMAIN gates : ~(g < 1)
            BY <6>1
          <6> QED
            BY <6>2 DEF gates
        <5> QED
          BY <4>1, <5>2
      <4>3. n \in 1..after
        BY <2>2, <2>3, <4>1, <4>2
      <4> QED
        BY <4>1, <4>3 DEF Behind
    <3>2. ASSUME Behind(q, after, kinds) PROVE Passed(p, kinds)
      <4>1. PICK n \in 1..after :
              q.route \in Layers[n].takes /\ \E g \in DOMAIN Layers[n].gates :
                                               Layers[n].gates[g].kind \in kinds
        BY <3>2 DEF Behind
      <4>2. n \in 1..next /\ n # next
        BY <2>3
      <4> QED
        BY <2>4, <4>1, <4>2 DEF Passed
    <3> QED
      BY <3>1, <3>2
  <2>7. \A n \in 1..(next - 1) : q.route \notin Layers[n].serves
    <3> SUFFICES ASSUME NEW n \in 1..(next - 1) PROVE q.route \notin Layers[n].serves
      OBVIOUS
    <3>1. CASE n \in 1..after
      BY <3>1 DEF Left
    <3>2. CASE n \in (after + 1)..(next - 1)
      <4>1. n \in 1..15
        BY <2>3, <3>2
      <4>2. Layers[n].serves \subseteq Layers[n].takes
        BY <4>1, LayerRoutes DEF UnderUrls
      <4> QED
        BY <2>2, <3>2, <4>2
    <3> QED
      BY <2>3, <3>1, <3>2
  <2>8. OnItsWay(p)
    <3>1. p.layer \in DOMAIN Layers /\ p.route \in Layers[p.layer].takes
      BY <2>2, <2>3, <2>4, LayersAre
    <3>2. p.gate \in 1..(Len(Layers[p.layer].gates) + 1)
      <4>1. Len(Layers[next].gates) \in 0..2
        BY <2>3, GateCounts
      <4>2. 1 \in 1..(Len(Layers[next].gates) + 1)
        BY <4>1
      <4> QED
        BY <2>4, <4>2
    <3>3. \A n \in 1..(p.layer - 1) : p.route \notin Layers[n].serves
      BY <2>4, <2>7
    <3>4. p.route # "no such url route" =>
            p.spent = IF Passed(p, {"limit", "createBudget"})
                        THEN Policy(p.route, p.user) ELSE <<>>
      BY <2>4, <2>6 DEF Left
    <3>5. /\ Passed(p, {"requireAuth"}) => p.user
          /\ Passed(p, {"identify"}) /\ p.carries = "session" => p.user
      BY <2>4, <2>6 DEF Left
    <3> QED
      BY <3>1, <3>2, <3>3, <3>4, <3>5 DEF OnItsWay
  <2>9. Fine(p)
    BY <2>4, <2>5, <2>8 DEF Fine, InOrder, OwnBudget, OwnAccount, ServedByHandler
  <2> QED
    BY <2>1, <2>9
<1> QED
  BY <1>1, <1>2

Limits == {"limit", "createBudget"}

(* The gate before a request, and what has been asked when it is passed.   *)
KindAt(q) == Layers[q.layer].gates[q.gate].kind

Kept(q, p) ==
  /\ p.at = "gate" /\ p.layer = q.layer /\ p.gate = q.gate + 1
  /\ p.route = q.route /\ p.code = q.code /\ p.client = q.client /\ p.ip = q.ip /\ p.wrote = q.wrote
  /\ p.carries = q.carries

LEMMA GateBefore ==
  ASSUME NEW q, OnItsWay(q), q.gate \in DOMAIN Layers[q.layer].gates
  PROVE  \/ q.layer = 6 /\ q.gate = 1 /\ KindAt(q) = "limit"
         \/ q.layer = 7 /\ q.gate = 1 /\ KindAt(q) = "requireAuth"
         \/ q.layer = 8 /\ q.gate = 1 /\ KindAt(q) = "identify"
         \/ q.layer = 8 /\ q.gate = 2 /\ KindAt(q) = "createBudget"
         \/ q.layer \in {9, 10, 11, 12} /\ q.gate = 1 /\ KindAt(q) = "limit"
         \/ q.layer \in {9, 10, 11, 12} /\ q.gate = 2 /\ KindAt(q) = "requireAuth"
         \/ q.layer = 15 /\ q.gate = 1 /\ KindAt(q) = "requireAuth"
<1>1. q.layer \in 1..15
  BY Whereabouts
<1>2. CASE q.layer \in Open
  <2>1. DOMAIN Layers[q.layer].gates = {}
    BY <1>2, LayerGates
  <2> QED
    BY <2>1
<1>3. CASE q.layer = 6
  <2>1. Layers[q.layer].gates = <<Limit("auth:credentials")>>
    BY <1>3, LayerGates
  <2>2. q.gate = 1
    BY <2>1
  <2> QED
    BY <1>3, <2>1, <2>2 DEF KindAt, Limit
<1>4. CASE q.layer \in {7, 15}
  <2>1. Layers[q.layer].gates = <<RequireAuth>>
    BY <1>4, LayerGates
  <2>2. q.gate = 1
    BY <2>1
  <2> QED
    BY <1>4, <2>1, <2>2 DEF KindAt, RequireAuth
<1>5. CASE q.layer = 8
  <2>1. Layers[q.layer].gates = <<Identify, CreateBudget>>
    BY <1>5, LayerGates
  <2>2. q.gate \in {1, 2}
    BY <2>1
  <2> QED
    BY <1>5, <2>1, <2>2 DEF KindAt, Identify, CreateBudget
<1>6. CASE q.layer \in {9, 10, 11, 12}
  <2>1. PICK budget : Layers[q.layer].gates = <<Limit(budget), RequireAuth>>
    BY <1>6, LayerGates
  <2>2. q.gate \in {1, 2}
    BY <2>1
  <2> QED
    BY <1>6, <2>1, <2>2 DEF KindAt, Limit, RequireAuth
<1> QED
  BY <1>1, <1>2, <1>3, <1>4, <1>5, <1>6 DEF Open

(* Behind the first gate of a layer there is none of it.                   *)
LEMMA NonePassed ==
  ASSUME NEW q, OnItsWay(q), q.gate = 1, q.layer # 15, NEW kinds
  PROVE  ~Passed(q, kinds)
<1>1. q.layer \in 1..15
  BY Whereabouts
<1> DEFINE gates == Layers[q.layer].gates
<1>2. Len(gates) \in 0..2 /\ DOMAIN gates = 1..Len(gates)
  BY <1>1, GateCounts
<1> HIDE DEF gates
<1>3. \A g \in DOMAIN gates : ~(g < 1)
  BY <1>2
<1> QED
  BY <1>3, PassedHere DEF gates

(* A limiter comes once on a request's way, and it is the route's.         *)
LEMMA BudgetIsThePolicy ==
  ASSUME NEW q, OnItsWay(q), q.gate \in DOMAIN Layers[q.layer].gates,
         KindAt(q) \in Limits
  PROVE  /\ ~Passed(q, Limits) /\ BudgetOf(q) \in Budgets
         /\ q.route # "no such url route" => Policy(q.route, q.user) = <<BudgetOf(q)>>
<1>1. /\ q.layer \in 1..15 /\ q.route \in Layers[q.layer].takes
      /\ \A n \in 1..(q.layer - 1) : q.route \notin Layers[n].serves
  BY Whereabouts
<1>2. \/ q.layer = 6 /\ q.gate = 1
      \/ q.layer = 8 /\ q.gate = 2
      \/ q.layer \in {9, 10, 11} /\ q.gate = 1
      \/ q.layer = 12 /\ q.gate = 1
  BY GateBefore DEF Limits
<1>3. CASE q.layer = 6 /\ q.gate = 1
  <2>1. BudgetOf(q) = "auth:credentials"
    BY <1>3, LayerGates DEF BudgetOf, Limit
  <2>2. q.route = "login"
    BY <1>1, <1>3, LayerTakes
  <2> QED
    BY <1>3, <2>1, <2>2, NonePassed, FourBudgets DEF Policy
<1>4. CASE q.layer = 8 /\ q.gate = 2
  <2>1. Layers[8].gates = <<Identify, CreateBudget>>
    BY LayerGates
  <2>2. BudgetOf(q) = IF q.user THEN "urls:write" ELSE "urls:guest-create"
    BY <1>4, <2>1 DEF BudgetOf, CreateBudget
  <2>3. q.route = "create"
    BY <1>1, <1>4, LayerTakes
  <2>4. Policy(q.route, q.user) = <<BudgetOf(q)>>
    BY <2>2, <2>3 DEF Policy
  <2>5. \A g \in DOMAIN Layers[8].gates : g < 2 => Layers[8].gates[g].kind \notin Limits
    BY <2>1 DEF Identify, Limits
  <2>6. ~Passed(q, Limits)
    BY <1>4, <2>5, PassedHere
  <2> QED
    BY <2>2, <2>4, <2>6, FourBudgets
<1>5. CASE q.layer \in {9, 10, 11} /\ q.gate = 1
  <2>1. BudgetOf(q) = "urls:read"
    BY <1>5, LayerGates DEF BudgetOf, Limit
  <2>2. q.route \in {"claim", "list", "details", "analytics", "stats"}
    BY <1>1, <1>5, LayerTakes
  <2>3. Policy(q.route, q.user) = <<"urls:read">>
    BY <2>2 DEF Policy
  <2>4. ~Passed(q, Limits)
    BY <1>5, NonePassed
  <2> QED
    BY <2>1, <2>3, <2>4, FourBudgets
<1>6. CASE q.layer = 12 /\ q.gate = 1
  <2>1. BudgetOf(q) = "urls:write"
    BY <1>6, LayerGates DEF BudgetOf, Limit
  <2>2. q.route \in {"delete", "stream", "no such url route"}
    <3>1. q.route \in UnderUrls
      BY <1>1, <1>6, LayerRoutes
    <3>2. /\ q.route \notin Layers[8].takes /\ q.route \notin Layers[9].takes
          /\ q.route \notin Layers[10].takes
      BY <1>1, <1>6, LayerRoutes
    <3> QED
      BY <3>1, <3>2, LayerTakes DEF UnderUrls
  <2>3. q.route # "no such url route" => Policy(q.route, q.user) = <<"urls:write">>
    BY <2>2 DEF Policy
  <2>4. ~Passed(q, Limits)
    BY <1>6, NonePassed
  <2> QED
    BY <2>1, <2>3, <2>4, FourBudgets
<1> QED
  BY <1>2, <1>3, <1>4, <1>5, <1>6

LEMMA OneMore ==
  ASSUME NEW n \in 0..2, NEW k \in 1..n
  PROVE  k + 1 \in 1..(n + 1) /\ k + 1 \in 0..3
OBVIOUS

LEMMA GatePassedFine ==
  ASSUME NEW q, Fine(q), q.at = "gate", q.gate \in DOMAIN Layers[q.layer].gates,
         NEW p \in Live, Kept(q, p), p.user => p.carries = "session",
         p.route # "no such url route" =>
           p.spent = IF Passed(q, Limits) \/ KindAt(q) \in Limits
                       THEN Policy(p.route, p.user) ELSE <<>>,
         Passed(q, {"requireAuth"}) \/ KindAt(q) = "requireAuth" => p.user,
         (Passed(q, {"identify"}) \/ KindAt(q) = "identify") /\ p.carries = "session" => p.user
  PROVE  Fine(p)
<1>1. q \in Live /\ AskedFor(q) /\ OnItsWay(q)
  BY Fields DEF Fine, InOrder
<1>2. \A kinds : Passed(p, kinds) <=> Passed(q, kinds) \/ KindAt(q) \in kinds
  BY <1>1, PassedNext DEF Kept, KindAt
<1>3. AskedFor(p)
  BY <1>1 DEF AskedFor, Kept
<1>4. OnItsWay(p)
  <2>1. /\ p.layer \in DOMAIN Layers /\ p.route \in Layers[p.layer].takes
        /\ \A n \in 1..(p.layer - 1) : p.route \notin Layers[n].serves
    BY <1>1 DEF OnItsWay, Kept
  <2>2. p.gate \in 1..(Len(Layers[p.layer].gates) + 1)
    <3> DEFINE gates == Layers[q.layer].gates
    <3>1. Len(gates) \in 0..2 /\ DOMAIN gates = 1..Len(gates)
      BY <1>1, Whereabouts, GateCounts
    <3> HIDE DEF gates
    <3>2. q.gate \in 1..Len(gates)
      BY <3>1 DEF gates
    <3>3. q.gate + 1 \in 1..(Len(gates) + 1)
      BY <3>1, <3>2, OneMore
    <3> QED
      BY <3>3 DEF gates, Kept
  <2>3. p.route # "no such url route" =>
          p.spent = IF Passed(p, Limits) THEN Policy(p.route, p.user) ELSE <<>>
    BY <1>2
  <2>4. Passed(p, {"requireAuth"}) => p.user
    BY <1>2
  <2>5. Passed(p, {"identify"}) /\ p.carries = "session" => p.user
    BY <1>2
  <2> QED
    BY <2>1, <2>2, <2>3, <2>4, <2>5 DEF OnItsWay, Limits
<1> QED
  BY <1>3, <1>4 DEF Fine, InOrder, OwnBudget, OwnAccount, ServedByHandler, Kept

Further(q) == [q EXCEPT !.gate = @ + 1]

LEMMA FurtherFields ==
  ASSUME NEW q \in Live, q.at = "gate", OnItsWay(q),
         q.gate \in DOMAIN Layers[q.layer].gates
  PROVE  /\ Further(q) \in Live /\ Kept(q, Further(q))
         /\ Further(q).user = q.user /\ Further(q).spent = q.spent
<1>1. q.gate + 1 \in 0..3
  <2> DEFINE gates == Layers[q.layer].gates
  <2>1. Len(gates) \in 0..2 /\ DOMAIN gates = 1..Len(gates)
    BY Whereabouts, GateCounts
  <2> HIDE DEF gates
  <2>2. q.gate \in 1..Len(gates)
    BY <2>1 DEF gates
  <2> QED
    BY <2>1, <2>2, OneMore
<1> QED
  BY <1>1 DEF Further, Kept, Live

(* A request as its gate leaves it: with the budget it spent, or its user. *)
Spending(q) == [q EXCEPT !.spent = Append(@, BudgetOf(q))]
SignedIn(q) == [q EXCEPT !.user = TRUE]

LEMMA LimitFine ==
  ASSUME NEW q, Fine(q), q.at = "gate", q.gate \in DOMAIN Layers[q.layer].gates,
         KindAt(q) \in Limits
  PROVE  /\ Fine(Further(Spending(q)))
         /\ Fine(Answered(Spending(q), "TooManyRequests", "gate"))
<1> DEFINE s == Spending(q)
           p == Further(s)
<1>1. q \in Live /\ AskedFor(q) /\ OnItsWay(q) /\ q.spent \in Seq(Budgets)
  BY Fields DEF Fine, InOrder
<1>2. /\ ~Passed(q, Limits) /\ BudgetOf(q) \in Budgets
      /\ q.route # "no such url route" => Policy(q.route, q.user) = <<BudgetOf(q)>>
  BY <1>1, BudgetIsThePolicy
<1>3. Append(q.spent, BudgetOf(q)) \in Seq(Budgets)
  BY <1>1, <1>2, AppendProperties
<1>4. /\ s \in Live /\ s.at = q.at /\ s.layer = q.layer /\ s.gate = q.gate
      /\ s.route = q.route /\ s.code = q.code /\ s.client = q.client /\ s.ip = q.ip /\ s.wrote = q.wrote
      /\ s.carries = q.carries /\ s.user = q.user /\ s.spent = Append(q.spent, BudgetOf(q))
  BY <1>1, <1>3 DEF Spending, Live
<1> HIDE DEF s
<1>5. AskedFor(s)
  BY <1>1, <1>4 DEF AskedFor
<1>6. Fine(Answered(s, "TooManyRequests", "gate"))
  <2>1. "TooManyRequests" \in Statuses
    BY DEF Statuses
  <2> QED
    BY <2>1, <1>4, <1>5, RefusalFine
<1>7. p \in Live /\ Kept(q, p) /\ p.user = s.user /\ p.spent = s.spent
  <2>1. q.gate + 1 \in 0..3
    <3>1. Further(q) \in Live /\ Further(q).gate = q.gate + 1
      BY <1>1, FurtherFields DEF Kept
    <3> QED
      BY <3>1 DEF Live
  <2> QED
    BY <2>1, <1>4 DEF Further, Kept, Live
<1> HIDE DEF p
<1>8. p.route # "no such url route" => p.spent = Policy(p.route, p.user)
  <2>1. SUFFICES ASSUME q.route # "no such url route" PROVE p.spent = Policy(p.route, p.user)
    BY <1>7 DEF Kept
  <2>2. q.spent = <<>>
    BY <1>1, <1>2, <2>1 DEF OnItsWay, Limits
  <2>3. p.spent = <<BudgetOf(q)>>
    BY <2>2, <1>4, <1>7
  <2> QED
    BY <1>2, <1>4, <1>7, <2>1, <2>3 DEF Kept
<1>9. p.user => p.carries = "session"
  BY <1>1, <1>4, <1>7 DEF AskedFor, Kept
<1>10. /\ KindAt(q) # "requireAuth" /\ KindAt(q) # "identify"
       /\ Passed(q, {"requireAuth"}) => p.user
       /\ Passed(q, {"identify"}) /\ p.carries = "session" => p.user
  BY <1>1, <1>4, <1>7 DEF Limits, OnItsWay, Kept
<1>11. Fine(p)
  BY <1>7, <1>8, <1>9, <1>10, GatePassedFine
<1> QED
  BY <1>6, <1>11 DEF p, s

(* The creation, whose budget depends on its user, identifies it first.    *)
LEMMA AuthFine ==
  ASSUME NEW q, Fine(q), q.at = "gate", q.gate \in DOMAIN Layers[q.layer].gates,
         KindAt(q) \in {"requireAuth", "identify"}, q.carries = "session"
  PROVE  Fine(Further(SignedIn(q)))
<1> DEFINE s == SignedIn(q)
           p == Further(s)
<1>1. q \in Live /\ AskedFor(q) /\ OnItsWay(q)
  BY Fields DEF Fine, InOrder
<1>2. /\ s \in Live /\ s.at = q.at /\ s.layer = q.layer /\ s.gate = q.gate
      /\ s.route = q.route /\ s.code = q.code /\ s.client = q.client /\ s.ip = q.ip /\ s.wrote = q.wrote
      /\ s.carries = q.carries /\ s.user = TRUE /\ s.spent = q.spent
  BY <1>1 DEF SignedIn, Live
<1> HIDE DEF s
<1>3. p \in Live /\ Kept(q, p) /\ p.user = TRUE /\ p.spent = q.spent
  <2>1. q.gate + 1 \in 0..3
    <3>1. Further(q) \in Live /\ Further(q).gate = q.gate + 1
      BY <1>1, FurtherFields DEF Kept
    <3> QED
      BY <3>1 DEF Live
  <2> QED
    BY <2>1, <1>2 DEF Further, Kept, Live
<1> HIDE DEF p
<1>4. KindAt(q) \notin Limits
  BY DEF Limits
<1>5. Passed(q, Limits) => Policy(q.route, TRUE) = Policy(q.route, q.user)
  <2>1. CASE q.route = "create"
    <3>1. q.layer = 8 \/ q.layer \in {12, 15}
      <4>1. q.layer \in 1..15 /\ q.route \in Layers[q.layer].takes
        BY <1>1, Whereabouts
      <4>2. \/ q.layer \in {6, 7, 8, 12, 15} \/ q.layer \in {9, 10, 11}
        BY <1>1, GateBefore
      <4> QED
        BY <2>1, <4>1, <4>2, LayerTakes
    <3>2. q.layer = 8
      <4>1. q.layer > 8 => q.route \notin Layers[8].takes
        BY <1>1, <3>1, Whereabouts, LayerRoutes
      <4> QED
        BY <2>1, <3>1, <4>1, LayerTakes
    <3>3. q.gate = 1
      BY <1>1, <3>2, GateBefore
    <3> QED
      BY <1>1, <3>2, <3>3, NonePassed
  <2>2. CASE q.route # "create"
    BY <2>2 DEF Policy
  <2> QED
    BY <2>1, <2>2
<1>6. p.route # "no such url route" =>
        p.spent = IF Passed(q, Limits) \/ KindAt(q) \in Limits
                    THEN Policy(p.route, p.user) ELSE <<>>
  <2>1. q.route # "no such url route" =>
          q.spent = IF Passed(q, Limits) THEN Policy(q.route, q.user) ELSE <<>>
    BY <1>1 DEF OnItsWay, Limits
  <2> QED
    BY <2>1, <1>3, <1>4, <1>5 DEF Kept
<1>7. p.user /\ p.carries = "session"
  BY <1>3 DEF Kept
<1>8. Fine(p)
  BY <1>3, <1>6, <1>7, GatePassedFine
<1> QED
  BY <1>8 DEF p, s

LEMMA GuestFine ==
  ASSUME NEW q, Fine(q), q.at = "gate", q.gate \in DOMAIN Layers[q.layer].gates,
         KindAt(q) = "identify", q.carries # "session"
  PROVE  Fine(Further(q))
<1> DEFINE p == Further(q)
<1>1. q \in Live /\ AskedFor(q) /\ OnItsWay(q)
  BY Fields DEF Fine, InOrder
<1>2. p \in Live /\ Kept(q, p) /\ p.user = q.user /\ p.spent = q.spent
  BY <1>1, FurtherFields
<1> HIDE DEF p
<1>3. p.route # "no such url route" =>
        p.spent = IF Passed(q, Limits) \/ KindAt(q) \in Limits
                    THEN Policy(p.route, p.user) ELSE <<>>
  <2>1. q.route # "no such url route" =>
          q.spent = IF Passed(q, Limits) THEN Policy(q.route, q.user) ELSE <<>>
    BY <1>1 DEF OnItsWay, Limits
  <2>2. KindAt(q) \notin Limits
    BY DEF Limits
  <2> QED
    BY <2>1, <2>2, <1>2 DEF Kept
<1>4. p.user => p.carries = "session"
  BY <1>1, <1>2 DEF AskedFor, Kept
<1>5. /\ Passed(q, {"requireAuth"}) \/ KindAt(q) = "requireAuth" => p.user
      /\ (Passed(q, {"identify"}) \/ KindAt(q) = "identify") /\ p.carries = "session" => p.user
  BY <1>1, <1>2 DEF OnItsWay, Kept
<1>6. Fine(p)
  BY <1>2, <1>3, <1>4, <1>5, GatePassedFine
<1> QED
  BY <1>6 DEF p

LEMMA FallFine ==
  ASSUME NEW q, Fine(q), q.at = "gate", q.gate > Len(Layers[q.layer].gates),
         q.route \notin Layers[q.layer].serves
  PROVE  Fine(Walked(q, q.layer))
<1>1. q \in Live /\ AskedFor(q) /\ OnItsWay(q)
  BY Fields DEF Fine, InOrder
<1>2. /\ q.layer \in 1..15 /\ q.layer \in Int /\ q.gate \in Int
      /\ \A n \in 1..(q.layer - 1) : q.route \notin Layers[n].serves
  BY <1>1, Whereabouts
<1>3. \A n \in 1..q.layer : q.route \notin Layers[n].serves
  BY <1>2
<1>4. \A g \in DOMAIN Layers[q.layer].gates : g < q.gate
  <2> DEFINE gates == Layers[q.layer].gates
  <2>1. Len(gates) \in 0..2 /\ DOMAIN gates = 1..Len(gates)
    BY <1>2, GateCounts
  <2>2. q.gate > Len(gates)
    OBVIOUS
  <2> HIDE DEF gates
  <2>3. \A g \in DOMAIN gates : g < q.gate
    BY <1>2, <2>1, <2>2
  <2> QED
    BY <2>3 DEF gates
<1>5. \A kinds : Behind(q, q.layer, kinds) <=> Passed(q, kinds)
  BY <1>4 DEF Behind, Passed
<1>6. Left(q, q.layer)
  <2>1. q.route # "no such url route" =>
          q.spent = IF Behind(q, q.layer, {"limit", "createBudget"})
                      THEN Policy(q.route, q.user) ELSE <<>>
    BY <1>1, <1>5 DEF OnItsWay
  <2>2. /\ Behind(q, q.layer, {"requireAuth"}) => q.user
        /\ Behind(q, q.layer, {"identify"}) /\ q.carries = "session" => q.user
    BY <1>1, <1>5 DEF OnItsWay
  <2> QED
    BY <1>1, <1>3, <2>1, <2>2 DEF Left
<1>7. q.layer \in 0..15
  BY <1>2
<1> QED
  BY <1>6, <1>7, WalkFine

(* Whatever proxies it came through and whatever it wrote, a client is     *)
(* counted under an address; under its own if it wrote nothing.            *)
LEMMA AnAddress ==
  ASSUME NEW headers, headers.cloudflare \in Header, headers.ip \in Addresses \cup {Edge},
         headers.forwarded \in Seq(Addresses \cup {Edge})
  PROVE  RealClientIp(headers) \in Addresses \cup {Edge}
<1> DEFINE public == {k \in DOMAIN headers.forwarded : headers.forwarded[k] \notin Private}
<1>1. CASE headers.cloudflare # <<>>
  <2>1. headers.cloudflare[1] \in Addresses \cup {Edge}
    BY <1>1 DEF Header
  <2> QED
    BY <1>1, <2>1 DEF RealClientIp
<1>2. CASE headers.cloudflare = <<>> /\ public = {}
  BY <1>2 DEF RealClientIp
<1>3. CASE headers.cloudflare = <<>> /\ public # {}
  <2>1. public \in SUBSET Nat
    OBVIOUS
  <2>2. PICK x \in public : \A y \in public : x <= y
    BY <1>3, <2>1, LeastOfNaturals
  <2>3. Min(public) \in public
    BY <2>2 DEF Min
  <2>4. headers.forwarded[Min(public)] \in Addresses \cup {Edge}
    <3>1. ASSUME NEW A, NEW s \in Seq(A), NEW k \in DOMAIN s PROVE s[k] \in A
      BY <3>1
    <3>2. Min(public) \in DOMAIN headers.forwarded
      BY <2>3
    <3> QED
      BY <3>1, <3>2
  <2> QED
    BY <1>3, <2>4 DEF RealClientIp
<1> QED
  BY <1>1, <1>2, <1>3

LEMMA ItsOwnAddress ==
  ASSUME NEW c \in Clients, NEW headers \in Ways(Nothing, c)
  PROVE  RealClientIp(headers) = c
<1>1. Min({1}) = 1
  <2>1. Min({1, 1}) = 1
    BY MinOfTwo
  <2>2. {1, 1} = {1}
    OBVIOUS
  <2> QED
    BY <2>1, <2>2
<1>2. c \notin Private /\ Edge \in Private
  BY ClientsArePublic, EdgeIsPrivate
<1>3. Nothing.cloudflare = <<>> /\ Nothing.forwarded = <<>>
  BY DEF Nothing
<1> DEFINE public == {k \in DOMAIN headers.forwarded : headers.forwarded[k] \notin Private}
<1>4. CASE headers = Received(Nothing, <<>>, <<>>, c)
  <2>1. public = {} /\ headers.cloudflare = <<>> /\ headers.ip = c
    BY <1>3, <1>4 DEF Received
  <2> QED
    BY <2>1 DEF RealClientIp
<1>5. CASE headers = Received(Nothing, <<>>, <<c>>, c)
  <2>1. headers.forwarded = <<c>> /\ headers.cloudflare = <<>>
    BY <1>3, <1>5 DEF Received
  <2>2. public = {1} /\ headers.forwarded[1] = c
    BY <1>2, <2>1
  <2> QED
    BY <1>1, <2>1, <2>2 DEF RealClientIp
<1>6. CASE headers = Received(Nothing, <<>>, <<c, Edge>>, Edge)
  <2>1. headers.forwarded = <<c, Edge>> /\ headers.cloudflare = <<>>
    BY <1>3, <1>6 DEF Received
  <2>2. public = {1} /\ headers.forwarded[1] = c
    BY <1>2, <2>1
  <2> QED
    BY <1>1, <2>1, <2>2 DEF RealClientIp
<1>7. CASE headers = Received(Nothing, <<c>>, <<c, Edge>>, Edge)
  <2>1. headers.cloudflare # <<>> /\ headers.cloudflare[1] = c
    BY <1>7 DEF Received
  <2> QED
    BY <2>1 DEF RealClientIp
<1> QED
  BY <1>3, <1>4, <1>5, <1>6, <1>7 DEF Ways

LEMMA CountedAddress ==
  ASSUME NEW c \in Clients, NEW headers \in Arrivals(c)
  PROVE  /\ RealClientIp(headers) \in Addresses \cup {Edge} /\ headers.wrote \in BOOLEAN
         /\ headers.wrote \/ RealClientIp(headers) = c
<1>1. PICK own \in Written : headers \in Ways(own, c)
  BY DEF Arrivals
<1> DEFINE A == Addresses \cup {Edge}
<1>2. c \in A /\ Edge \in A
  BY ClientsHaveAddresses
<1>3. own.cloudflare \in Header /\ own.forwarded \in Header /\ <<c>> \in Header
  BY <1>2 DEF Written, Header
<1>4. own.forwarded \in Seq(A) /\ (own.forwarded # <<>> => own.forwarded[1] \in A)
  <2>1. CASE own.forwarded = <<>>
    BY <2>1
  <2>2. CASE own.forwarded # <<>>
    <3>1. PICK a \in A : own.forwarded = <<a>>
      BY <1>3, <2>2 DEF Header
    <3> QED
      BY <3>1
  <2> QED
    BY <2>1, <2>2
<1>5. /\ headers.wrote = (own # Nothing)
      /\ headers.cloudflare \in Header /\ headers.ip \in A
      /\ \E proxies \in Seq(A) : headers.forwarded = own.forwarded \o proxies
  <2>1. <<>> \in Seq(A) /\ <<c>> \in Seq(A) /\ <<c, Edge>> \in Seq(A)
    BY <1>2
  <2> HIDE DEF A
  <2>2. ASSUME NEW cloudflare \in Header, NEW proxies \in Seq(A), NEW ip \in A,
               headers = Received(own, cloudflare, proxies, ip)
        PROVE  /\ headers.wrote = (own # Nothing)
               /\ headers.cloudflare \in Header /\ headers.ip \in A
               /\ headers.forwarded = own.forwarded \o proxies
    BY <2>2 DEF Received
  <2>3. (IF own.forwarded = <<>> THEN c ELSE own.forwarded[1]) \in A
    BY <1>2, <1>4
  <2> QED
    BY <1>1, <1>2, <1>3, <2>1, <2>2, <2>3 DEF Ways
<1>6. RealClientIp(headers) \in A
  <2>1. headers.forwarded \in Seq(A)
    BY <1>4, <1>5
  <2> QED
    BY <1>5, <2>1, AnAddress
<1>7. CASE own = Nothing
  BY <1>1, <1>5, <1>6, <1>7, ItsOwnAddress
<1>8. CASE own # Nothing
  BY <1>5, <1>6, <1>8
<1> QED
  BY <1>7, <1>8

Arrived(asked, c, headers, carries) ==
  [at |-> "gate", layer |-> 0, gate |-> 0, status |-> None, by |-> "",
   route |-> asked.route, code |-> asked.code, client |-> c,
   ip |-> RealClientIp(headers), wrote |-> headers.wrote, carries |-> carries,
   user |-> FALSE, spent |-> <<>>]

LEMMA ArriveFine ==
  ASSUME NEW asked \in Asked, asked.route \in Routes, NEW c \in Clients,
         NEW headers \in Arrivals(c), NEW carries \in Credentials
  PROVE  Fine(Walked(Arrived(asked, c, headers, carries), 0))
<1> DEFINE q == Arrived(asked, c, headers, carries)
<1>1. /\ asked.code \in Codes \cup {None}
      /\ asked.code # None /\ asked.route # "create" => asked.route = RouteOf(asked.code)
      /\ asked.route = "create" => asked.code # None
  BY NoCode DEF Asked
<1>2. /\ RealClientIp(headers) \in Addresses \cup {Edge} /\ headers.wrote \in BOOLEAN
      /\ headers.wrote \/ RealClientIp(headers) = c
  BY CountedAddress
<1>3. "" \in Answerers /\ 0 \in 0..Len(Layers) /\ 0 \in 0..3 /\ <<>> \in Seq(Budgets)
  BY LayersAre DEF Answerers
<1>4. q \in Live
  BY <1>1, <1>2, <1>3 DEF Arrived, Live
<1>5. /\ q.at = "gate" /\ q.route = asked.route /\ q.code = asked.code /\ q.client = c
      /\ q.wrote \/ q.ip = c
      /\ q.user = FALSE /\ q.spent = <<>>
  BY <1>2 DEF Arrived
<1> HIDE DEF q
<1>6. AskedFor(q)
  BY <1>1, <1>5 DEF AskedFor
<1>7. \A n \in 1..0 : FALSE
  OBVIOUS
<1>8. \A kinds : ~Behind(q, 0, kinds)
  BY <1>7 DEF Behind
<1>9. Left(q, 0)
  BY <1>4, <1>5, <1>6, <1>7, <1>8 DEF Left
<1>10. Fine(Walked(q, 0))
  BY <1>9, WalkFine
<1> QED
  BY <1>10 DEF q

-----------------------------------------------------------------------------
(* The invariant, request by request.                                      *)

Standing ==
  /\ request \in [Requests -> {Idle} \cup Live]
  /\ \A r \in Requests : request[r] = Idle \/ Fine(request[r])

Stored == session \in [Clients -> BOOLEAN] /\ links \subseteq Codes

LEMMA IdleInOrder == InOrder(Idle)
<1>1. Idle.at = "idle"
  BY DEF Idle
<1> QED
  BY <1>1 DEF InOrder, OwnBudget, OwnAccount, ServedByHandler

LEMMA NowStanding == IInv => LimiterInv /\ Stored /\ Standing
<1> SUFFICES ASSUME IInv PROVE LimiterInv /\ Stored /\ Standing
  OBVIOUS
<1>1. LimiterInv /\ Stored /\ request \in [Requests -> {Idle} \cup Live]
  BY DEF IInv, TypeOK, LimiterInv, Stored
<1>2. \A r \in Requests : InOrder(request[r])
  BY DEF IInv, RequestsInOrder, InOrder
<1> QED
  BY <1>1, <1>2 DEF Standing, Fine

LEMMA LaterStanding == LimiterInv' /\ Stored' /\ Standing' => IInv'
<1> SUFFICES ASSUME LimiterInv', Stored', Standing' PROVE IInv'
  OBVIOUS
<1>1. TypeOK' /\ CountersExpire' /\ WindowsApart'
  BY DEF TypeOK, LimiterInv, Stored, Standing
<1>2. \A r \in Requests : InOrder(request'[r])
  BY IdleInOrder DEF Standing, Fine
<1>3. RequestsInOrder'
  BY <1>2 DEF RequestsInOrder, InOrder
<1> QED
  BY <1>1, <1>3 DEF IInv

LEMMA BecomesStanding ==
  ASSUME Standing, NEW r \in Requests, NEW p, p = Idle \/ Fine(p), Becomes(r, p)
  PROVE  Standing'
<1>1. request' = [request EXCEPT ![r] = p] /\ request \in [Requests -> {Idle} \cup Live]
  BY DEF Becomes, Standing
<1>2. p \in {Idle} \cup Live
  BY DEF Fine
<1>3. request' \in [Requests -> {Idle} \cup Live]
  BY <1>1, <1>2
<1>4. ASSUME NEW i \in Requests PROVE request'[i] = Idle \/ Fine(request'[i])
  <2>1. request'[i] = IF i = r THEN p ELSE request[i]
    BY <1>1
  <2> QED
    BY <2>1 DEF Standing
<1> QED
  BY <1>3, <1>4 DEF Standing

LEMMA AtGate ==
  ASSUME Standing, NEW r \in Requests, NEW kinds, At(r, kinds)
  PROVE  /\ Fine(request[r]) /\ request[r].at = "gate"
         /\ request[r].gate \in DOMAIN Layers[request[r].layer].gates
         /\ KindAt(request[r]) \in kinds
<1> DEFINE q == request[r]
<1>1. q.at = "gate" /\ q.gate <= Len(Layers[q.layer].gates) /\ KindAt(q) \in kinds
  BY DEF At, KindAt
<1>2. q # Idle
  BY <1>1 DEF Idle
<1>3. Fine(q)
  BY <1>2 DEF Standing
<1> HIDE DEF q
<1>4. OnItsWay(q)
  BY <1>1, <1>2, <1>3 DEF Fine, InOrder
<1>5. q.gate \in DOMAIN Layers[q.layer].gates
  <2> DEFINE gates == Layers[q.layer].gates
  <2>1. Len(gates) \in 0..2 /\ DOMAIN gates = 1..Len(gates)
    BY <1>4, Whereabouts, GateCounts
  <2>2. q.gate \in 1..(Len(gates) + 1) /\ q.gate <= Len(gates)
    BY <1>1, <1>4, Whereabouts
  <2> HIDE DEF gates
  <2>3. q.gate \in DOMAIN gates
    BY <2>1, <2>2
  <2> QED
    BY <2>3 DEF gates
<1> QED
  BY <1>1, <1>3, <1>5 DEF q

LEMMA AtItsHandler ==
  ASSUME Standing, NEW r \in Requests, AtHandler(r)
  PROVE  /\ Fine(request[r]) /\ request[r].at = "gate"
         /\ request[r].gate > Len(Layers[request[r].layer].gates)
<1>1. request[r].at = "gate" /\ request[r].gate > Len(Layers[request[r].layer].gates)
  BY DEF AtHandler
<1>2. request[r] # Idle
  BY <1>1 DEF Idle
<1> QED
  BY <1>1, <1>2 DEF Standing

LEMMA RefusedStanding ==
  ASSUME Standing, NEW r \in Requests, Fine(request[r]), NEW status \in Statuses,
         Refused(r, status)
  PROVE  Standing'
<1>1. request[r] \in Live /\ AskedFor(request[r])
  BY Fields DEF Fine, InOrder
<1>2. Fine(Answered(request[r], status, "gate"))
  BY <1>1, RefusalFine
<1> QED
  BY <1>2, BecomesStanding DEF Refused

LEMMA ServedStanding ==
  ASSUME Standing, NEW r \in Requests, NEW routes, Serves(r, routes),
         NEW status \in Statuses, Served(r, status)
  PROVE  Standing' /\ Fine(request[r]) /\ request[r].at = "gate" /\ request[r].route \in routes
<1>1. AtHandler(r) /\ request[r].route \in routes \cap Layers[request[r].layer].serves
  BY DEF Serves
<1>2. /\ Fine(request[r]) /\ request[r].at = "gate"
      /\ request[r].gate > Len(Layers[request[r].layer].gates)
  BY <1>1, AtItsHandler
<1>3. Fine(Answered(request[r], status, Layers[request[r].layer].by))
  BY <1>1, <1>2, AnswerFine
<1>4. Standing'
  BY <1>3, BecomesStanding DEF Served
<1> QED
  BY <1>1, <1>2, <1>4

LEMMA InvariantKept == IInv /\ [Next]_vars => IInv'
<1> SUFFICES ASSUME IInv, [Next]_vars PROVE LimiterInv' /\ Stored' /\ Standing'
  BY LaterStanding
<1>0. LimiterInv /\ Stored /\ Standing
  BY NowStanding
<1>1. ASSUME UNCHANGED limiter PROVE LimiterInv'
  <2>1. watched' = watched /\ bucket' = bucket /\ recent' = recent
    BY <1>1 DEF limiter
  <2> QED
    BY <1>0, <2>1, LimiterNow, LimiterLater
<1>2. ASSUME UNCHANGED <<session, links>> PROVE Stored'
  BY <1>0, <1>2 DEF Stored
<1>3. ASSUME NEW status \in {"ok", "BadRequest", "Unauthorized", "NotFound", "Conflict",
                             "ServiceUnavailable"}
      PROVE  status \in Statuses
  BY <1>3 DEF Statuses
<1>4. ASSUME NEW r \in Requests, Arrive(r) PROVE LimiterInv' /\ Stored' /\ Standing'
  <2>1. LimiterInv' /\ Stored'
    BY <1>1, <1>2, <1>4 DEF Arrive
  <2>2. PICK asked \in Asked, c \in Clients, carries \in Credentials :
          /\ asked.route \in Routes
          /\ \E headers \in Arrivals(c) :
               Becomes(r, Walked(Arrived(asked, c, headers, carries), 0))
    BY <1>4 DEF Arrive, Arrived
  <2>3. PICK headers \in Arrivals(c) :
          Becomes(r, Walked(Arrived(asked, c, headers, carries), 0))
    BY <2>2
  <2>4. Fine(Walked(Arrived(asked, c, headers, carries), 0))
    BY <2>2, ArriveFine
  <2>5. Standing'
    BY <1>0, <2>3, <2>4, BecomesStanding
  <2> QED
    BY <2>1, <2>5
<1>5. ASSUME NEW r \in Requests, CheckLimit(r) PROVE LimiterInv' /\ Stored' /\ Standing'
  <2> DEFINE q == Spending(request[r])
             k == <<BudgetOf(request[r]), request[r].ip>>
  <2>1. At(r, Limits) /\ watched' = watched /\ UNCHANGED <<session, links>>
    BY <1>5 DEF CheckLimit, Limits
  <2>2. \/ (Counted(k, "admitted") \/ FailedOpen(k)) /\ Becomes(r, Further(q))
        \/ Counted(k, "refused") /\ Becomes(r, Answered(q, "TooManyRequests", "gate"))
    BY <1>5 DEF CheckLimit, Passes, Further, Spending
  <2>3. LimiterInv'
    BY <1>0, <2>1, <2>2, LimiterCounts
  <2>4. /\ Fine(Further(q))
        /\ Fine(Answered(q, "TooManyRequests", "gate"))
    BY <1>0, <2>1, AtGate, LimitFine
  <2>5. Standing'
    BY <1>0, <2>2, <2>4, BecomesStanding
  <2> QED
    BY <1>2, <2>1, <2>3, <2>5
<1>6. ASSUME NEW r \in Requests, Authenticate(r) PROVE LimiterInv' /\ Stored' /\ Standing'
  <2>1. LimiterInv' /\ Stored'
    BY <1>1, <1>2, <1>6 DEF Authenticate
  <2>2. At(r, {"requireAuth"}) \/ At(r, {"identify"})
    BY <1>6 DEF Authenticate
  <2>3. /\ Fine(request[r]) /\ request[r].at = "gate"
        /\ request[r].gate \in DOMAIN Layers[request[r].layer].gates
        /\ KindAt(request[r]) \in {"requireAuth", "identify"}
    BY <1>0, <2>2, AtGate
  <2>4. \/ request[r].carries = "session" /\ Becomes(r, Further(SignedIn(request[r])))
        \/ \E status \in {"Unauthorized", "ServiceUnavailable"} : Refused(r, status)
    BY <1>6 DEF Authenticate, Passes, Further, SignedIn
  <2>5. CASE request[r].carries = "session" /\ Becomes(r, Further(SignedIn(request[r])))
    <3>1. Fine(Further(SignedIn(request[r])))
      BY <2>3, <2>5, AuthFine
    <3> QED
      BY <1>0, <2>1, <2>5, <3>1, BecomesStanding
  <2>6. CASE \E status \in {"Unauthorized", "ServiceUnavailable"} : Refused(r, status)
    BY <1>0, <1>3, <2>1, <2>3, <2>6, RefusedStanding
  <2> QED
    BY <2>4, <2>5, <2>6
<1>7. ASSUME NEW r \in Requests, IdentifyGuest(r) PROVE LimiterInv' /\ Stored' /\ Standing'
  <2>1. LimiterInv' /\ Stored'
    BY <1>1, <1>2, <1>7 DEF IdentifyGuest
  <2>2. At(r, {"identify"}) /\ request[r].carries # "session"
    BY <1>7 DEF IdentifyGuest
  <2>3. /\ Fine(request[r]) /\ request[r].at = "gate"
        /\ request[r].gate \in DOMAIN Layers[request[r].layer].gates
        /\ KindAt(request[r]) = "identify"
    BY <1>0, <2>2, AtGate
  <2>4. Refused(r, "BadRequest") \/ Becomes(r, Further(request[r]))
    BY <1>7 DEF IdentifyGuest, Passes, Further
  <2>5. CASE Refused(r, "BadRequest")
    BY <1>0, <1>3, <2>1, <2>3, <2>5, RefusedStanding
  <2>6. CASE Becomes(r, Further(request[r]))
    <3>1. Fine(Further(request[r]))
      BY <2>2, <2>3, GuestFine
    <3> QED
      BY <1>0, <2>1, <2>6, <3>1, BecomesStanding
  <2> QED
    BY <2>4, <2>5, <2>6
<1>8. ASSUME NEW r \in Requests, FallThrough(r) PROVE LimiterInv' /\ Stored' /\ Standing'
  <2>1. LimiterInv' /\ Stored'
    BY <1>1, <1>2, <1>8 DEF FallThrough
  <2>2. /\ AtHandler(r) /\ request[r].route \notin Layers[request[r].layer].serves
        /\ Becomes(r, Walked(request[r], request[r].layer))
    BY <1>8 DEF FallThrough
  <2>3. Fine(Walked(request[r], request[r].layer))
    BY <1>0, <2>2, AtItsHandler, FallFine
  <2> QED
    BY <1>0, <2>1, <2>2, <2>3, BecomesStanding
<1>9. ASSUME NEW r \in Requests, ServeLogin(r) \/ ServeLogout(r)
      PROVE  LimiterInv' /\ Stored' /\ Standing'
  <2>1. \E status \in {"ok", "Unauthorized"} :
          (Serves(r, {"login"}) \/ Serves(r, {"logout"})) /\ Served(r, status)
    BY <1>9 DEF ServeLogin, ServeLogout
  <2>2. Standing'
    BY <1>0, <1>3, <2>1, ServedStanding
  <2>3. LimiterInv'
    BY <1>1, <1>9 DEF ServeLogin, ServeLogout
  <2>4. links' = links /\ \/ session' = session
                          \/ \E b \in BOOLEAN :
                               session' = [session EXCEPT ![request[r].client] = b]
    BY <1>9 DEF ServeLogin, ServeLogout
  <2>5. Stored'
    BY <1>0, <2>4 DEF Stored
  <2> QED
    BY <2>2, <2>3, <2>5
<1>10. ASSUME NEW r \in Requests, ServeCreate(r) PROVE LimiterInv' /\ Stored' /\ Standing'
  <2>1. PICK status \in {"ok", "BadRequest", "Conflict"} :
          Serves(r, {"create"}) /\ Served(r, status)
    BY <1>10 DEF ServeCreate
  <2>2. Standing' /\ Fine(request[r]) /\ request[r].at = "gate" /\ request[r].route = "create"
    BY <1>0, <1>3, <2>1, ServedStanding
  <2>3. request[r].code \in Codes
    BY <2>2, Fields DEF Fine, InOrder, AskedFor
  <2>4. LimiterInv'
    BY <1>1, <1>10 DEF ServeCreate
  <2>5. session' = session /\ (links' = links \/ links' = links \cup {request[r].code})
    BY <1>10 DEF ServeCreate
  <2>6. Stored'
    BY <1>0, <2>3, <2>5 DEF Stored
  <2> QED
    BY <2>2, <2>4, <2>6
<1>11. ASSUME NEW r \in Requests, ServeOther(r) PROVE LimiterInv' /\ Stored' /\ Standing'
  <2>1. LimiterInv' /\ Stored'
    BY <1>1, <1>2, <1>11 DEF ServeOther
  <2>2. PICK status \in {"ok", "NotFound", "ServiceUnavailable"} :
          Serves(r, Routes \ {"login", "logout", "create"}) /\ Served(r, status)
    BY <1>11 DEF ServeOther
  <2> QED
    BY <1>0, <1>3, <2>1, <2>2, ServedStanding
<1>12. ASSUME NEW r \in Requests, Finish(r) PROVE LimiterInv' /\ Stored' /\ Standing'
  BY <1>0, <1>1, <1>2, <1>12, BecomesStanding DEF Finish
<1>13. ASSUME UNCHANGED request PROVE Standing'
  BY <1>0, <1>13 DEF Standing
<1>14. CASE SessionEnds
  <2>1. LimiterInv' /\ Standing'
    BY <1>1, <1>13, <1>14 DEF SessionEnds
  <2>2. Stored'
    BY <1>0, <1>14 DEF SessionEnds, Stored
  <2> QED
    BY <2>1, <2>2
<1>15. CASE SecondPasses
  BY <1>0, <1>2, <1>13, <1>15, LimiterTicks DEF SecondPasses
<1>16. CASE RedisForgets
  BY <1>0, <1>2, <1>13, <1>16, LimiterForgets DEF RedisForgets
<1>17. CASE UNCHANGED vars
  BY <1>1, <1>2, <1>13, <1>17 DEF vars
<1> QED
  BY <1>4, <1>5, <1>6, <1>7, <1>8, <1>9, <1>10, <1>11, <1>12, <1>14, <1>15, <1>16, <1>17
     DEF Next

LEMMA InvariantStarts == Init => IInv
<1> SUFFICES ASSUME Init PROVE IInv
  OBVIOUS
<1>1. LimiterInv
  BY LimiterStarts DEF Init
<1>2. session \in [Clients -> BOOLEAN] /\ links \subseteq Codes
  BY DEF Init
<1>3. request \in [Requests -> {Idle} \cup Live]
  BY DEF Init
<1>4. \A r \in Requests : InOrder(request[r])
  BY IdleInOrder DEF Init
<1> QED
  BY <1>1, <1>2, <1>3, <1>4 DEF IInv, TypeOK, LimiterInv, RequestsInOrder, InOrder

-----------------------------------------------------------------------------
(* IInv: every value has its type, the followed counter always has its     *)
(* end, each of its windows admits at most its budget, and every request   *)
(* has been asked by the gates behind it exactly what its route requires.  *)
THEOREM InvariantHolds == Spec => []IInv
BY InvariantStarts, InvariantKept, PTL DEF Spec

(* Any Window seconds admit at most two budgets of an address: the fixed   *)
(* window's burst at its boundary is the worst (README.md:524).            *)
THEOREM AtMostTwoBurstsHolds == Spec => []AtMostTwoBursts
<1>1. IInv => AtMostTwoBursts
  BY NowStanding, TwoBursts
<1> QED
  BY <1>1, InvariantHolds, PTL

(* Every request that a handler answers has spent its route's budget and   *)
(* no other, through whatever proxies it came, and under its client's own  *)
(* address if the client wrote none of the headers that tell it (app.ts's  *)
(* order of registration, realClientIp).                                   *)
THEOREM OneBudgetEachHolds == Spec => []OneBudgetEach
<1>1. IInv => OneBudgetEach
  BY DEF IInv, RequestsInOrder, OneBudgetEach
<1> QED
  BY <1>1, InvariantHolds, PTL

(* A handler acts for an account exactly when the request carries a        *)
(* session, and no private route is served without one.                    *)
THEOREM NeverDowngradedHolds == Spec => []NeverDowngraded
<1>1. IInv => NeverDowngraded
  BY DEF IInv, RequestsInOrder, NeverDowngraded
<1> QED
  BY <1>1, InvariantHolds, PTL

-----------------------------------------------------------------------------
(* The links: in production, without nginx's own health check in front and *)
(* as long as no generated code is a reserved word, nothing shadows them.  *)

Unshadowed ==
  /\ Production /\ ~Nginx
  /\ \A c \in Codes : c.generated => c.word \notin {"health", "ready", "metrics"}

(* A request for a link that may be created.                               *)
ForLink(q) ==
  q # Idle /\ q.code # None /\ q.route # "create" /\ Creatable(q.code)

OnItsLink(q) ==
  /\ q.at = "gate" => q.layer = 14
  /\ q.at = "answered" => q.by = "redirect"

LinksApart ==
  /\ \A c \in links : Creatable(c)
  /\ \A r \in Requests : ForLink(request[r]) => OnItsLink(request[r])

LEMMA LinkLayer ==
  ASSUME Unshadowed, NEW c \in Codes, Creatable(c)
  PROVE  Following(RouteOf(c), 0) = 14
<1> DEFINE route == RouteOf(c)
           next == Following(route, 0)
<1>1. route \in {"link", "docs", "nginx-health"}
  BY DEF Unshadowed, Creatable, RouteOf, Words
<1>2. route \in Layers[14].takes
  BY <1>1, LayerTakes DEF Words
<1>3. \A n \in {1, 2, 3, 4, 5, 13} : route \notin Layers[n].takes
  BY <1>1, LayersAre DEF On, Use, When, Unshadowed
<1>4. \A n \in {6, 7, 8, 9, 10, 11} : route \notin Layers[n].takes
  BY <1>1, LayerTakes
<1>5. route \notin Layers[12].takes
  BY <1>1, LayerRoutes DEF UnderUrls
<1>6. \A n \in 1..13 : n \in {1, 2, 3, 4, 5, 13} \/ n \in {6, 7, 8, 9, 10, 11} \/ n = 12
  OBVIOUS
<1>7. \A n \in 1..13 : route \notin Layers[n].takes
  BY <1>3, <1>4, <1>5, <1>6
<1> HIDE DEF route
<1>8. \/ next = 0 /\ \A n \in (0 + 1)..15 : route \notin Layers[n].takes
      \/ /\ next \in (0 + 1)..15 /\ route \in Layers[next].takes
         /\ \A n \in (0 + 1)..(next - 1) : route \notin Layers[n].takes
  <2>1. 0 \in 0..15
    OBVIOUS
  <2> QED
    BY <2>1, FollowingIsNext
<1> HIDE DEF next
<1>9. next # 0
  <2>1. 14 \in (0 + 1)..15
    OBVIOUS
  <2> QED
    BY <1>2, <1>8, <2>1
<1>10. next \in 1..15 /\ next \notin 1..13
  BY <1>7, <1>8, <1>9
<1>11. next # 15
  <2>1. 14 \in (0 + 1)..(15 - 1)
    OBVIOUS
  <2> QED
    BY <1>2, <1>8, <1>9, <2>1
<1>12. next = 14
  BY <1>10, <1>11
<1> QED
  BY <1>12 DEF next, route

(* There is no gate on the way to a link, and its layer serves it.         *)
LEMMA LinkAtItsHandler ==
  ASSUME NEW q, Fine(q), q.at = "gate", ForLink(q), OnItsLink(q)
  PROVE  q.gate > Len(Layers[q.layer].gates) /\ q.route \in Layers[q.layer].serves
<1>1. q.layer = 14 /\ OnItsWay(q)
  BY DEF OnItsLink, Fine, InOrder, ForLink
<1>2. Layers[14].gates = <<>>
  BY LayerGates DEF Open
<1>3. q.gate > Len(Layers[q.layer].gates)
  <2>1. q.gate \in 1..(Len(Layers[q.layer].gates) + 1) /\ Len(Layers[q.layer].gates) = 0
    BY <1>1, <1>2, Whereabouts
  <2> QED
    BY <2>1
<1>4. q.route \in Layers[q.layer].serves
  BY <1>1, Whereabouts, LayerRoutes
<1> QED
  BY <1>3, <1>4

(* What a gate makes of a request is no request for a link.                *)
Same(q, p) == p.route = q.route /\ p.code = q.code

LEMMA EditsKeep ==
  ASSUME NEW q \in Live
  PROVE  /\ Same(q, Further(q)) /\ Same(q, Further(Spending(q)))
         /\ Same(q, Further(SignedIn(q)))
         /\ \A status, by : /\ Same(q, Answered(q, status, by))
                            /\ Same(q, Answered(Spending(q), status, by))
                            /\ Answered(q, status, by).at = "answered"
                            /\ Answered(q, status, by).by = by
<1>1. Same(q, Further(q)) /\ Same(q, Further(Spending(q))) /\ Same(q, Further(SignedIn(q)))
  BY DEF Live, Same, Further, Spending, SignedIn
<1>2. ASSUME NEW status, NEW by
      PROVE  /\ Same(q, Answered(q, status, by))
             /\ Same(q, Answered(Spending(q), status, by))
             /\ Answered(q, status, by).at = "answered"
             /\ Answered(q, status, by).by = by
  BY DEF Live, Same, Answered, Spending
<1> QED
  BY <1>1, <1>2

LEMMA GateNoLink ==
  ASSUME Standing, LinksApart, NEW r \in Requests, NEW kinds, At(r, kinds)
  PROVE  request[r] \in Live /\ ~ForLink(request[r])
<1>1. /\ Fine(request[r]) /\ request[r].at = "gate"
      /\ request[r].gate \in DOMAIN Layers[request[r].layer].gates
  BY AtGate
<1>2. request[r].gate <= Len(Layers[request[r].layer].gates)
  BY DEF At
<1>3. ASSUME ForLink(request[r]) PROVE FALSE
  <2>1. request[r].gate > Len(Layers[request[r].layer].gates)
    BY <1>1, <1>3, LinkAtItsHandler DEF LinksApart
  <2>2. /\ request[r].gate \in Int
        /\ Len(Layers[request[r].layer].gates) \in 0..2
    BY <1>1, Whereabouts, GateCounts, Fields DEF Fine, InOrder
  <2> QED
    BY <1>2, <2>1, <2>2
<1> QED
  BY <1>1, <1>3 DEF Fine

LEMMA BecomesApart ==
  ASSUME Standing, LinksApart, NEW r \in Requests, NEW p, Becomes(r, p),
         ForLink(p) => OnItsLink(p), \A c \in links' : Creatable(c)
  PROVE  LinksApart'
<1>1. request' = [request EXCEPT ![r] = p] /\ request \in [Requests -> {Idle} \cup Live]
  BY DEF Becomes, Standing
<1>2. ASSUME NEW i \in Requests, ForLink(request'[i]) PROVE OnItsLink(request'[i])
  <2>1. request'[i] = IF i = r THEN p ELSE request[i]
    BY <1>1
  <2> QED
    BY <1>2, <2>1 DEF LinksApart
<1> QED
  BY <1>2 DEF LinksApart

LEMMA NoLinkBecomesApart ==
  ASSUME Standing, LinksApart, NEW r \in Requests, NEW p, Becomes(r, p),
         request[r] # Idle, ~ForLink(request[r]), Same(request[r], p),
         \A c \in links' : Creatable(c)
  PROVE  LinksApart'
<1>1. ~ForLink(p)
  BY DEF ForLink, Same
<1> QED
  BY <1>1, BecomesApart

LEMMA ServedApart ==
  ASSUME Standing, LinksApart, NEW r \in Requests, NEW routes, Serves(r, routes),
         NEW status, Served(r, status), \A c \in links' : Creatable(c)
  PROVE  LinksApart'
<1> DEFINE q == request[r]
           p == Answered(q, status, Layers[q.layer].by)
<1>1. Fine(q) /\ q.at = "gate"
  BY AtItsHandler DEF Serves
<1>2. q \in Live /\ q # Idle
  BY <1>1, Fields DEF Fine
<1>3. Same(q, p) /\ p.at = "answered" /\ p.by = Layers[q.layer].by
  BY <1>2, EditsKeep
<1>4. ForLink(p) => OnItsLink(p)
  <2>1. ForLink(p) => q.layer = 14
    BY <1>1, <1>2, <1>3 DEF ForLink, OnItsLink, Same, LinksApart
  <2>2. Layers[14].by = "redirect"
    BY LayersAre DEF On, Use
  <2> QED
    BY <1>3, <2>1, <2>2 DEF OnItsLink
<1>5. Becomes(r, p)
  BY DEF Served
<1> HIDE DEF p, q
<1> QED
  BY <1>4, <1>5, BecomesApart

LEMMA LinksKeptApart ==
  ASSUME Unshadowed, IInv, LinksApart, [Next]_vars
  PROVE  LinksApart'
<1>0. LimiterInv /\ Stored /\ Standing
  BY NowStanding
<1>1. ASSUME UNCHANGED links PROVE \A c \in links' : Creatable(c)
  BY <1>1 DEF LinksApart
<1>2. ASSUME NEW r \in Requests, Arrive(r) PROVE LinksApart'
  <2>1. PICK asked \in Asked, c \in Clients, carries \in Credentials :
          /\ asked.route \in Routes
          /\ \E headers \in Arrivals(c) :
               Becomes(r, Walked(Arrived(asked, c, headers, carries), 0))
    BY <1>2 DEF Arrive, Arrived
  <2>2. PICK headers \in Arrivals(c) :
          Becomes(r, Walked(Arrived(asked, c, headers, carries), 0))
    BY <2>1
  <2> DEFINE q == Arrived(asked, c, headers, carries)
             p == Walked(q, 0)
  <2>3. q.route = asked.route /\ q.code = asked.code /\ q.at = "gate"
    BY DEF Arrived
  <2>4. CASE Following(asked.route, 0) = 14
    <3>1. p = [q EXCEPT !.layer = Following(q.route, 0), !.gate = 1]
      <4> HIDE DEF q
      <4>1. Following(q.route, 0) # 0
        BY <2>3, <2>4
      <4> QED
        BY <4>1 DEF Walked
    <3>2. p.at = "gate" /\ p.layer = Following(q.route, 0)
      <4> HIDE DEF p
      <4> QED
        BY <3>1 DEF Arrived
    <3>3. OnItsLink(p)
      BY <2>3, <2>4, <3>2 DEF OnItsLink
    <3> QED
      BY <1>0, <1>1, <1>2, <2>2, <3>3, BecomesApart DEF Arrive
  <2>5. CASE Following(asked.route, 0) # 14
    <3>1. asked.code # None /\ asked.route # "create" =>
            asked.code \in Codes /\ asked.route = RouteOf(asked.code)
      BY DEF Asked
    <3>2. p.route = asked.route /\ p.code = asked.code
      BY DEF Walked, Answered, Arrived
    <3>3. ~ForLink(p)
      BY <2>5, <3>1, <3>2, LinkLayer DEF ForLink
    <3> QED
      BY <1>0, <1>1, <1>2, <2>2, <3>3, BecomesApart DEF Arrive
  <2> QED
    BY <2>4, <2>5
<1>3. ASSUME NEW r \in Requests, CheckLimit(r) PROVE LinksApart'
  <2> DEFINE q == request[r]
  <2>1. At(r, Limits) /\ links' = links
    BY <1>3 DEF CheckLimit, Limits
  <2>2. \/ Becomes(r, Further(Spending(q)))
        \/ Becomes(r, Answered(Spending(q), "TooManyRequests", "gate"))
    BY <1>3 DEF CheckLimit, Passes, Further, Spending
  <2>3. q \in Live /\ q # Idle /\ ~ForLink(q)
    BY <1>0, <2>1, GateNoLink, Fields
  <2>4. /\ Same(q, Further(Spending(q)))
        /\ Same(q, Answered(Spending(q), "TooManyRequests", "gate"))
    BY <2>3, EditsKeep
  <2> QED
    BY <1>0, <1>1, <2>1, <2>2, <2>3, <2>4, NoLinkBecomesApart
<1>4. ASSUME NEW r \in Requests, Authenticate(r) PROVE LinksApart'
  <2> DEFINE q == request[r]
  <2>1. (At(r, {"requireAuth"}) \/ At(r, {"identify"})) /\ links' = links
    BY <1>4 DEF Authenticate
  <2>2. \/ Becomes(r, Further(SignedIn(q)))
        \/ \E status \in Statuses : Becomes(r, Answered(q, status, "gate"))
    BY <1>4 DEF Authenticate, Passes, Further, SignedIn, Refused, Statuses
  <2>3. q \in Live /\ q # Idle /\ ~ForLink(q)
    BY <1>0, <2>1, GateNoLink, Fields
  <2>4. /\ Same(q, Further(SignedIn(q)))
        /\ \A status : Same(q, Answered(q, status, "gate"))
    BY <2>3, EditsKeep
  <2> QED
    BY <1>0, <1>1, <2>1, <2>2, <2>3, <2>4, NoLinkBecomesApart
<1>5. ASSUME NEW r \in Requests, IdentifyGuest(r) PROVE LinksApart'
  <2> DEFINE q == request[r]
  <2>1. At(r, {"identify"}) /\ links' = links
    BY <1>5 DEF IdentifyGuest
  <2>2. \/ Becomes(r, Further(q))
        \/ Becomes(r, Answered(q, "BadRequest", "gate"))
    BY <1>5 DEF IdentifyGuest, Passes, Further, Refused
  <2>3. q \in Live /\ q # Idle /\ ~ForLink(q)
    BY <1>0, <2>1, GateNoLink, Fields
  <2>4. Same(q, Further(q)) /\ Same(q, Answered(q, "BadRequest", "gate"))
    BY <2>3, EditsKeep
  <2> QED
    BY <1>0, <1>1, <2>1, <2>2, <2>3, <2>4, NoLinkBecomesApart
<1>6. ASSUME NEW r \in Requests, FallThrough(r) PROVE LinksApart'
  <2> DEFINE q == request[r]
             p == Walked(q, q.layer)
  <2>1. AtHandler(r) /\ q.route \notin Layers[q.layer].serves /\ Becomes(r, p) /\ links' = links
    BY <1>6 DEF FallThrough
  <2>2. Fine(q) /\ q.at = "gate"
    BY <1>0, <2>1, AtItsHandler
  <2>3. q \in Live /\ q # Idle
    BY <2>2, Fields DEF Fine
  <2>4. ~ForLink(q)
    BY <2>1, <2>2, LinkAtItsHandler DEF LinksApart
  <2>5. Same(q, p)
    <3>1. Same(q, [q EXCEPT !.layer = Following(q.route, q.layer), !.gate = 1])
      BY <2>3 DEF Live, Same
    <3>2. Same(q, Answered(q, "NotFound", "fallback"))
      BY <2>3, EditsKeep
    <3> QED
      BY <3>1, <3>2 DEF Walked
  <2> HIDE DEF p
  <2> QED
    BY <1>0, <1>1, <2>1, <2>3, <2>4, <2>5, NoLinkBecomesApart
<1>7. ASSUME NEW r \in Requests, ServeLogin(r) \/ ServeLogout(r) \/ ServeOther(r)
      PROVE  LinksApart'
  <2>1. links' = links
    BY <1>7 DEF ServeLogin, ServeLogout, ServeOther
  <2>2. \E routes : \E status : Serves(r, routes) /\ Served(r, status)
    BY <1>7 DEF ServeLogin, ServeLogout, ServeOther
  <2> QED
    BY <1>0, <1>1, <2>1, <2>2, ServedApart
<1>8. ASSUME NEW r \in Requests, ServeCreate(r) PROVE LinksApart'
  <2>1. \E status : Serves(r, {"create"}) /\ Served(r, status)
    BY <1>8 DEF ServeCreate
  <2>2. links' = links \/ (Creatable(request[r].code) /\ links' = links \cup {request[r].code})
    BY <1>8 DEF ServeCreate
  <2>3. \A c \in links' : Creatable(c)
    BY <2>2 DEF LinksApart
  <2> QED
    BY <1>0, <2>1, <2>3, ServedApart
<1>9. ASSUME NEW r \in Requests, Finish(r) PROVE LinksApart'
  <2>1. Becomes(r, Idle) /\ links' = links
    BY <1>9 DEF Finish
  <2>2. ~ForLink(Idle)
    BY DEF ForLink
  <2> QED
    BY <1>0, <1>1, <2>1, <2>2, BecomesApart
<1>10. ASSUME UNCHANGED <<links, request>> PROVE LinksApart'
  BY <1>10 DEF LinksApart
<1>11. CASE SessionEnds \/ SecondPasses \/ RedisForgets \/ UNCHANGED vars
  BY <1>10, <1>11 DEF SessionEnds, SecondPasses, RedisForgets, vars
<1> QED
  BY <1>2, <1>3, <1>4, <1>5, <1>6, <1>7, <1>8, <1>9, <1>11 DEF Next

(* In production a link that was created is reached by its request: no     *)
(* other layer shadows it, nor does any gate stand before it.              *)
THEOREM LinksReachableHolds ==
  ASSUME Unshadowed
  PROVE  Spec => []LinksReachable
<1>1. Init => LinksApart
  BY DEF Init, LinksApart, ForLink
<1>2. IInv /\ LinksApart /\ [Next]_vars => LinksApart'
  BY LinksKeptApart
<1>3. IInv /\ LinksApart => LinksReachable
  <2> SUFFICES ASSUME IInv, LinksApart, NEW r \in Requests, request[r] # Idle,
                      request[r].code \in links
               PROVE  Reaches(request[r])
    BY DEF LinksReachable
  <2>1. request[r].code # None /\ Creatable(request[r].code)
    BY NowStanding, NoCode DEF Stored, LinksApart
  <2> QED
    BY <2>1 DEF Reaches, LinksApart, ForLink, OnItsLink
<1> QED
  BY <1>1, <1>2, <1>3, InvariantHolds, PTL DEF Spec

=============================================================================
