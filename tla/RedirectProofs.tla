--------------------------- MODULE RedirectProofs ---------------------------
(***************************************************************************)
(* Proofs about the redirect path, for any sets of codes, targets,         *)
(* deadlines and requests: types, and when a cached entry may be stale.    *)
(***************************************************************************)
EXTENDS RedirectHistory, TLAPS

(* A suspended request has the locals its place calls for.                 *)
LEMMA CallLocals ==
  ASSUME NEW k \in Calls
  PROVE  /\ k.at \in {"lookup", "query", "deactivate", "update", "invalidate"}
              => k = [at |-> k.at, code |-> k.code] /\ k.code \in Codes
         /\ k.at = "hit" => k.code \in Codes /\ k.entry \in Links \cup Negatives
         /\ k.at = "row" => k.code \in Codes /\ k.row \in Links \cup {Missing}
         /\ k.at = "store" => /\ k.code \in Codes /\ k.answer \in Answers
                              /\ k.entry \in Links \cup Negatives
         /\ k.at = "answer" => k.answer \in Answers
         /\ k.at = "insert" => /\ k.candidates \subseteq Codes /\ k.link \in Links
                               /\ k.tries \in 1..MaxTries
                               /\ k = [at |-> "insert", candidates |-> k.candidates,
                                       link |-> k.link, tries |-> k.tries]
BY DEF Calls, Idle

LEMMA ClassifyType ==
  ASSUME NEW row \in Links \cup {Missing}
  PROVE  Classify(row) \in Links \cup Negatives
BY DEF Classify, Links, Missing, Negatives, Gone

LEMMA FromCacheType ==
  ASSUME NEW entry \in Links \cup Negatives
  PROVE  FromCache(entry) \in [kind : {"redirect"}, url : Targets] \cup Negatives
BY DEF FromCache, Links, Missing, Negatives, Gone

LEMMA GoesType ==
  ASSUME TypeOK, NEW r \in Requests, NEW next \in Calls, Goes(r, next)
  PROVE  /\ call' \in [Requests -> Calls]
         /\ call'[r] = next
         /\ \A q \in Requests \ {r} : call'[q] = call[q]
BY DEF TypeOK, Goes

-----------------------------------------------------------------------------
LEMMA TypeStep ==
  ASSUME TypeOK, [Next]_vars
  PROVE  TypeOK'
<1> USE MaxTriesPositive, UpdatesBoolean, FaultsBoolean
<1> SUFFICES ASSUME Next PROVE TypeOK'
  BY DEF TypeOK, vars
<1>1. ASSUME NEW d \in Deadlines, DeadlinePasses(d) PROVE TypeOK'
  BY <1>1 DEF TypeOK, DeadlinePasses
<1>2. ASSUME NEW c \in Codes, EntryExpires(c) PROVE TypeOK'
  BY <1>2 DEF TypeOK, EntryExpires
<1>3. ASSUME NEW r \in Requests, Begin(r) PROVE TypeOK'
  <2>1. \E k \in Calls : Goes(r, k)
    <3>1. ASSUME NEW c \in Codes, BeginResolve(r, c) \/ BeginDeactivate(r, c) \/ BeginUpdate(r, c)
          PROVE  \E k \in Calls : Goes(r, k)
      BY <3>1 DEF BeginResolve, BeginDeactivate, BeginUpdate, Calls
    <3>2. ASSUME NEW link \in Links, NEW s \in SUBSET Codes, NEW n \in 1..MaxTries,
                 BeginCreate(r, s, n, link)
          PROVE  \E k \in Calls : Goes(r, k)
      BY <3>2 DEF BeginCreate, Calls
    <3>3. 1 \in 1..MaxTries /\ MaxTries \in 1..MaxTries
      OBVIOUS
    <3> QED BY <1>3, <3>1, <3>2, <3>3 DEF Begin
  <2>2. UNCHANGED <<table, cache, past, excused>>
    BY <1>3 DEF Begin, BeginResolve, BeginDeactivate, BeginUpdate, BeginCreate
  <2> QED BY <2>1, <2>2, GoesType DEF TypeOK
<1>4. ASSUME NEW r \in Requests, Continue(r) PROVE TypeOK'
  <2> DEFINE k == call[r]
  <2>0. k \in Calls /\ Idle \in Calls
    BY DEF TypeOK, Calls
  <2>1. CASE LookupHits(r)
    <3>1. cache[k.code] \in Links \cup Negatives
      BY <2>0, <2>1, CallLocals DEF LookupHits, TypeOK
    <3>2. [at |-> "hit", code |-> k.code, entry |-> cache[k.code]] \in Calls
      BY <2>0, <2>1, <3>1, CallLocals DEF LookupHits, Calls
    <3> QED BY <2>1, <3>2, GoesType DEF LookupHits, TypeOK
  <2>2. CASE JudgeHit(r)
    <3>1. [code |-> k.code, says |-> FromCache(k.entry)] \in Answers
      BY <2>0, <2>2, CallLocals, FromCacheType DEF JudgeHit, Answers
    <3>2. [at |-> "answer",
           answer |-> [code |-> k.code, says |-> FromCache(k.entry)]] \in Calls
      BY <3>1 DEF Calls
    <3> QED BY <2>2, <3>2, GoesType DEF JudgeHit, TypeOK
  <2>3. CASE LookupMisses(r)
    <3>1. [at |-> "query", code |-> k.code] \in Calls
      BY <2>0, <2>3, CallLocals DEF LookupMisses, Calls
    <3> QED BY <2>3, <3>1, GoesType DEF LookupMisses, TypeOK
  <2>4. CASE QueryRow(r)
    <3>1. [at |-> "row", code |-> k.code, row |-> table[k.code]] \in Calls
      BY <2>0, <2>4, CallLocals DEF QueryRow, Calls, TypeOK
    <3> QED BY <2>4, <3>1, GoesType DEF QueryRow, TypeOK
  <2>5. CASE JudgeRow(r)
    <3> DEFINE entry == Classify(k.row)
               answer == [code |-> k.code, says |-> FromCache(entry)]
    <3>1. entry \in Links \cup Negatives /\ k.code \in Codes
      BY <2>0, <2>5, CallLocals, ClassifyType DEF JudgeRow
    <3>2. answer \in Answers
      BY <3>1, FromCacheType DEF Answers
    <3>3. [at |-> "store", code |-> k.code, entry |-> entry, answer |-> answer] \in Calls
      BY <3>1, <3>2 DEF Calls
    <3> QED BY <2>5, <3>3, GoesType DEF JudgeRow, TypeOK
  <2>6. CASE StoreApplies(r)
    <3>1. [at |-> "answer", answer |-> k.answer] \in Calls
      BY <2>0, <2>6, CallLocals DEF StoreApplies, Calls
    <3>2. k.code \in Codes /\ k.entry \in Links \cup Negatives
      BY <2>0, <2>6, CallLocals DEF StoreApplies
    <3> QED BY <2>6, <3>1, <3>2, GoesType DEF StoreApplies, TypeOK
  <2>7. CASE Respond(r)
    BY <2>0, <2>7, GoesType DEF Respond, TypeOK
  <2>8. ASSUME NEW c \in Codes, InsertCommits(r, c) PROVE TypeOK'
    <3>1. [at |-> "invalidate", code |-> c] \in Calls
      BY DEF Calls
    <3>2. k.link \in Links
      BY <2>0, <2>8, CallLocals DEF InsertCommits
    <3> QED BY <2>8, <3>1, <3>2, GoesType DEF InsertCommits, TypeOK
  <2>9. ASSUME NEW c \in Codes, InsertConflicts(r, c) PROVE TypeOK'
    <3>1. CASE k.tries > 1
      <4>1. [k EXCEPT !.tries = @ - 1] =
              [at |-> "insert", candidates |-> k.candidates,
               link |-> k.link, tries |-> k.tries - 1]
        BY <2>0, <2>9, CallLocals DEF InsertConflicts
      <4>2. k.tries - 1 \in 1..MaxTries /\ k.candidates \subseteq Codes /\ k.link \in Links
        BY <2>0, <2>9, <3>1, CallLocals DEF InsertConflicts
      <4>3. [k EXCEPT !.tries = @ - 1] \in Calls
        BY <4>1, <4>2 DEF Calls
      <4> QED BY <2>9, <3>1, <4>3, GoesType DEF InsertConflicts, TypeOK
    <3>2. CASE k.tries = 1
      BY <2>0, <2>9, <3>2, GoesType DEF InsertConflicts, TypeOK
    <3> QED BY <2>9, <3>1, <3>2 DEF InsertConflicts
  <2>10. CASE DeactivateCommits(r)
    <3>1. k.code \in Codes /\ [at |-> "invalidate", code |-> k.code] \in Calls
      BY <2>0, <2>10, CallLocals DEF DeactivateCommits, Calls
    <3>2. table[k.code] \in Links
      BY <2>10, <3>1 DEF DeactivateCommits, TypeOK
    <3>3. [table[k.code] EXCEPT !.active = FALSE] \in Links
      BY <3>2 DEF Links
    <3> QED BY <2>10, <3>1, <3>3, GoesType DEF DeactivateCommits, TypeOK
  <2>11. CASE NothingMatches(r)
    BY <2>0, <2>11, GoesType DEF NothingMatches, TypeOK
  <2>12. ASSUME NEW link \in Links, UpdateCommits(r, link) PROVE TypeOK'
    <3>1. k.code \in Codes /\ [at |-> "invalidate", code |-> k.code] \in Calls
      BY <2>0, <2>12, CallLocals DEF UpdateCommits, Calls
    <3> QED BY <2>12, <3>1, GoesType DEF UpdateCommits, TypeOK
  <2>13. CASE Invalidate(r)
    BY <2>0, <2>13, GoesType DEF Invalidate, TypeOK
  <2> QED BY <1>4, <2>1, <2>2, <2>3, <2>4, <2>5, <2>6, <2>7, <2>8, <2>9, <2>10,
             <2>11, <2>12, <2>13 DEF Continue
<1>5. ASSUME NEW r \in Requests, Fail(r) PROVE TypeOK'
  <2>0. call[r] \in Calls /\ Idle \in Calls
    BY DEF TypeOK, Calls
  <2>1. CASE StoreFails(r)
    <3>1. [at |-> "answer", answer |-> call[r].answer] \in Calls
      BY <2>0, <2>1, CallLocals DEF StoreFails, Calls
    <3> QED BY <2>1, <3>1, GoesType DEF StoreFails, TypeOK
  <2>2. CASE InvalidateFails(r)
    <3>1. call[r].code \in Codes
      BY <2>0, <2>2, CallLocals DEF InvalidateFails
    <3> QED BY <2>0, <2>2, <3>1, GoesType DEF InvalidateFails, TypeOK
  <2>3. CASE RequestDies(r)
    <3>1. call[r].at = "invalidate" => call[r].code \in Codes
      BY <2>0, CallLocals
    <3> QED BY <2>0, <2>3, <3>1, GoesType DEF RequestDies, TypeOK
  <2> QED BY <1>5, <2>1, <2>2, <2>3 DEF Fail
<1> QED BY <1>1, <1>2, <1>3, <1>4, <1>5 DEF Next

(* Every variable keeps its type; a generated code is drawn at most        *)
(* MaxTries times.                                                         *)
THEOREM TypeCorrect == Spec => []TypeOK
<1>1. Init => TypeOK
  BY DEF Init, TypeOK, Calls, Missing
<1>2. TypeOK /\ [Next]_vars => TypeOK'
  BY TypeStep
<1> QED BY <1>1, <1>2, PTL DEF Spec
-----------------------------------------------------------------------------
(* As deadlines pass, what a row was cached as remains one of its two      *)
(* forms: the row itself, or what it is classified as.                     *)
LEMMA ClassifyOverTime ==
  ASSUME NEW row \in Links \cup {Missing}, past \subseteq past'
  PROVE  Classify(row) = row \/ Classify(row) = Classify(row)'
<1>1. CASE row = Missing
  BY <1>1 DEF Classify, Missing
<1>2. CASE row \in Links /\ ~row.active
  BY <1>2 DEF Classify, Links, Missing
<1>3. CASE row \in Links /\ row.active /\ row.expires \in past
  BY <1>3 DEF Classify, Links, Missing
<1>4. CASE row \in Links /\ row.active /\ row.expires \notin past
  BY <1>4 DEF Classify, Links, Missing
<1> QED BY <1>1, <1>2, <1>3, <1>4

(* A deadline never makes an entry that agrees with its row disagree.      *)
LEMMA FreshOverTime ==
  ASSUME TypeOK, NEW c \in Codes, NEW d \in Deadlines, DeadlinePasses(d),
         NEW entry, Fresh(entry, c)
  PROVE  Fresh(entry, c)'
<1>1. table' = table /\ past \subseteq past'
  BY DEF DeadlinePasses
<1>2. PICK row \in Links \cup {Missing} : row = table[c]
  BY DEF TypeOK
<1>3. Classify(row) = row \/ Classify(row) = Classify(row)'
  BY <1>1, <1>2, ClassifyOverTime
<1>4. entry \in {row, Classify(row)}
  BY <1>2 DEF Fresh
<1>5. entry \in {row, Classify(row)'}
  BY <1>3, <1>4
<1> QED BY <1>1, <1>2, <1>5 DEF Fresh, Classify

(* A request that leaves both stores alone and awaits no DEL.              *)
LEMMA LocalStep ==
  ASSUME TypeOK, StaleOnlyIfExcused, NEW r \in Requests, NEW next \in Calls,
         Goes(r, next), call[r].at # "invalidate",
         UNCHANGED <<table, cache, past, excused>>
  PROVE  StaleOnlyIfExcused'
<1>1. ASSUME NEW c \in Codes, Invalidating(c) PROVE Invalidating(c)'
  BY <1>1, GoesType DEF Invalidating
<1>2. \A c \in Codes : \A entry : Fresh(entry, c) <=> Fresh(entry, c)'
  BY DEF Fresh, Classify
<1> QED BY <1>1, <1>2 DEF StaleOnlyIfExcused

(* A request that commits a change of c's row and will invalidate it.      *)
LEMMA CommitStep ==
  ASSUME TypeOK, StaleOnlyIfExcused, NEW r \in Requests, NEW c \in Codes, NEW row,
         Goes(r, [at |-> "invalidate", code |-> c]), call[r].at # "invalidate",
         table' = [table EXCEPT ![c] = row], UNCHANGED <<cache, past, excused>>
  PROVE  StaleOnlyIfExcused'
<1>0. [at |-> "invalidate", code |-> c] \in Calls
  BY DEF Calls
<1>1. Invalidating(c)'
  BY <1>0, GoesType DEF Invalidating
<1>2. ASSUME NEW e \in Codes, Invalidating(e) PROVE Invalidating(e)'
  BY <1>0, <1>2, GoesType DEF Invalidating
<1>3. ASSUME NEW e \in Codes, e # c, NEW entry, Fresh(entry, e) PROVE Fresh(entry, e)'
  BY <1>3 DEF Fresh, Classify, TypeOK
<1> QED BY <1>1, <1>2, <1>3 DEF StaleOnlyIfExcused

(* A request at its end, whose own code, if it awaited a DEL, is empty in  *)
(* Redis or excused.                                                       *)
LEMMA EndStep ==
  ASSUME TypeOK, StaleOnlyIfExcused, NEW r \in Requests, NEW c \in Codes,
         call[r] = [at |-> "invalidate", code |-> c], Goes(r, Idle),
         UNCHANGED <<table, past>>,
         \A e \in Codes \ {c} : cache'[e] = cache[e] /\ (e \in excused => e \in excused'),
         cache'[c] = Empty \/ c \in excused'
  PROVE  StaleOnlyIfExcused'
<1>0. Idle \in Calls
  BY DEF Calls
<1>1. ASSUME NEW e \in Codes, e # c, Invalidating(e) PROVE Invalidating(e)'
  <2>1. PICK q \in Requests : call[q] = [at |-> "invalidate", code |-> e]
    BY <1>1 DEF Invalidating
  <2>2. q # r
    BY <1>1, <2>1
  <2> QED BY <1>0, <2>1, <2>2, GoesType DEF Invalidating
<1>2. \A e \in Codes : \A entry : Fresh(entry, e) <=> Fresh(entry, e)'
  BY DEF Fresh, Classify
<1> QED BY <1>1, <1>2 DEF StaleOnlyIfExcused

LEMMA StaleStep ==
  ASSUME TypeOK, StaleOnlyIfExcused, [Next]_vars
  PROVE  StaleOnlyIfExcused'
<1>1. CASE UNCHANGED vars
  BY <1>1 DEF vars, StaleOnlyIfExcused, Fresh, Classify, Invalidating
<1>2. ASSUME NEW d \in Deadlines, DeadlinePasses(d) PROVE StaleOnlyIfExcused'
  <2>1. UNCHANGED <<cache, call, excused>>
    BY <1>2 DEF DeadlinePasses
  <2>2. \A c \in Codes : Fresh(cache[c], c) => Fresh(cache[c], c)'
    BY <1>2, <2>1, FreshOverTime
  <2> QED BY <2>1, <2>2 DEF StaleOnlyIfExcused, Invalidating
<1>3. ASSUME NEW c \in Codes, EntryExpires(c) PROVE StaleOnlyIfExcused'
  <2>1. \A e \in Codes : \A entry : Fresh(entry, e) <=> Fresh(entry, e)'
    BY <1>3 DEF EntryExpires, Fresh, Classify
  <2> QED BY <1>3, <2>1 DEF EntryExpires, StaleOnlyIfExcused, Invalidating, TypeOK
<1>4. ASSUME NEW r \in Requests, Begin(r) \/ Continue(r) \/ Fail(r)
      PROVE  StaleOnlyIfExcused'
  <2> DEFINE k == call[r]
  <2>0. k \in Calls /\ TypeOK'
    BY <1>4, TypeStep DEF TypeOK, Next
  <2>1. call'[r] \in Calls
    BY <2>0 DEF TypeOK
  <2>2. CASE /\ UNCHANGED <<table, cache, past, excused>>
             /\ k.at # "invalidate"
             /\ \E next : Goes(r, next)
    <3>1. Goes(r, call'[r])
      BY <2>2 DEF Goes, TypeOK
    <3> QED BY <2>1, <2>2, <3>1, LocalStep
  <2>3. CASE Begin(r)
    <3>1. k = Idle /\ UNCHANGED <<table, cache, past, excused>>
      BY <2>3 DEF Begin, BeginResolve, BeginDeactivate, BeginUpdate, BeginCreate
    <3>2. \E next : Goes(r, next)
      BY <2>3 DEF Begin, BeginResolve, BeginDeactivate, BeginUpdate, BeginCreate
    <3>3. k.at # "invalidate"
      BY <3>1 DEF Idle
    <3> QED BY <2>2, <3>1, <3>2, <3>3
  <2>4. CASE LookupHits(r) \/ JudgeHit(r) \/ LookupMisses(r) \/ QueryRow(r) \/ JudgeRow(r)
    BY <2>2, <2>4 DEF LookupHits, JudgeHit, LookupMisses, QueryRow, JudgeRow
  <2>5. CASE StoreFails(r) \/ Respond(r) \/ NothingMatches(r)
    BY <2>2, <2>5 DEF StoreFails, Respond, NothingMatches
  <2>6. CASE \E c \in Codes : InsertConflicts(r, c)
    BY <2>2, <2>6 DEF InsertConflicts
  <2>7. CASE StoreApplies(r)
    <3>1. UNCHANGED <<table, past>> /\ k.at = "store" /\ k.code \in Codes
      BY <2>0, <2>7, CallLocals DEF StoreApplies
    <3>2. PICK c \in Codes : c = k.code
      BY <3>1
    <3>3. \A e \in Codes : \A entry : Fresh(entry, e) <=> Fresh(entry, e)'
      BY <3>1 DEF Fresh, Classify
    <3>4. ASSUME NEW e \in Codes, Invalidating(e) PROVE Invalidating(e)'
      BY <2>7, <3>1, <3>4 DEF Invalidating, StoreApplies, Goes, TypeOK
    <3>5. ASSUME NEW e \in Codes, e # c
          PROVE  cache'[e] = cache[e] /\ (e \in excused => e \in excused')
      BY <2>7, <3>2, <3>5 DEF StoreApplies, TypeOK
    <3>6. cache'[c] = k.entry /\ (Fresh(k.entry, c) \/ c \in excused')
      BY <2>7, <3>2 DEF StoreApplies, TypeOK
    <3>7. cache'[c] = Empty \/ Fresh(cache[c], c)' \/ c \in excused'
      BY <3>1, <3>6 DEF Fresh, Classify
    <3> QED BY <3>3, <3>4, <3>5, <3>7 DEF StaleOnlyIfExcused
  <2>8. ASSUME NEW c \in Codes, InsertCommits(r, c) PROVE StaleOnlyIfExcused'
    BY <2>8, CommitStep DEF InsertCommits
  <2>9. CASE DeactivateCommits(r)
    <3>1. k.code \in Codes
      BY <2>0, <2>9, CallLocals DEF DeactivateCommits
    <3> QED BY <2>9, <3>1, CommitStep DEF DeactivateCommits
  <2>10. ASSUME NEW link \in Links, UpdateCommits(r, link) PROVE StaleOnlyIfExcused'
    <3>1. k.code \in Codes
      BY <2>0, <2>10, CallLocals DEF UpdateCommits
    <3> QED BY <2>10, <3>1, CommitStep DEF UpdateCommits
  <2>11. CASE Invalidate(r) \/ InvalidateFails(r) \/ (RequestDies(r) /\ k.at = "invalidate")
    <3>1. k.code \in Codes /\ k = [at |-> "invalidate", code |-> k.code]
      BY <2>0, <2>11, CallLocals DEF Invalidate, InvalidateFails
    <3>2. cache'[k.code] = Empty \/ k.code \in excused'
      BY <2>11, <3>1 DEF Invalidate, InvalidateFails, RequestDies, TypeOK
    <3>3. \A e \in Codes \ {k.code} :
             cache'[e] = cache[e] /\ (e \in excused => e \in excused')
      BY <2>11, <3>1 DEF Invalidate, InvalidateFails, RequestDies, TypeOK
    <3>4. Goes(r, Idle) /\ UNCHANGED <<table, past>>
      BY <2>11 DEF Invalidate, InvalidateFails, RequestDies
    <3> QED BY <3>1, <3>2, <3>3, <3>4, EndStep
  <2>12. CASE RequestDies(r) /\ k.at # "invalidate"
    BY <2>2, <2>12 DEF RequestDies
  <2> QED BY <1>4, <2>3, <2>4, <2>5, <2>6, <2>7, <2>8, <2>9, <2>10, <2>11, <2>12
          DEF Continue, Fail
<1> QED BY <1>1, <1>2, <1>3, <1>4 DEF Next

(* Between a commit and its DEL an entry may be stale; later only if it    *)
(* was stored from an older row, or its DEL was lost.                      *)
THEOREM StaleOnlyIfExcusedHolds == Spec => []StaleOnlyIfExcused
<1>1. Init => StaleOnlyIfExcused
  BY DEF Init, StaleOnlyIfExcused
<1>2. TypeOK /\ StaleOnlyIfExcused /\ [Next]_vars => StaleOnlyIfExcused'
  BY StaleStep
<1> QED BY <1>1, <1>2, TypeCorrect, PTL DEF Spec

(* Both together, as the runs check them.                                  *)
THEOREM InvariantHolds == Spec => []IInv
  BY TypeCorrect, StaleOnlyIfExcusedHolds, PTL DEF IInv
-----------------------------------------------------------------------------
(* The history: entries and answers stem from rows.                        *)

LEMMA StemsOverTime ==
  ASSUME NEW row \in Links \cup {Missing}, NEW entry, past \subseteq past',
         StemsFrom(entry, row)
  PROVE  StemsFrom(entry, row)'
BY ClassifyOverTime DEF StemsFrom

(* Whichever of its two forms is cached, an entry answers what its row     *)
(* answers.                                                                *)
LEMMA EntryMeansRow ==
  ASSUME NEW row \in Links \cup {Missing}, NEW entry, StemsFrom(entry, row)
  PROVE  FromCache(entry) = Means(row, past)
<1>1. CASE row = Missing
  BY <1>1 DEF StemsFrom, Classify, FromCache, Means, Missing
<1>2. CASE row \in Links /\ ~row.active
  BY <1>2 DEF StemsFrom, Classify, FromCache, Means, Links, Gone
<1>3. CASE row \in Links /\ row.active /\ row.expires \in past
  BY <1>3 DEF StemsFrom, Classify, FromCache, Means, Links, Gone
<1>4. CASE row \in Links /\ row.active /\ row.expires \notin past
  BY <1>4 DEF StemsFrom, Classify, FromCache, Means, Links, Gone
<1> QED BY <1>1, <1>2, <1>3, <1>4

LEMMA HistoryGrows ==
  ASSUME TypeOK, TypeOK', VersionsType, HNext
  PROVE  /\ VersionsType'
         /\ \A c \in Codes : /\ versions[c] \subseteq versions'[c]
                             /\ table'[c] \in versions'[c]
BY DEF TypeOK, VersionsType, HNext

LEMMA TimeGrows ==
  ASSUME Next
  PROVE  past \subseteq past'
BY DEF Next, DeadlinePasses, EntryExpires, Begin, BeginResolve, BeginDeactivate,
   BeginUpdate, BeginCreate, Continue, LookupHits, JudgeHit, LookupMisses, QueryRow,
   JudgeRow, StoreApplies, Respond, InsertCommits, InsertConflicts, DeactivateCommits,
   NothingMatches, UpdateCommits, Invalidate, Fail, StoreFails, InvalidateFails,
   RequestDies

(* An entry that stems from a row its code had still does after a step.    *)
Historic(entry, c) == \E row \in versions[c] : StemsFrom(entry, row)

LEMMA HistoricStays ==
  ASSUME TypeOK, TypeOK', VersionsType, HNext, NEW c \in Codes, NEW entry, Historic(entry, c)
  PROVE  Historic(entry, c)'
<1>1. PICK row \in versions[c] : StemsFrom(entry, row)
  BY DEF Historic
<1>2. row \in Links \cup {Missing} /\ row \in versions'[c]
  BY <1>1, HistoryGrows DEF VersionsType
<1>3. past \subseteq past'
  BY TimeGrows DEF HNext
<1> QED BY <1>1, <1>2, <1>3, StemsOverTime DEF Historic

(* What one request's locals owe to the history.                           *)
LocalsHistoric(r) ==
  /\ call[r].at = "row" => call[r].row \in versions[call[r].code]
  /\ call[r].at \in {"hit", "store"} => Historic(call[r].entry, call[r].code)

LEMMA HistoricParts ==
  EntriesAreHistoric <=>
    /\ \A c \in Codes : table[c] \in versions[c]
    /\ \A c \in Codes : cache[c] = Empty \/ Historic(cache[c], c)
    /\ \A r \in Requests : LocalsHistoric(r)
BY DEF EntriesAreHistoric, LocalsHistoric, Historic

LEMMA LocalsStay ==
  ASSUME TypeOK, TypeOK', VersionsType, HNext, NEW r \in Requests,
         LocalsHistoric(r), call'[r] = call[r]
  PROVE  LocalsHistoric(r)'
<1>1. CASE call[r].at = "row"
  <2>1. PICK c \in Codes : c = call[r].code
    BY <1>1, CallLocals DEF TypeOK
  <2> QED BY <1>1, <2>1, HistoryGrows DEF LocalsHistoric
<1>2. CASE call[r].at \in {"hit", "store"}
  <2>1. PICK c \in Codes : c = call[r].code
    BY <1>2, CallLocals DEF TypeOK
  <2>2. PICK entry : entry = call[r].entry
    OBVIOUS
  <2>3. Historic(entry, c)'
    BY <1>2, <2>1, <2>2, HistoricStays DEF LocalsHistoric
  <2> QED BY <1>2, <2>1, <2>2, <2>3 DEF LocalsHistoric
<1>3. CASE call[r].at \notin {"row", "hit", "store"}
  BY <1>3 DEF LocalsHistoric
<1> QED BY <1>1, <1>2, <1>3

(* Only a store writes an entry, and what it writes is historic.           *)
LEMMA CacheStep ==
  ASSUME TypeOK, TypeOK', VersionsType, EntriesAreHistoric, HNext, NEW c \in Codes
  PROVE  cache'[c] = Empty \/ Historic(cache[c], c)'
<1>1. CASE cache'[c] \in {cache[c], Empty}
  <2>1. PICK entry : entry = cache[c]
    OBVIOUS
  <2> QED BY <1>1, <2>1, HistoricParts, HistoricStays DEF Historic
<1>2. ASSUME NEW r \in Requests, StoreApplies(r), c = call[r].code
      PROVE  cache'[c] = Empty \/ Historic(cache[c], c)'
  <2>1. PICK entry : entry = call[r].entry
    OBVIOUS
  <2>2. Historic(entry, c)
    BY <1>2, <2>1, HistoricParts DEF StoreApplies, LocalsHistoric
  <2>3. Historic(entry, c)' /\ cache'[c] = entry
    BY <1>2, <2>1, <2>2, HistoricStays DEF StoreApplies, TypeOK
  <2> QED BY <2>3 DEF Historic
<1>3. cache'[c] \in {cache[c], Empty} \/ \E r \in Requests : StoreApplies(r) /\ c = call[r].code
  <2>1. Next
    BY DEF HNext
  <2>2. ASSUME NEW d \in Deadlines, DeadlinePasses(d) PROVE cache'[c] = cache[c]
    BY <2>2 DEF DeadlinePasses
  <2>3. ASSUME NEW e \in Codes, EntryExpires(e) PROVE cache'[c] \in {cache[c], Empty}
    BY <2>3 DEF EntryExpires, TypeOK
  <2>4. ASSUME NEW r \in Requests, Begin(r) PROVE cache'[c] = cache[c]
    BY <2>4 DEF Begin, BeginResolve, BeginDeactivate, BeginUpdate, BeginCreate
  <2>5. ASSUME NEW r \in Requests, Continue(r), ~(StoreApplies(r) /\ c = call[r].code)
        PROVE  cache'[c] \in {cache[c], Empty}
    <3>1. CASE StoreApplies(r)
      BY <2>5, <3>1 DEF StoreApplies, TypeOK
    <3>2. CASE Invalidate(r)
      BY <3>2 DEF Invalidate, TypeOK
    <3>3. CASE ~StoreApplies(r) /\ ~Invalidate(r)
      BY <2>5, <3>3 DEF Continue, LookupHits, JudgeHit, LookupMisses, QueryRow, JudgeRow,
         Respond, InsertCommits, InsertConflicts, DeactivateCommits, NothingMatches,
         UpdateCommits
    <3> QED BY <3>1, <3>2, <3>3
  <2>6. ASSUME NEW r \in Requests, Fail(r) PROVE cache'[c] = cache[c]
    BY <2>6 DEF Fail, StoreFails, InvalidateFails, RequestDies
  <2> QED BY <2>1, <2>2, <2>3, <2>4, <2>5, <2>6 DEF Next
<1> QED BY <1>1, <1>2, <1>3

(* A request's place changes only by its own step.                         *)
LEMMA OwnStep ==
  ASSUME TypeOK, Next, NEW r \in Requests, call'[r] # call[r]
  PROVE  Begin(r) \/ Continue(r) \/ Fail(r)
<1>1. ASSUME NEW q \in Requests, q # r, \E next : Goes(q, next) PROVE FALSE
  BY <1>1 DEF Goes, TypeOK
<1>2. ASSUME NEW q \in Requests, Begin(q) PROVE \E next : Goes(q, next)
  BY <1>2 DEF Begin, BeginResolve, BeginDeactivate, BeginUpdate, BeginCreate
<1>3. ASSUME NEW q \in Requests, Continue(q) PROVE \E next : Goes(q, next)
  BY <1>3 DEF Continue, LookupHits, JudgeHit, LookupMisses, QueryRow, JudgeRow,
     StoreApplies, Respond, InsertCommits, InsertConflicts, DeactivateCommits,
     NothingMatches, UpdateCommits, Invalidate
<1>4. ASSUME NEW q \in Requests, Fail(q) PROVE \E next : Goes(q, next)
  BY <1>4 DEF Fail, StoreFails, InvalidateFails, RequestDies
<1> QED BY <1>1, <1>2, <1>3, <1>4 DEF Next, DeadlinePasses, EntryExpires

LEMMA LocalsStep ==
  ASSUME TypeOK, TypeOK', VersionsType, EntriesAreHistoric, HNext, NEW r \in Requests
  PROVE  LocalsHistoric(r)'
<1>0. LocalsHistoric(r) /\ call[r] \in Calls
  BY HistoricParts DEF TypeOK
<1>1. CASE call'[r] = call[r]
  BY <1>0, <1>1, LocalsStay
<1>2. CASE call'[r].at \notin {"row", "hit", "store"}
  BY <1>2 DEF LocalsHistoric
<1>3. CASE LookupHits(r)
  <2>1. PICK c \in Codes : c = call[r].code
    BY <1>0, <1>3, CallLocals DEF LookupHits
  <2>2. PICK entry : entry = cache[c]
    OBVIOUS
  <2>3. Historic(entry, c)
    BY <1>3, <2>1, <2>2, HistoricParts DEF LookupHits, Historic
  <2>4. Historic(entry, c)'
    BY <2>3, HistoricStays
  <2>5. call'[r] = [at |-> "hit", code |-> c, entry |-> entry]
    BY <1>3, <2>1, <2>2 DEF LookupHits, Goes, TypeOK
  <2> QED BY <2>4, <2>5 DEF LocalsHistoric
<1>4. CASE QueryRow(r)
  <2>1. PICK c \in Codes : c = call[r].code
    BY <1>0, <1>4, CallLocals DEF QueryRow
  <2>2. call'[r] = [at |-> "row", code |-> c, row |-> table[c]] /\ table' = table
    BY <1>4, <2>1 DEF QueryRow, Goes, TypeOK
  <2> QED BY <2>2, HistoryGrows DEF LocalsHistoric
<1>5. CASE JudgeRow(r)
  <2>1. PICK c \in Codes, row \in Links \cup {Missing} : c = call[r].code /\ row = call[r].row
    BY <1>0, <1>5, CallLocals DEF JudgeRow
  <2>2. PICK entry : entry = Classify(row)
    OBVIOUS
  <2>3. Historic(entry, c)
    BY <1>0, <1>5, <2>1, <2>2 DEF JudgeRow, LocalsHistoric, Historic, StemsFrom
  <2>4. Historic(entry, c)'
    BY <2>3, HistoricStays
  <2>5. call'[r] = [at |-> "store", code |-> c, entry |-> entry,
                    answer |-> [code |-> c, says |-> FromCache(entry)]]
    BY <1>5, <2>1, <2>2 DEF JudgeRow, Goes, TypeOK
  <2> QED BY <2>4, <2>5 DEF LocalsHistoric
<1>6. ASSUME call'[r] # call[r] PROVE \/ LookupHits(r) \/ QueryRow(r) \/ JudgeRow(r)
                                      \/ call'[r].at \notin {"row", "hit", "store"}
  <2>1. Begin(r) \/ Continue(r) \/ Fail(r)
    BY <1>6, OwnStep DEF HNext
  <2>2. CASE Begin(r)
    BY <2>2 DEF Begin, BeginResolve, BeginDeactivate, BeginUpdate, BeginCreate, Goes, TypeOK
  <2>3. CASE \E c \in Codes : InsertConflicts(r, c)
    <3>1. call[r] = [at |-> "insert", candidates |-> call[r].candidates,
                     link |-> call[r].link, tries |-> call[r].tries]
      BY <1>0, <2>3, CallLocals DEF InsertConflicts
    <3> QED BY <2>3, <3>1 DEF InsertConflicts, Goes, TypeOK, Idle
  <2>4. CASE Continue(r) /\ ~\E c \in Codes : InsertConflicts(r, c)
    BY <2>4 DEF Continue, LookupHits, JudgeHit, LookupMisses, StoreApplies, Respond,
       InsertCommits, DeactivateCommits, NothingMatches, UpdateCommits, Invalidate,
       Goes, TypeOK, Idle
  <2>5. CASE Fail(r)
    BY <2>5 DEF Fail, StoreFails, InvalidateFails, RequestDies, Goes, TypeOK, Idle
  <2> QED BY <2>1, <2>2, <2>3, <2>4, <2>5
<1> QED BY <1>1, <1>2, <1>3, <1>4, <1>5, <1>6

LEMMA HistoricStep ==
  ASSUME TypeOK, TypeOK', VersionsType, EntriesAreHistoric, HNext
  PROVE  VersionsType' /\ EntriesAreHistoric'
<1>1. VersionsType' /\ \A c \in Codes : (table[c] \in versions[c])'
  BY HistoryGrows
<1>2. \A c \in Codes : (cache[c] = Empty \/ Historic(cache[c], c))'
  BY CacheStep
<1>3. \A r \in Requests : LocalsHistoric(r)'
  BY LocalsStep
<1>4. (EntriesAreHistoric <=>
         /\ \A c \in Codes : table[c] \in versions[c]
         /\ \A c \in Codes : cache[c] = Empty \/ Historic(cache[c], c)
         /\ \A r \in Requests : LocalsHistoric(r))'
  BY HistoricParts, PTL
<1> QED BY <1>1, <1>2, <1>3, <1>4

LEMMA HInvInductive ==
  /\ HInit => HInv
  /\ HInv /\ [HNext]_hvars => HInv'
<1>1. HInit => HInv
  BY DEF HInit, Init, HInv, TypeOK, VersionsType, EntriesAreHistoric, Calls,
     Missing, Idle
<1>2. ASSUME HInv, HNext PROVE HInv'
  BY <1>2, TypeStep, HistoricStep DEF HInv, HNext
<1>3. ASSUME HInv, UNCHANGED hvars PROVE HInv'
  BY <1>3 DEF HInv, hvars, vars, TypeOK, VersionsType, EntriesAreHistoric,
     StemsFrom, Classify
<1> QED BY <1>1, <1>2, <1>3

(* Whatever is cached, read or about to be stored for a code stems from a  *)
(* row that code has had.                                                  *)
THEOREM EntriesAreHistoricHolds == HSpec => []EntriesAreHistoric
<1>1. HSpec => []HInv
  BY HInvInductive, PTL DEF HSpec
<1> QED BY <1>1, PTL DEF HInv

-----------------------------------------------------------------------------
(* The refinement: each step of the service is a step of LinkHistory.      *)

(* A step that changes neither rows, time nor a settled answer.            *)
LEMMA SilentStep ==
  ASSUME HInv, HNext, UNCHANGED <<table, past>>,
         \A r \in Requests : AnswerOf(call'[r]) = AnswerOf(call[r])
  PROVE  UNCHANGED History!vars
<1>1. versions' = versions
  BY DEF HInv, VersionsType, EntriesAreHistoric, HNext
<1> QED BY <1>1 DEF History!vars

(* A step that changes one settled answer, and neither rows nor time.      *)
LEMMA AnswerChange ==
  ASSUME HInv, HNext, UNCHANGED <<table, past>>, NEW r \in Requests, NEW k \in Calls,
         Goes(r, k)
  PROVE  /\ UNCHANGED <<versions, past>>
         /\ [q \in Requests |-> AnswerOf(call'[q])] =
              [[q \in Requests |-> AnswerOf(call[q])] EXCEPT ![r] = AnswerOf(k)]
<1>1. versions' = versions
  BY DEF HInv, VersionsType, EntriesAreHistoric, HNext
<1>2. call'[r] = k /\ \A q \in Requests \ {r} : call'[q] = call[q]
  BY GoesType DEF HInv
<1> QED BY <1>1, <1>2

LEMMA AnswerStep ==
  ASSUME HInv, HNext, UNCHANGED <<table, past>>, NEW r \in Requests, NEW k \in Calls,
         Goes(r, k), AnswerOf(call[r]) = Idle, NEW c \in Codes, NEW entry,
         Historic(entry, c), AnswerOf(k) = [code |-> c, says |-> FromCache(entry)]
  PROVE  History!Next
<1>1. PICK row \in versions[c] : StemsFrom(entry, row)
  BY DEF Historic
<1>2. row \in Links \cup {Missing}
  BY <1>1 DEF HInv, VersionsType
<1>3. FromCache(entry) = Means(row, past)
  BY <1>1, <1>2, EntryMeansRow
<1>4. History!Answer(r, c, row)
  BY <1>1, <1>3, AnswerChange DEF History!Answer
<1> QED BY <1>2, <1>4 DEF History!Next

LEMMA ChangeStep ==
  ASSUME HInv, HNext, TypeOK', NEW r \in Requests, NEW c \in Codes, NEW row,
         table' = [table EXCEPT ![c] = row], UNCHANGED past,
         NEW k \in Calls, Goes(r, k), AnswerOf(call[r]) = AnswerOf(k)
  PROVE  History!Next
<1>1. row \in Links \cup {Missing}
  BY DEF HInv, TypeOK
<1>2. versions' = [versions EXCEPT ![c] = @ \cup {row}]
  <2>1. versions' = [e \in Codes |-> versions[e] \cup {table'[e]}]
    BY DEF HNext
  <2>2. table'[c] = row
    BY DEF HInv, TypeOK
  <2>3. ASSUME NEW e \in Codes, e # c PROVE versions[e] \cup {table'[e]} = versions[e]
    BY <2>3 DEF HInv, TypeOK, EntriesAreHistoric
  <2>4. versions = [e \in Codes |-> versions[e]]
    BY DEF HInv, VersionsType
  <2> QED BY <2>1, <2>2, <2>3, <2>4
<1>3. \A q \in Requests : AnswerOf(call'[q]) = AnswerOf(call[q])
  BY GoesType DEF HInv
<1>4. History!Change(c, row)
  BY <1>2, <1>3 DEF History!Change
<1> QED BY <1>1, <1>4 DEF History!Next

LEMMA FinishStep ==
  ASSUME HInv, HNext, UNCHANGED <<table, past>>, NEW r \in Requests, Goes(r, Idle)
  PROVE  History!Next
<1>1. Idle \in Calls /\ AnswerOf(Idle) = Idle
  BY DEF Calls, Idle, AnswerOf
<1>2. History!Finish(r)
  BY <1>1, AnswerChange DEF History!Finish
<1> QED BY <1>2 DEF History!Next

LEMMA StepRefines ==
  ASSUME HInv, HNext, HInv'
  PROVE  [History!Next]_(History!vars)
<1>0. TypeOK /\ TypeOK' /\ Next
  BY DEF HInv, HNext
<1>1. ASSUME NEW d \in Deadlines, DeadlinePasses(d) PROVE History!Next
  <2>1. versions' = versions
    BY <1>1 DEF HInv, VersionsType, EntriesAreHistoric, HNext, DeadlinePasses
  <2>2. History!DeadlinePasses(d)
    BY <1>1, <2>1 DEF DeadlinePasses, History!DeadlinePasses
  <2> QED BY <2>2 DEF History!Next
<1>2. ASSUME NEW c \in Codes, EntryExpires(c) PROVE UNCHANGED History!vars
  BY <1>2, SilentStep DEF EntryExpires
<1>3. ASSUME NEW r \in Requests, Begin(r) \/ Continue(r) \/ Fail(r)
      PROVE  [History!Next]_(History!vars)
  <2> DEFINE k == call[r]
  <2>0. k \in Calls /\ call'[r] \in Calls
    BY <1>0 DEF TypeOK
  <2>1. \A q \in Requests \ {r} : call'[q] = call[q]
    BY <1>0, <1>3 DEF Begin, BeginResolve, BeginDeactivate, BeginUpdate, BeginCreate,
       Continue, LookupHits, JudgeHit, LookupMisses, QueryRow, JudgeRow,
       StoreApplies, Respond, InsertCommits, InsertConflicts, DeactivateCommits,
       NothingMatches, UpdateCommits, Invalidate, Fail, StoreFails, InvalidateFails,
       RequestDies, Goes, TypeOK
  <2>2. CASE UNCHANGED <<table, past>> /\ AnswerOf(call'[r]) = AnswerOf(k)
    BY <2>1, <2>2, SilentStep
  <2>3. CASE Begin(r)
    <3>1. UNCHANGED <<table, past>> /\ k = Idle
      BY <2>3 DEF Begin, BeginResolve, BeginDeactivate, BeginUpdate, BeginCreate
    <3>2. call'[r].at \in {"lookup", "deactivate", "update", "insert"}
      BY <1>0, <2>3 DEF Begin, BeginResolve, BeginDeactivate, BeginUpdate, BeginCreate,
         Goes, TypeOK
    <3> QED BY <2>2, <3>1, <3>2 DEF AnswerOf, Idle
  <2>4. CASE LookupHits(r) \/ LookupMisses(r) \/ QueryRow(r)
    <3>1. UNCHANGED <<table, past>> /\ k.at \in {"lookup", "query"}
      BY <2>4 DEF LookupHits, LookupMisses, QueryRow
    <3>2. call'[r].at \in {"hit", "query", "row"}
      BY <1>0, <2>4 DEF LookupHits, LookupMisses, QueryRow, Goes, TypeOK
    <3> QED BY <2>2, <3>1, <3>2 DEF AnswerOf
  <2>5. CASE JudgeHit(r)
    <3>1. PICK c \in Codes : c = k.code
      BY <2>0, <2>5, CallLocals DEF JudgeHit
    <3>2. PICK entry : entry = k.entry
      OBVIOUS
    <3>3. Historic(entry, c)
      BY <2>5, <3>1, <3>2, HistoricParts DEF HInv, JudgeHit, LocalsHistoric
    <3>4. call'[r] = [at |-> "answer", answer |-> [code |-> c, says |-> FromCache(entry)]]
      BY <1>0, <2>5, <3>1, <3>2 DEF JudgeHit, Goes, TypeOK
    <3>5. Goes(r, call'[r]) /\ UNCHANGED <<table, past>> /\ AnswerOf(k) = Idle
      BY <2>5, <3>1, <3>2, <3>4 DEF JudgeHit, AnswerOf
    <3>6. AnswerOf(call'[r]) = [code |-> c, says |-> FromCache(entry)]
      BY <3>4 DEF AnswerOf
    <3> QED BY <2>0, <3>3, <3>5, <3>6, AnswerStep
  <2>6. CASE JudgeRow(r)
    <3>1. PICK c \in Codes, row \in Links \cup {Missing} : c = k.code /\ row = k.row
      BY <2>0, <2>6, CallLocals DEF JudgeRow
    <3>2. PICK entry : entry = Classify(row)
      OBVIOUS
    <3>3. Historic(entry, c)
      BY <2>6, <3>1, <3>2, HistoricParts DEF HInv, JudgeRow, LocalsHistoric, Historic,
         StemsFrom
    <3>4. call'[r] = [at |-> "store", code |-> c, entry |-> entry,
                      answer |-> [code |-> c, says |-> FromCache(entry)]]
      BY <1>0, <2>6, <3>1, <3>2 DEF JudgeRow, Goes, TypeOK
    <3>5. Goes(r, call'[r]) /\ UNCHANGED <<table, past>> /\ AnswerOf(k) = Idle
      BY <2>6, <3>1, <3>2, <3>4 DEF JudgeRow, AnswerOf
    <3>6. AnswerOf(call'[r]) = [code |-> c, says |-> FromCache(entry)]
      BY <3>4 DEF AnswerOf
    <3> QED BY <2>0, <3>3, <3>5, <3>6, AnswerStep
  <2>7. CASE StoreApplies(r) \/ StoreFails(r)
    <3>1. UNCHANGED <<table, past>> /\ k.at = "store"
      BY <2>7 DEF StoreApplies, StoreFails
    <3>2. call'[r] = [at |-> "answer", answer |-> k.answer]
      BY <1>0, <2>7 DEF StoreApplies, StoreFails, Goes, TypeOK
    <3> QED BY <2>2, <3>1, <3>2 DEF AnswerOf
  <2>8. CASE Respond(r) \/ RequestDies(r) \/ NothingMatches(r) \/ Invalidate(r) \/ InvalidateFails(r)
    BY <2>8, FinishStep DEF Respond, RequestDies, NothingMatches, Invalidate, InvalidateFails
  <2>9. ASSUME NEW c \in Codes, InsertConflicts(r, c) PROVE [History!Next]_(History!vars)
    <3>1. k = [at |-> "insert", candidates |-> k.candidates, link |-> k.link, tries |-> k.tries]
      BY <2>0, <2>9, CallLocals DEF InsertConflicts
    <3>2. UNCHANGED <<table, past>> /\ call'[r].at \in {"insert", "idle"}
      BY <1>0, <2>9, <3>1 DEF InsertConflicts, Goes, TypeOK, Idle
    <3>3. AnswerOf(call'[r]) = Idle /\ AnswerOf(k) = Idle
      BY <3>1, <3>2 DEF AnswerOf
    <3> QED BY <2>2, <3>2, <3>3
  <2>10. ASSUME NEW c \in Codes, NEW row, table' = [table EXCEPT ![c] = row],
                Goes(r, [at |-> "invalidate", code |-> c]), UNCHANGED past,
                k.at \in {"insert", "deactivate", "update"}
         PROVE  History!Next
    <3>1. [at |-> "invalidate", code |-> c] \in Calls
      BY DEF Calls
    <3>2. AnswerOf(k) = AnswerOf([at |-> "invalidate", code |-> c])
      BY <2>10 DEF AnswerOf
    <3> QED BY <1>0, <2>10, <3>1, <3>2, ChangeStep
  <2>11. ASSUME NEW c \in Codes, InsertCommits(r, c) PROVE History!Next
    BY <2>10, <2>11 DEF InsertCommits
  <2>12. CASE DeactivateCommits(r)
    <3>1. PICK c \in Codes : c = k.code
      BY <2>0, <2>12, CallLocals DEF DeactivateCommits
    <3> QED BY <2>10, <2>12, <3>1 DEF DeactivateCommits
  <2>13. ASSUME NEW link \in Links, UpdateCommits(r, link) PROVE History!Next
    <3>1. PICK c \in Codes : c = k.code
      BY <2>0, <2>13, CallLocals DEF UpdateCommits
    <3> QED BY <2>10, <2>13, <3>1 DEF UpdateCommits
  <2> QED BY <1>3, <2>3, <2>4, <2>5, <2>6, <2>7, <2>8, <2>9, <2>11, <2>12, <2>13
          DEF Continue, Fail
<1> QED BY <1>0, <1>1, <1>2, <1>3 DEF Next

(* The service, cache and all, implements LinkHistory: it answers about a  *)
(* code only what some row of that code means at the instant it answers.   *)
THEOREM AnswersAreHistoric == HSpec => HistorySpec
<1>1. HInit => History!Init
  BY DEF HInit, Init, History!Init, AnswerOf, Idle
<1>2. HInv /\ HInv' /\ [HNext]_hvars => [History!Next]_(History!vars)
  <2>1. ASSUME UNCHANGED hvars PROVE UNCHANGED History!vars
    BY <2>1 DEF hvars, vars, History!vars
  <2> QED BY <2>1, StepRefines
<1>3. HSpec => []HInv
  BY HInvInductive, PTL DEF HSpec
<1> QED BY <1>1, <1>2, <1>3, PTL DEF HSpec, HistorySpec, History!Spec
=============================================================================
