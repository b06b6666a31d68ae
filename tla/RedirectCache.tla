--------------------------- MODULE RedirectCache ---------------------------
(***************************************************************************)
(* The redirect path over two stores: PostgreSQL's urls table, the source  *)
(* of truth, and Redis, a cache-aside copy (services/url.service.ts,       *)
(* cache/url-cache.ts, repositories/url.repository.ts).                    *)
(*                                                                         *)
(* A request is one call of the service in one of the API instances; it is *)
(* suspended at each await, and other requests run in between.             *)
(***************************************************************************)
EXTENDS Naturals

CONSTANTS
  Codes,       (* short codes; aliases and generated codes share them      *)
  Targets,     (* original URLs                                            *)
  Deadlines,   (* instants an expiresAt may name                           *)
  Requests,    (* service calls that may be under way at once              *)
  MaxTries,    (* MAX_RETRIES of a generated code                          *)
  Updates,     (* TRUE: updateUrl is called; no route of the API does      *)
  Faults       (* TRUE: Redis commands and requests may fail               *)

ASSUME MaxTriesPositive == MaxTries \in Nat \ {0}
ASSUME UpdatesBoolean == Updates \in BOOLEAN
ASSUME FaultsBoolean == Faults \in BOOLEAN
ASSUME NeverIsNoDeadline == "never" \notin Deadlines

VARIABLES
  table,    (* per code: its row in urls                                   *)
  cache,    (* per code: the value of url:<code> in Redis                  *)
  past,     (* deadlines that have passed                                  *)
  call,     (* per request: where it is suspended, and its locals          *)
  excused   (* history: codes whose entry was stored late, or outlived a   *)
            (* lost invalidation                                           *)

vars == <<table, cache, past, call, excused>>

Links == [kind : {"url"}, url : Targets, expires : Deadlines \cup {"never"},
          active : BOOLEAN]
Missing == [kind |-> "missing"]
Gone(reason) == [kind |-> "gone", reason |-> reason]
Negatives == {Missing, Gone("deactivated"), Gone("expired")}
Empty == [kind |-> "empty"]

(* What a request answers about code: a redirect, a 410 or a 404.          *)
Answers == [code : Codes, says : [kind : {"redirect"}, url : Targets] \cup Negatives]

Idle == [at |-> "idle"]
Calls ==
  {Idle}
    \cup [at : {"lookup", "query", "deactivate", "update", "invalidate"}, code : Codes]
    \cup [at : {"hit"}, code : Codes, entry : Links \cup Negatives]
    \cup [at : {"row"}, code : Codes, row : Links \cup {Missing}]
    \cup [at : {"store"}, code : Codes, entry : Links \cup Negatives, answer : Answers]
    \cup [at : {"answer"}, answer : Answers]
    \cup [at : {"insert"}, candidates : SUBSET Codes, link : Links, tries : 1..MaxTries]

TypeOK ==
  /\ table \in [Codes -> Links \cup {Missing}]
  /\ cache \in [Codes -> Links \cup Negatives \cup {Empty}]
  /\ past \subseteq Deadlines
  /\ call \in [Requests -> Calls]
  /\ excused \subseteq Codes

Init ==
  /\ table = [c \in Codes |-> Missing]
  /\ cache = [c \in Codes |-> Empty]
  /\ past = {}
  /\ call = [r \in Requests |-> Idle]
  /\ excused = {}

-----------------------------------------------------------------------------
(* doResolve's reading of a row: what it caches.                           *)
Classify(row) ==
  CASE row.kind = "missing"   -> Missing
    [] row.kind = "url" /\ ~row.active -> Gone("deactivated")
    [] row.kind = "url" /\ row.active /\ row.expires \in past -> Gone("expired")
    [] OTHER                  -> row

(* Mutant of FromCache: a hit does not check the link's expiry again.      *)
FromCacheUnchecked(entry) ==
  IF entry.kind # "url" THEN entry ELSE [kind |-> "redirect", url |-> entry.url]

(* fromCache: a cached link is judged like a row, at the time of the hit.  *)
FromCache(entry) ==
  CASE entry.kind # "url"       -> entry
    [] entry.kind = "url" /\ ~entry.active -> Gone("deactivated")
    [] entry.kind = "url" /\ entry.active /\ entry.expires \in past -> Gone("expired")
    [] OTHER -> [kind |-> "redirect", url |-> entry.url]

(* The entry says what c's row says, now and whatever deadlines pass.      *)
Fresh(entry, c) == entry \in {table[c], Classify(table[c])}

Goes(r, next) == call' = [call EXCEPT ![r] = next]

(* Time reaches an expiresAt.                                              *)
DeadlinePasses(d) ==
  /\ d \notin past
  /\ past' = past \cup {d}
  /\ UNCHANGED <<table, cache, call, excused>>

(* Mutant of EntryExpires: links are stored without EX.                    *)
OnlyNegativesExpire(c) ==
  /\ cache[c] \in Negatives
  /\ cache' = [cache EXCEPT ![c] = Empty]
  /\ excused' = excused \ {c}
  /\ UNCHANGED <<table, past, call>>

(* The TTL of an entry ends, or Redis evicts it.                           *)
EntryExpires(c) ==
  /\ cache[c] # Empty
  /\ cache' = [cache EXCEPT ![c] = Empty]
  /\ excused' = excused \ {c}
  /\ UNCHANGED <<table, past, call>>

-----------------------------------------------------------------------------
(* resolveUrl.  What Redis or the table returned is judged when its reply  *)
(* reaches the service, by the clock of that moment.                       *)
BeginResolve(r, c) ==
  /\ call[r] = Idle
  /\ Goes(r, [at |-> "lookup", code |-> c])
  /\ UNCHANGED <<table, cache, past, excused>>

LookupHits(r) ==
  /\ call[r].at = "lookup"
  /\ LET c == call[r].code IN
       /\ cache[c] # Empty
       /\ Goes(r, [at |-> "hit", code |-> c, entry |-> cache[c]])
  /\ UNCHANGED <<table, cache, past, excused>>

JudgeHit(r) ==
  /\ call[r].at = "hit"
  /\ Goes(r, [at |-> "answer",
              answer |-> [code |-> call[r].code, says |-> FromCache(call[r].entry)]])
  /\ UNCHANGED <<table, cache, past, excused>>

(* A miss, or an error, which lookup reports as a miss.                    *)
LookupMisses(r) ==
  /\ call[r].at = "lookup"
  /\ cache[call[r].code] = Empty \/ Faults
  /\ Goes(r, [at |-> "query", code |-> call[r].code])
  /\ UNCHANGED <<table, cache, past, excused>>

(* findByShortCode.                                                        *)
QueryRow(r) ==
  /\ call[r].at = "query"
  /\ LET c == call[r].code IN
       Goes(r, [at |-> "row", code |-> c, row |-> table[c]])
  /\ UNCHANGED <<table, cache, past, excused>>

(* The answer is decided before the store, whose outcome cannot change it. *)
JudgeRow(r) ==
  /\ call[r].at = "row"
  /\ LET c == call[r].code
         entry == Classify(call[r].row) IN
       Goes(r, [at |-> "store", code |-> c, entry |-> entry,
                answer |-> [code |-> c, says |-> FromCache(entry)]])
  /\ UNCHANGED <<table, cache, past, excused>>

(* Mutant of StoreApplies: the key of an entry leaves out its code.        *)
StoreUnderOneKey(r) ==
  /\ call[r].at = "store"
  /\ cache' = [c \in Codes |-> call[r].entry]
  /\ excused' = {c \in Codes : ~Fresh(call[r].entry, c)}
  /\ Goes(r, [at |-> "answer", answer |-> call[r].answer])
  /\ UNCHANGED <<table, past>>

StoreApplies(r) ==
  /\ call[r].at = "store"
  /\ LET c == call[r].code IN
       /\ cache' = [cache EXCEPT ![c] = call[r].entry]
       /\ excused' = IF Fresh(call[r].entry, c) THEN excused \ {c}
                                              ELSE excused \cup {c}
  /\ Goes(r, [at |-> "answer", answer |-> call[r].answer])
  /\ UNCHANGED <<table, past>>

StoreFails(r) ==
  /\ call[r].at = "store"
  /\ Faults
  /\ Goes(r, [at |-> "answer", answer |-> call[r].answer])
  /\ UNCHANGED <<table, cache, past, excused>>

(* The 302, 404 or 410 goes out; on a 302 the click is emitted.            *)
Respond(r) ==
  /\ call[r].at = "answer"
  /\ Goes(r, Idle)
  /\ UNCHANGED <<table, cache, past, excused>>

-----------------------------------------------------------------------------
(* createShortUrl and createGuestUrl: an alias is tried once, a generated  *)
(* code is drawn again after a conflict.                                   *)
BeginCreate(r, candidates, tries, link) ==
  /\ call[r] = Idle
  /\ link.active /\ link.expires \notin past
  /\ Goes(r, [at |-> "insert", candidates |-> candidates, link |-> link,
              tries |-> tries])
  /\ UNCHANGED <<table, cache, past, excused>>

InsertCommits(r, c) ==
  /\ call[r].at = "insert" /\ c \in call[r].candidates
  /\ table[c] = Missing
  /\ table' = [table EXCEPT ![c] = call[r].link]
  /\ Goes(r, [at |-> "invalidate", code |-> c])
  /\ UNCHANGED <<cache, past, excused>>

(* A unique violation: 409 for an alias, another try or the final error    *)
(* for a generated code.                                                   *)
InsertConflicts(r, c) ==
  /\ call[r].at = "insert" /\ c \in call[r].candidates
  /\ table[c] # Missing
  /\ \/ /\ call[r].tries = 1
        /\ Goes(r, Idle)
     \/ /\ call[r].tries > 1
        /\ Goes(r, [call[r] EXCEPT !.tries = @ - 1])
  /\ UNCHANGED <<table, cache, past, excused>>

-----------------------------------------------------------------------------
(* deactivateUrl and updateUrl.                                            *)
BeginDeactivate(r, c) ==
  /\ call[r] = Idle
  /\ Goes(r, [at |-> "deactivate", code |-> c])
  /\ UNCHANGED <<table, cache, past, excused>>

(* Mutant of DeactivateCommits: the caller is left to invalidate.          *)
DeactivateWithoutInvalidate(r) ==
  /\ call[r].at = "deactivate"
  /\ table[call[r].code] # Missing
  /\ table' = [table EXCEPT ![call[r].code].active = FALSE]
  /\ Goes(r, Idle)
  /\ UNCHANGED <<cache, past, excused>>

DeactivateCommits(r) ==
  /\ call[r].at = "deactivate"
  /\ table[call[r].code] # Missing
  /\ table' = [table EXCEPT ![call[r].code].active = FALSE]
  /\ Goes(r, [at |-> "invalidate", code |-> call[r].code])
  /\ UNCHANGED <<cache, past, excused>>

BeginUpdate(r, c) ==
  /\ Updates
  /\ call[r] = Idle
  /\ Goes(r, [at |-> "update", code |-> c])
  /\ UNCHANGED <<table, cache, past, excused>>

(* A patch of any of the link's fields.                                    *)
UpdateCommits(r, link) ==
  /\ call[r].at = "update"
  /\ table[call[r].code] # Missing
  /\ table' = [table EXCEPT ![call[r].code] = link]
  /\ Goes(r, [at |-> "invalidate", code |-> call[r].code])
  /\ UNCHANGED <<cache, past, excused>>

(* The code is unknown, or another user's: nothing changes, 404.           *)
NothingMatches(r) ==
  /\ call[r].at \in {"deactivate", "update"}
  /\ Goes(r, Idle)
  /\ UNCHANGED <<table, cache, past, excused>>

(* Every mutation ends with the DEL of its key.                            *)
Invalidate(r) ==
  /\ call[r].at = "invalidate"
  /\ cache' = [cache EXCEPT ![call[r].code] = Empty]
  /\ excused' = excused \ {call[r].code}
  /\ Goes(r, Idle)
  /\ UNCHANGED <<table, past>>

(* The DEL fails, which invalidate hides from its caller.                  *)
InvalidateFails(r) ==
  /\ call[r].at = "invalidate"
  /\ Faults
  /\ Goes(r, Idle)
  /\ excused' = excused \cup {call[r].code}
  /\ UNCHANGED <<table, cache, past>>

(* The request ends early: its process dies or the database reports an     *)
(* error.  After the commit of a mutation its invalidation is lost.        *)
RequestDies(r) ==
  /\ call[r] # Idle
  /\ Faults
  /\ Goes(r, Idle)
  /\ excused' = IF call[r].at = "invalidate" THEN excused \cup {call[r].code}
                                             ELSE excused
  /\ UNCHANGED <<table, cache, past>>

-----------------------------------------------------------------------------
Begin(r) ==
  \/ \E c \in Codes : BeginResolve(r, c) \/ BeginDeactivate(r, c) \/ BeginUpdate(r, c)
  \/ \E link \in Links :
       \/ \E c \in Codes : BeginCreate(r, {c}, 1, link)
       \/ BeginCreate(r, Codes, MaxTries, link)

Continue(r) ==
  \/ LookupHits(r) \/ JudgeHit(r) \/ LookupMisses(r) \/ QueryRow(r) \/ JudgeRow(r)
  \/ StoreApplies(r) \/ Respond(r)
  \/ \E c \in Codes : InsertCommits(r, c) \/ InsertConflicts(r, c)
  \/ DeactivateCommits(r) \/ NothingMatches(r)
  \/ \E link \in Links : UpdateCommits(r, link)
  \/ Invalidate(r)

Fail(r) == StoreFails(r) \/ InvalidateFails(r) \/ RequestDies(r)

Next ==
  \/ \E d \in Deadlines : DeadlinePasses(d)
  \/ \E c \in Codes : EntryExpires(c)
  \/ \E r \in Requests : Begin(r) \/ Continue(r) \/ Fail(r)

Spec == Init /\ [][Next]_vars

(* Requests run to their end and entries have a TTL.  Nobody promises that *)
(* a request arrives, that a deadline passes or that anything fails.       *)
Fairness ==
  /\ \A r \in Requests : WF_vars(Continue(r))
  /\ \A c \in Codes : WF_vars(EntryExpires(c))

FairSpec == Spec /\ Fairness
-----------------------------------------------------------------------------
Invalidating(c) == \E r \in Requests : call[r] = [at |-> "invalidate", code |-> c]

(* Service-owned invalidation (milestone 5): between a mutation's commit   *)
(* and its DEL an entry may be stale; afterwards only if it was stored by  *)
(* a resolve that read the row before, or if the DEL was lost.             *)
StaleOnlyIfExcused ==
  \A c \in Codes :
    cache[c] = Empty \/ Fresh(cache[c], c) \/ Invalidating(c) \/ c \in excused

(* The types, and an excuse for every stale entry.                       *)
IInv == TypeOK /\ StaleOnlyIfExcused

(* "Stale cache entries expire via TTL" (system-design 34): once a row no  *)
(* longer changes, Redis comes to agree with it for good; hits do not keep *)
(* an entry alive.                                                         *)
EventuallyFresh ==
  <>[][table' = table]_vars => \A c \in Codes : <>[](cache[c] = Empty \/ Fresh(cache[c], c))
=============================================================================
