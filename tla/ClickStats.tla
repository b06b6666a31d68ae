----------------------------- MODULE ClickStats -----------------------------
(* The statistics pages and the retention purge, over the click_events     *)
(* table.  A page's figures, of one link or of all of an account's, come   *)
(* from several queries, each served at a moment of its own while the      *)
(* worker inserts batches, links join the account and the hourly purge of  *)
(* every API instance deletes what is too old.  Time is in UTC days, the   *)
(* first of them a Sunday and the first of a month.  Names start with      *)
(* Stats where Startup, proved about in the same module, has its own.      *)
EXTENDS Integers, FiniteSets, Functions

CONSTANTS
  Clicks,
  Anonymous,   \* the clicks whose user agent tells no browser
  Links,
  LinkOf,      \* [Clicks -> Links]: the link clicked
  Account,     \* what a page is of that is not of one link
  Instances,   \* API processes, each with its purge timer
  Retention,   \* RAW_CLICK_RETENTION_DAYS
  Month,       \* days in a month
  Horizon      \* bound on the clock

ASSUME ClicksAssumption == IsFiniteSet(Clicks) /\ Anonymous \subseteq Clicks
ASSUME LinksAssumption == LinkOf \in [Clicks -> Links] /\ Account \notin Links
ASSUME DaysAssumption == Month \in Nat \ {0} /\ Horizon \in Nat
(* What makes the purge invisible to the cards: it spares all they count.  *)
ASSUME RetentionAssumption == Retention \in Nat /\ Retention >= Month /\ Retention > 7

VARIABLES
  now,
  clicked,    \* the day of each click, or NotYet
  stored,     \* the rows of click_events
  inserted,   \* history: the rows there have ever been
  owned,      \* the links whose row in urls names the account
  purge,      \* per instance: the table its purge turns to
  page        \* the open page: its queries' answers, and whether a day
              \* has ended since it asked

statsVars == <<now, clicked, stored, inserted, owned, purge, page>>

NotYet == -1

(* A page sends more queries than these at once; what matters is how the   *)
(* total goes with each other figure, the breakdowns being all alike.      *)
Kinds == {"days", "browsers", "today"}
Queries(kind) == {"total", kind}

(* Clicks by day are shown of a link, clicks of today of the account.      *)
ShownOf(kind) ==
  CASE kind = "days" -> Links [] kind = "today" -> {Account} [] OTHER -> Links \cup {Account}

(* An answer is a figure of the rows the query saw; `ever` is history.     *)
Waiting == [served |-> FALSE, rows |-> {}, ever |-> {}]
Closed == [kind |-> "none"]
Opened(kind, of) ==
  [kind |-> kind, of |-> of, late |-> FALSE, answers |-> [q \in Queries(kind) |-> Waiting]]
Loaded ==
  page # Closed /\ \A q \in Queries(page.kind) : page.answers[q].served
Loading == page # Closed /\ ~Loaded

Answers == [served : BOOLEAN, rows : SUBSET Clicks, ever : SUBSET Clicks]
StatsTypeOK ==
  /\ now \in 0..Horizon
  /\ clicked \in [Clicks -> 0..now \cup {NotYet}]
  /\ stored \subseteq inserted /\ inserted \subseteq Clicks
  /\ \A c \in inserted : clicked[c] # NotYet
  /\ owned \subseteq Links
  /\ purge \in [Instances -> {"idle", "outbox", "clicks", "sessions"}]
  /\ \/ page = Closed
     \/ \E kind \in Kinds :
          page \in [kind : {kind}, of : ShownOf(kind), late : BOOLEAN,
                    answers : [Queries(kind) -> Answers]]

StatsInit ==
  /\ now = 0
  /\ clicked = [c \in Clicks |-> NotYet]
  /\ stored = {} /\ inserted = {} /\ owned = {}
  /\ purge = [i \in Instances |-> "idle"]
  /\ page = Closed
-----------------------------------------------------------------------------
(* A day may end while a page loads, but not two: a query is given up      *)
(* after seconds (db.ts:18-19).                                            *)
DayPasses ==
  /\ now < Horizon
  /\ Loading => ~page.late
  /\ now' = now + 1
  /\ page' = IF Loading THEN [page EXCEPT !.late = TRUE] ELSE page
  /\ UNCHANGED <<clicked, stored, inserted, owned, purge>>

Click(c) ==
  /\ clicked[c] = NotYet
  /\ clicked' = [clicked EXCEPT ![c] = now]
  /\ UNCHANGED <<now, stored, inserted, owned, purge, page>>

(* recordClickBatch, however late: a backlog or a replayed dead letter may *)
(* bring a click that is past its retention, or that was purged before.    *)
InsertBatch(B) ==
  /\ \A c \in B : clicked[c] # NotYet
  /\ B \ stored # {}
  /\ stored' = stored \cup B
  /\ inserted' = inserted \cup B
  /\ UNCHANGED <<now, clicked, owned, purge, page>>

(* The account creates a link, or a claim of a guest's links commits.      *)
LinksJoin(L) ==
  /\ L \ owned # {}
  /\ owned' = owned \cup L
  /\ UNCHANGED <<now, clicked, stored, inserted, purge, page>>
-----------------------------------------------------------------------------
Stale(c) == c \in stored /\ now - clicked[c] >= Retention

PurgeTurnsTo(i, t) == purge' = [purge EXCEPT ![i] = t]
Following(t) ==
  CASE t = "outbox" -> "clicks" [] t = "clicks" -> "sessions" [] OTHER -> "idle"

(* The process has started, or its interval has elapsed.                   *)
PurgeStarts(i) ==
  /\ purge[i] = "idle"
  /\ PurgeTurnsTo(i, "outbox")
  /\ UNCHANGED <<now, clicked, stored, inserted, owned, page>>

(* Mutant of StaleRows: the click purge is given the outbox's seven days.  *)
WeekOld == {c \in stored : now - clicked[c] >= 7}

(* The rows purgeClicksOlderThan deletes.                                  *)
StaleRows == {c \in stored : Stale(c)}

ClicksPurged(i) ==
  /\ purge[i] = "clicks"
  /\ stored' = stored \ StaleRows
  /\ PurgeTurnsTo(i, Following("clicks"))
  /\ UNCHANGED <<now, clicked, inserted, owned, page>>

(* purgePublished and purgeExpiredSessions: what becomes of their rows is  *)
(* in OutboxRelay and AccountSessions.                                     *)
OtherTablePurged(i) ==
  /\ purge[i] \in {"outbox", "sessions"}
  /\ PurgeTurnsTo(i, Following(purge[i]))
  /\ UNCHANGED <<now, clicked, stored, inserted, owned, page>>

(* Mutant of PurgeFails: one try block around the three DELETEs.           *)
PurgeAborts(i) ==
  /\ purge[i] # "idle"
  /\ PurgeTurnsTo(i, "idle")
  /\ UNCHANGED <<now, clicked, stored, inserted, owned, page>>

(* A DELETE throws; its catch logs, and the next one has its turn.         *)
PurgeFails(i) ==
  /\ purge[i] # "idle"
  /\ PurgeTurnsTo(i, Following(purge[i]))
  /\ UNCHANGED <<now, clicked, stored, inserted, owned, page>>
-----------------------------------------------------------------------------
(* A page opens, or asks again: Promise.all sends its queries at once.  A  *)
(* page of a link is its owner's.                                          *)
Ask ==
  /\ \E kind \in Kinds : \E of \in ShownOf(kind) :
       (of # Account => of \in owned) /\ page' = Opened(kind, of)
  /\ UNCHANGED <<now, clicked, stored, inserted, owned, purge>>

(* The clicks a query is about: those of the link, or of the links that the*)
(* account has at the moment it is served (countForUser's join).           *)
Covered == {c \in Clicks : IF page.of = Account THEN LinkOf[c] \in owned ELSE LinkOf[c] = page.of}

(* The rows a query's WHERE lets through: countForUser's `since` was       *)
(* computed when the request arrived, maybe yesterday.                     *)
StartOfToday == IF page.late THEN now - 1 ELSE now
Matching(q) ==
  {c \in stored \cap Covered : q = "today" => clicked[c] >= StartOfToday}

Answer(q) ==
  /\ ~page.answers[q].served
  /\ page' = [page EXCEPT !.answers[q] =
                [served |-> TRUE, rows |-> Matching(q), ever |-> inserted \cap Covered]]
  /\ UNCHANGED <<now, clicked, stored, inserted, owned, purge>>

StatsNext ==
  \/ DayPasses
  \/ \E c \in Clicks : Click(c)
  \/ \E B \in SUBSET Clicks : InsertBatch(B)
  \/ \E L \in SUBSET Links : LinksJoin(L)
  \/ \E i \in Instances :
       \/ PurgeStarts(i) \/ PurgeFails(i)
       \/ ClicksPurged(i) \/ OtherTablePurged(i)
  \/ Ask
  \/ page # Closed /\ \E q \in Queries(page.kind) : Answer(q)

StatsSpec == StatsInit /\ [][StatsNext]_statsVars

(* Every instance goes on with its purges.  A DELETE of clicks does not    *)
(* fail for ever; that of outbox rows may.                                 *)
FairStatsSpec ==
  /\ StatsSpec
  /\ \A i \in Instances :
       /\ WF_statsVars(PurgeStarts(i) \/ PurgeFails(i))
       /\ SF_statsVars(ClicksPurged(i))
-----------------------------------------------------------------------------
(* What the pages make of the answers.                                     *)

(* GROUP BY: the distinct keys and their counts.                           *)
GroupBy(S, key) ==
  [k \in {key[c] : c \in S} |-> Cardinality({c \in S : key[c] = k})]

Day == clicked
Browser == [c \in Clicks |-> IF c \in Anonymous THEN "unknown" ELSE "known"]

ClicksByDay == GroupBy(page.answers["days"].rows, Day)
Browsers == GroupBy(page.answers["browsers"].rows, Browser)
ClicksToday == Cardinality(page.answers["today"].rows)
TotalClicks == Cardinality(page.answers["total"].rows)

Total(groups) == FoldFunction(+, 0, groups)
Since(day) ==
  FoldFunctionOnSet(+, 0, ClicksByDay, {d \in DOMAIN ClicksByDay : d >= day})

(* The days since Monday.                                                   *)
MondayOffset(weekday) == IF weekday = 0 THEN 6 ELSE weekday - 1

(* AnalyticsSummary's cards, rendered now from answers that may be old.    *)
TodayCard == IF now \in DOMAIN ClicksByDay THEN ClicksByDay[now] ELSE 0
ThisWeekCard == Since(now - MondayOffset(now % 7))
Last7DaysCard == Since(now - 7)
ThisMonthCard == Since(now - (now % Month))

(* The link's clicks ever stored when its days were read, of a set of days.*)
On(days) ==
  Cardinality({c \in page.answers["days"].ever : clicked[c] \in days})
-----------------------------------------------------------------------------
(* The purge is invisible to the cards, for its retention exceeds their    *)
(* windows: each counts every click of the link stored in its calendar     *)
(* window, however late the page is rendered.  "Last 7 days" is today and  *)
(* the seven dates before it.                                              *)
CardsComplete ==
  Loaded /\ page.kind = "days" =>
    /\ TodayCard = On({now})
    /\ ThisWeekCard = On({d \in 0..now : (d + 6) \div 7 = (now + 6) \div 7})
    /\ Last7DaysCard = On({d \in 0..now : now - d <= 7})
    /\ ThisMonthCard = On({d \in 0..now : d \div Month = now \div Month})

(* No figure exceeds the total it is part of, unless a batch was inserted, *)
(* or a link joined the account, after the total was counted.  A purge     *)
(* between the queries does not matter to the figures of days; breakdowns  *)
(* read before it exceed the total by purged clicks and no others.         *)
TotalsCover ==
  Loaded /\ page.answers[page.kind].ever \subseteq page.answers["total"].ever =>
    CASE page.kind = "days" -> ThisMonthCard <= TotalClicks /\ Last7DaysCard <= TotalClicks
      [] page.kind = "today" -> ClicksToday <= TotalClicks
      [] page.kind = "browsers" ->
           Total(Browsers) <= TotalClicks
             + Cardinality({c \in page.answers["browsers"].rows : now - clicked[c] >= Retention})

(* Only the purge takes rows away, and a late batch may bring them back.   *)
GoneAreStale == \A c \in inserted \ stored : now - clicked[c] >= Retention

(* So an answer leaves out only clicks past their retention; the one for   *)
(* today leaves out the others by design.                                  *)
AnswersComplete ==
  page # Closed =>
    \A q \in Queries(page.kind) :
      LET a == page.answers[q] IN
      a.served =>
        /\ a.rows \subseteq a.ever /\ a.ever \subseteq inserted \cap Covered
        /\ q # "today" => \A c \in a.ever \ a.rows : now - clicked[c] >= Retention

(* Today's clicks are of the page's day, at most one day old while it      *)
(* loads: none of them was gone when the total was counted.                *)
TodayCounted ==
  page # Closed /\ page.kind = "today" /\ page.answers["today"].served =>
    LET today == page.answers["today"].rows
        total == page.answers["total"]
    IN  /\ Loading => \A c \in today : clicked[c] >= StartOfToday
        /\ Loaded => today \cap (total.ever \ total.rows) = {}

(* What the figures rest on.                                               *)
StatsIInv == StatsTypeOK /\ GoneAreStale /\ AnswersComplete /\ TodayCounted

(* What the statistics pages show is right, and why.                       *)
FiguresRight == StatsIInv /\ CardsComplete /\ TotalsCover

(* Each of the three DELETEs has its own try block: an outbox purge that   *)
(* always fails does not keep old clicks in place.                         *)
PurgedAnyway == \A c \in Clicks : Stale(c) ~> ~Stale(c)
=============================================================================
