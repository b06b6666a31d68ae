------------------------- MODULE EventStreamsProofs -------------------------
(***************************************************************************)
(* Proofs about the live analytics, for any sets of codes, browsers and    *)
(* streams and any bounds: the registry of streams stays consistent, and   *)
(* announced clicks reach the dashboards.                                  *)
(***************************************************************************)
EXTENDS EventStreams, TLAPS

Requested == {Free} \cup [at : {"checking", "streaming"}, code : Codes]
Hooks == {Off, Retry} \cup [at : {"stream"}, id : Streams]
Queries == {Idle, Asked} \cup [at : {"answered"}, n : Counts]

LEMMA CountsAreNaturals == Counts \subseteq Nat /\ 0 \in Counts /\ NoData \notin Counts
BY MaxClicksNatural DEF Counts, NoData

LEMMA Numbers ==
  ASSUME TypeOK
  PROVE  /\ \A b \in Browsers : \A c \in Codes : cache[b][c] \in Int
         /\ \A c \in Codes : clicks[c] \in Nat /\ news[c] \in Nat /\ fetching[c] \in Nat
         /\ \A b \in Browsers : query[b].at = "answered" => query[b].n \in Nat
         /\ \A s \in Streams : due[s] \in Nat
<1>1. Counts \cup {NoData} \subseteq Int
  BY CountsAreNaturals DEF NoData
<1>2. \A b \in Browsers : \A c \in Codes : cache[b][c] \in Int
  BY <1>1 DEF TypeOK
<1>3. \A b \in Browsers : query[b].at = "answered" => query[b].n \in Counts
  BY DEF TypeOK, Idle, Asked
<1>4. /\ \A c \in Codes : clicks[c] \in Counts /\ news[c] \in Counts /\ fetching[c] \in Counts
      /\ \A s \in Streams : due[s] \in Counts
  BY DEF TypeOK
<1> QED BY <1>2, <1>3, <1>4, CountsAreNaturals

(* What is taken out of the registry leaves its types alone.               *)
LEMMA RemoveType ==
  ASSUME TypeOK, NEW S \in SUBSET Streams, Remove(S)
  PROVE  /\ conns' \subseteq Streams
         /\ subs' \in [Codes -> SUBSET Streams]
         /\ fetching' \in [Codes -> Counts]
         /\ due' \in [Streams -> Counts]
BY CountsAreNaturals DEF TypeOK, Remove

LEMMA SocketClosesType ==
  ASSUME TypeOK, NEW s \in Streams, SocketCloses(s)
  PROVE  /\ conns' \subseteq Streams /\ up' \subseteq Streams
         /\ subs' \in [Codes -> SUBSET Streams]
         /\ fetching' \in [Codes -> Counts]
         /\ due' \in [Streams -> Counts]
         /\ request' \in [Streams -> Requested]
         /\ frames' \in [Streams -> SUBSET {"connected", "analytics"}]
<1>1. CASE request[s].at = "streaming"
  <2>1. Remove({s}) /\ request' = [request EXCEPT ![s] = Free]
    BY <1>1 DEF SocketCloses
  <2> QED BY <2>1, RemoveType DEF SocketCloses, TypeOK, Requested
<1>2. CASE request[s].at # "streaming"
  BY <1>2 DEF SocketCloses, TypeOK, Requested
<1> QED BY <1>1, <1>2

LEMMA ForgivenType ==
  ASSUME TypeOK, NEW b \in Browsers
  PROVE  Forgiven(b) \in [Streams -> Counts]
BY CountsAreNaturals DEF TypeOK, Forgiven

LEMMA InvalidateType ==
  ASSUME TypeOK, NEW b \in Browsers, Invalidate(b) \/ UNCHANGED <<query, due>>
  PROVE  query' \in [Browsers -> Queries] /\ due' \in [Streams -> Counts]
<1>1. query \in [Browsers -> Queries] /\ due \in [Streams -> Counts] /\ Asked \in Queries
  BY DEF TypeOK, Queries
<1>2. CASE cache[b][page[b]] = NoData /\ query[b] # Idle /\ Invalidate(b)
  BY <1>1, <1>2, ForgivenType DEF Invalidate
<1>3. CASE ~(cache[b][page[b]] = NoData /\ query[b] # Idle) /\ Invalidate(b)
  <2>1. query' = [query EXCEPT ![b] = Asked] /\ due' = due
    BY <1>3 DEF Invalidate
  <2> QED BY <1>1, <2>1
<1>4. CASE UNCHANGED <<query, due>>
  BY <1>1, <1>4
<1> QED BY <1>2, <1>3, <1>4

-----------------------------------------------------------------------------
LEMMA BrowserTypes ==
  ASSUME IInv, NEW b \in Browsers,
         User(b) \/ Reconnects(b) \/ FrameArrives(b) \/ QueryStep(b)
           \/ \E c \in Codes : CacheExpires(b, c)
  PROVE  TypeOK'
<1> USE CountsAreNaturals
<1>0. TypeOK BY DEF IInv
<1>1. ASSUME NEW c \in Codes, OpenPage(b, c) PROVE TypeOK'
  BY <1>0, <1>1 DEF TypeOK, OpenPage, clickVars, streamVars, processVars
<1>2. CASE ClosePage(b)
  <2>1. /\ page' \in [Browsers -> Codes \cup {"none"}]
        /\ hook' \in [Browsers -> Hooks] /\ query' \in [Browsers -> Queries]
        /\ UNCHANGED <<clickVars, processVars, cache, failures>>
    BY <1>0, <1>2 DEF TypeOK, ClosePage, Hooks, Queries
  <2>2. ASSUME NEW s \in Streams, SocketCloses(s) PROVE TypeOK'
    BY <1>0, <2>1, <2>2, SocketClosesType DEF TypeOK, clickVars, processVars, Hooks, Queries, Requested
  <2>3. ASSUME UNCHANGED <<fetching, streamVars, due>> PROVE TypeOK'
    BY <1>0, <2>1, <2>3 DEF TypeOK, clickVars, processVars, streamVars, Hooks, Queries
  <2> QED BY <1>0, <1>2, <2>2, <2>3 DEF ClosePage, TypeOK
<1>3. CASE Refresh(b)
  BY <1>0, <1>3 DEF TypeOK, Refresh, clickVars, streamVars, processVars
<1>4. ASSUME NEW s \in Streams, Connect(b, s) PROVE TypeOK'
  <2>1. page[b] \in Codes
    BY <1>0, <1>4 DEF IInv, OneReader, TypeOK, Connect, Off, Retry
  <2> QED BY <1>0, <1>4, <2>1 DEF TypeOK, Connect, clickVars, processVars
<1>5. CASE StreamLost(b)
  BY <1>0, <1>5 DEF TypeOK, StreamLost, clickVars, streamVars, processVars
<1>6. CASE FrameArrives(b)
  <2>1. PICK s \in up : \E event \in frames[s] :
          /\ frames' = [frames EXCEPT ![s] = @ \ {event}]
          /\ IF event = "analytics" THEN Invalidate(b) ELSE UNCHANGED <<query, due>>
    BY <1>6 DEF FrameArrives
  <2>2. query' \in [Browsers -> Queries] /\ due' \in [Streams -> Counts]
    BY <1>0, <2>1, InvalidateType
  <2>3. frames' \in [Streams -> SUBSET {"connected", "analytics"}]
    BY <1>0, <2>1 DEF TypeOK
  <2>4. UNCHANGED <<clickVars, fetching, conns, subs, request, up, processVars, page, hook, cache, failures>>
    BY <1>6 DEF FrameArrives
  <2> QED BY <1>0, <2>2, <2>3, <2>4 DEF TypeOK, clickVars, processVars, Queries
<1>7. CASE QueryServed(b)
  <2>1. page[b] \in Codes
    BY <1>0, <1>7 DEF IInv, OneReader, TypeOK, QueryServed, Asked, Idle
  <2>2. query' \in [Browsers -> Queries]
    BY <1>0, <1>7, <2>1 DEF TypeOK, QueryServed, Queries
  <2> QED BY <1>0, <1>7, <2>2 DEF TypeOK, QueryServed, clickVars, streamVars, processVars, Queries
<1>8. CASE QueryArrives(b)
  <2>1. page[b] \in Codes /\ query[b].n \in Counts
    BY <1>0, <1>8 DEF IInv, OneReader, TypeOK, QueryArrives, Asked, Idle
  <2>2. cache' \in [Browsers -> [Codes -> Counts \cup {NoData}]]
    BY <1>0, <1>8, <2>1 DEF TypeOK, QueryArrives
  <2> QED BY <1>0, <1>8, <2>2 DEF TypeOK, QueryArrives, clickVars, streamVars, processVars
<1>9. CASE QueryFails(b)
  <2>1. failures' \in 0..MaxFailures
    BY <1>0, <1>9, MaxFailuresNatural DEF TypeOK, QueryFails, Fails
  <2>2. due' \in [Streams -> Counts]
    BY <1>0, <1>9, ForgivenType DEF QueryFails
  <2> QED BY <1>0, <1>9, <2>1, <2>2 DEF TypeOK, QueryFails, clickVars, streamVars, processVars
<1>10. ASSUME NEW c \in Codes, CacheExpires(b, c) PROVE TypeOK'
  <2>1. cache' \in [Browsers -> [Codes -> Counts \cup {NoData}]]
    BY <1>0, <1>10 DEF TypeOK, CacheExpires
  <2> QED BY <1>0, <1>10, <2>1 DEF TypeOK, CacheExpires, clickVars, streamVars, processVars
<1> QED BY <1>1, <1>2, <1>3, <1>4, <1>5, <1>6, <1>7, <1>8, <1>9, <1>10
        DEF User, Reconnects, QueryStep

(* A handler under way stems from a stored click, so it may be counted.    *)
LEMMA RoomForFetch ==
  ASSUME IInv, NEW c \in Codes, news[c] > 0
  PROVE  news[c] - 1 \in Counts /\ fetching[c] + 1 \in Counts
<1>1. /\ news[c] \in Counts /\ fetching[c] \in Counts /\ clicks[c] \in Counts
      /\ news[c] + fetching[c] <= clicks[c]
  BY DEF IInv, TypeOK, NewsIsStored
<1> QED BY <1>1, MaxClicksNatural DEF Counts

LEMMA StreamTypes ==
  ASSUME IInv, NEW s \in Streams, Answer(s) \/ StreamBreaks(s) \/ WriteThrows(s)
  PROVE  TypeOK'
<1>0. TypeOK BY DEF IInv
<1>1. CASE Accept(s)
  <2>1. request[s].code \in Codes /\ request' \in [Streams -> Requested]
    BY <1>0, <1>1 DEF Accept, TypeOK, Requested, Free
  <2>2. /\ subs' \in [Codes -> SUBSET Streams]
        /\ frames' \in [Streams -> SUBSET {"connected", "analytics"}]
    BY <1>0, <1>1, <2>1 DEF Accept, TypeOK
  <2> QED BY <1>0, <1>1, <2>1, <2>2 DEF TypeOK, Accept, clickVars, processVars, browserVars, Requested
<1>2. CASE TurnAway(s)
  <2>1. failures' \in 0..MaxFailures
    BY <1>0, <1>2, MaxFailuresNatural DEF TypeOK, TurnAway, Fails
  <2> QED BY <1>0, <1>2, <2>1 DEF TypeOK, TurnAway, clickVars, processVars, browserVars
<1>3. CASE StreamBreaks(s)
  <2>1. failures' \in 0..MaxFailures /\ SocketCloses(s)
    BY <1>0, <1>3, MaxFailuresNatural DEF TypeOK, StreamBreaks, Fails
  <2> QED BY <1>0, <1>3, <2>1, SocketClosesType
          DEF TypeOK, StreamBreaks, clickVars, processVars, browserVars, Requested
<1>4. CASE WriteThrows(s)
  <2>1. failures' \in 0..MaxFailures /\ Remove({s})
    BY <1>0, <1>4, MaxFailuresNatural DEF TypeOK, WriteThrows, Fails
  <2> QED BY <1>0, <1>4, <2>1, RemoveType
          DEF TypeOK, WriteThrows, clickVars, processVars, browserVars
<1> QED BY <1>1, <1>2, <1>3, <1>4 DEF Answer

LEMMA NewsTypes ==
  ASSUME IInv, NEW c \in Codes, Click(c) \/ NewsLost(c) \/ NewsArrives(c) \/ FetchEnds(c)
  PROVE  TypeOK'
<1> USE CountsAreNaturals
<1>0. TypeOK BY DEF IInv
<1>1. CASE Click(c)
  <2>1. /\ news[c] + fetching[c] <= clicks[c] /\ clicks[c] < MaxClicks
        /\ news[c] \in Counts /\ fetching[c] \in Counts /\ clicks[c] \in Counts
    BY <1>1 DEF IInv, TypeOK, NewsIsStored, Click
  <2>2. clicks[c] + 1 \in Counts /\ news[c] + 1 \in Counts
    BY <2>1, MaxClicksNatural DEF Counts
  <2> QED BY <1>0, <1>1, <2>2 DEF TypeOK, Click, streamVars, processVars, browserVars
<1>2. CASE NewsLost(c)
  <2>1. failures' \in 0..MaxFailures /\ news[c] - 1 \in Counts
    BY <1>0, <1>2, RoomForFetch, MaxFailuresNatural DEF TypeOK, NewsLost, Fails
  <2> QED BY <1>0, <1>2, <2>1 DEF TypeOK, NewsLost, streamVars, processVars, browserVars
<1>3. CASE NewsArrives(c)
  <2>1. news[c] - 1 \in Counts /\ fetching[c] + 1 \in Counts
    BY <1>3, RoomForFetch DEF NewsArrives
  <2> QED BY <1>0, <1>3, <2>1 DEF TypeOK, NewsArrives, streamVars, processVars, browserVars
<1>4. ASSUME FetchEnds(c) PROVE fetching' \in [Codes -> Counts]
  <2>1. fetching[c] > 0 /\ fetching[c] \in Counts /\ fetching' = [fetching EXCEPT ![c] = @ - 1]
    BY <1>0, <1>4 DEF TypeOK, FetchEnds, Broadcast, FetchFails
  <2>2. fetching[c] - 1 \in Counts
    BY <2>1, MaxClicksNatural DEF Counts
  <2> QED BY <1>0, <2>1, <2>2 DEF TypeOK
<1>5. CASE Broadcast(c)
  BY <1>0, <1>4, <1>5 DEF TypeOK, Broadcast, FetchEnds, clickVars, processVars, browserVars
<1>6. CASE FetchFails(c)
  <2>1. failures' \in 0..MaxFailures
    BY <1>0, <1>6, MaxFailuresNatural DEF TypeOK, FetchFails, Fails
  <2> QED BY <1>0, <1>4, <1>6, <2>1
          DEF TypeOK, FetchFails, FetchEnds, clickVars, streamVars, processVars, browserVars
<1> QED BY <1>1, <1>2, <1>3, <1>5, <1>6 DEF FetchEnds

LEMMA ShutdownTypes ==
  ASSUME IInv, Sigterm \/ ShutdownStep
  PROVE  TypeOK'
<1> USE CountsAreNaturals
<1>0. TypeOK BY DEF IInv
<1>1. CASE Sigterm \/ WorkerStops \/ RestCloses \/ Restart
  BY <1>0, <1>1 DEF TypeOK, Sigterm, WorkerStops, RestCloses, Restart,
                    clickVars, streamVars, browserVars
<1>2. CASE ServerClosed
  BY <1>0, <1>2 DEF TypeOK, ServerClosed, clickVars, browserVars
<1>3. CASE ForceExit
  BY <1>0, <1>3 DEF TypeOK, ForceExit, browserVars
<1> QED BY <1>1, <1>2, <1>3 DEF ShutdownStep

-----------------------------------------------------------------------------
(* The registry: the maps agree after every step that touches them.        *)
LEMMA RemoveAgrees ==
  ASSUME TypeOK, MapsAgree, NEW s \in Streams, Remove({s}),
         request' = [request EXCEPT ![s] = Free]
  PROVE  MapsAgree'
BY DEF TypeOK, MapsAgree, Remove, Free

LEMMA SocketClosesAgrees ==
  ASSUME TypeOK, MapsAgree, NEW s \in Streams, SocketCloses(s)
  PROVE  MapsAgree'
<1>1. CASE request[s].at = "streaming"
  BY <1>1, RemoveAgrees DEF SocketCloses
<1>2. CASE request[s].at # "streaming"
  BY <1>2 DEF SocketCloses, MapsAgree
<1> QED BY <1>1, <1>2

LEMMA MapsStep ==
  ASSUME IInv, Next
  PROVE  MapsAgree'
<1>0. TypeOK /\ MapsAgree BY DEF IInv
<1>1. ASSUME UNCHANGED <<conns, subs, request>> PROVE MapsAgree'
  BY <1>0, <1>1 DEF MapsAgree
<1>2. ASSUME NEW b \in Browsers, ClosePage(b) PROVE MapsAgree'
  BY <1>0, <1>1, <1>2, SocketClosesAgrees DEF ClosePage, streamVars, TypeOK
<1>3. ASSUME NEW b \in Browsers, NEW s \in Streams, Connect(b, s) PROVE MapsAgree'
  BY <1>0, <1>3 DEF Connect, MapsAgree, TypeOK, Free
<1>4. ASSUME NEW s \in Streams, Accept(s) PROVE MapsAgree'
  <2>1. request[s].code \in Codes
    BY <1>0, <1>4 DEF Accept, TypeOK, Free
  <2> QED BY <1>0, <1>4, <2>1 DEF Accept, MapsAgree, TypeOK
<1>5. ASSUME NEW s \in Streams, TurnAway(s) PROVE MapsAgree'
  BY <1>0, <1>5 DEF TurnAway, MapsAgree, TypeOK, Free
<1>6. ASSUME NEW s \in Streams, StreamBreaks(s) PROVE MapsAgree'
  BY <1>0, <1>6, SocketClosesAgrees DEF StreamBreaks
<1>7. ASSUME NEW s \in Streams, WriteThrows(s) PROVE MapsAgree'
  BY <1>0, <1>7, RemoveAgrees DEF WriteThrows
<1>8. CASE ServerClosed
  BY <1>0, <1>8 DEF ServerClosed, MapsAgree, TypeOK, Free
<1>9. CASE ForceExit
  BY <1>0, <1>9 DEF ForceExit, MapsAgree, TypeOK, Free
<1>10. ASSUME NEW b \in Browsers,
              \/ Refresh(b) \/ StreamLost(b) \/ FrameArrives(b) \/ QueryStep(b)
              \/ \E c \in Codes : OpenPage(b, c) \/ CacheExpires(b, c)
       PROVE  UNCHANGED <<conns, subs, request>>
  BY <1>10 DEF Refresh, StreamLost, FrameArrives, QueryStep, QueryServed, QueryArrives,
               QueryFails, OpenPage, CacheExpires, streamVars
<1>11. ASSUME NEW c \in Codes, Click(c) \/ NewsLost(c) \/ NewsArrives(c) \/ FetchEnds(c)
       PROVE  UNCHANGED <<conns, subs, request>>
  BY <1>11 DEF Click, NewsLost, NewsArrives, FetchEnds, Broadcast, FetchFails, streamVars
<1>12. CASE Sigterm \/ WorkerStops \/ RestCloses \/ Restart
  BY <1>1, <1>12 DEF Sigterm, WorkerStops, RestCloses, Restart, streamVars
<1> QED BY <1>1, <1>2, <1>3, <1>4, <1>5, <1>6, <1>7, <1>8, <1>9, <1>10, <1>11, <1>12
        DEF Next, User, Reconnects, Answer, ShutdownStep

-----------------------------------------------------------------------------
(* What the readers rely on when a socket closes: nobody else's stream is  *)
(* touched.                                                                *)
LEMMA SocketClosesOthers ==
  ASSUME TypeOK, NEW s \in Streams, SocketCloses(s)
  PROVE  /\ up' = up \ {s}
         /\ \A x \in Streams \ {s} : request'[x] = request[x] /\ frames'[x] = frames[x]
BY DEF TypeOK, SocketCloses

LEMMA ReaderStep ==
  ASSUME IInv, Next
  PROVE  OneReader'
<1>0. TypeOK /\ OneReader /\ MapsAgree BY DEF IInv
<1>1. ASSUME UNCHANGED <<page, hook, query>>, up' \subseteq up,
             \A s \in up' : request'[s] # request[s] =>
                request'[s] # Free /\ request'[s].code = request[s].code
      PROVE  OneReader'
  BY <1>0, <1>1 DEF OneReader, Reads
<1>2. ASSUME NEW b \in Browsers, NEW c \in Codes, OpenPage(b, c) PROVE OneReader'
  BY <1>0, <1>2, NoneIsNoCode
     DEF OneReader, Reads, OpenPage, TypeOK, streamVars, Off, Retry
<1>3. ASSUME NEW b \in Browsers, ClosePage(b) PROVE OneReader'
  <2>1. /\ up' \subseteq up
        /\ \A x \in up' : request'[x] = request[x]
    BY <1>0, <1>3, SocketClosesOthers DEF ClosePage, streamVars, TypeOK
  <2>2. /\ page' = [page EXCEPT ![b] = "none"] /\ query' = [query EXCEPT ![b] = Idle]
        /\ hook' = [hook EXCEPT ![b] = Off]
    BY <1>3 DEF ClosePage
  <2>3. \A s \in Streams : Off # [at |-> "stream", id |-> s]
    BY DEF Off
  <2> QED BY <1>0, <2>1, <2>2, <2>3 DEF OneReader, Reads, TypeOK
<1>4. ASSUME NEW b \in Browsers, NEW s \in Streams, Connect(b, s) PROVE OneReader'
  <2>1. page[b] # "none" /\ hook'[b] # Off
    BY <1>0, <1>4 DEF Connect, OneReader, TypeOK, Off, Retry
  <2>2. ~\E x \in Browsers : Reads(x, s)
    BY <1>4 DEF Connect
  <2> QED BY <1>0, <1>4, <2>1, <2>2 DEF OneReader, Reads, Connect, TypeOK, Free
<1>5. ASSUME NEW b \in Browsers, StreamLost(b) PROVE OneReader'
  <2>1. page[b] # "none"
    BY <1>0, <1>5 DEF StreamLost, Reads, OneReader, Off
  <2> QED BY <1>0, <1>5, <2>1 DEF OneReader, Reads, StreamLost, TypeOK, streamVars, Off, Retry
<1>6. ASSUME NEW b \in Browsers, FrameArrives(b) PROVE OneReader'
  <2>1. /\ UNCHANGED <<page, hook, up, request>>
        /\ \E s \in up : Reads(b, s)
        /\ UNCHANGED query \/ query' = [query EXCEPT ![b] = Asked]
    BY <1>6 DEF FrameArrives, Invalidate
  <2>2. page[b] # "none"
    BY <1>0, <2>1 DEF Reads, OneReader, Off, TypeOK
  <2> QED BY <1>0, <2>1, <2>2 DEF OneReader, Reads, TypeOK
<1>7. ASSUME NEW b \in Browsers, QueryStep(b) \/ Refresh(b) PROVE OneReader'
  <2>1. /\ UNCHANGED <<page, hook, up, request>>
        /\ \E q : query' = [query EXCEPT ![b] = q] /\ (page[b] = "none" => q = Idle)
    BY <1>0, <1>7 DEF QueryStep, Refresh, QueryServed, QueryArrives, QueryFails,
                      OneReader, streamVars, TypeOK, Asked, Idle
  <2> QED BY <1>0, <2>1 DEF OneReader, Reads, TypeOK
<1>8. ASSUME NEW b \in Browsers, NEW c \in Codes, CacheExpires(b, c) PROVE OneReader'
  BY <1>1, <1>8 DEF CacheExpires, streamVars
<1>9. ASSUME NEW s \in Streams, Accept(s) PROVE OneReader'
  <2>1. request'[s] # Free /\ request'[s].code = request[s].code
    BY <1>0, <1>9 DEF Accept, TypeOK, Free
  <2> QED BY <1>0, <1>1, <1>9, <2>1 DEF Accept, TypeOK, browserVars
<1>10. ASSUME NEW s \in Streams, TurnAway(s) PROVE OneReader'
  BY <1>0, <1>1, <1>10 DEF TurnAway, TypeOK, browserVars
<1>11. ASSUME NEW s \in Streams, StreamBreaks(s) PROVE OneReader'
  BY <1>0, <1>1, <1>11, SocketClosesOthers DEF StreamBreaks, TypeOK, browserVars
<1>12. ASSUME NEW s \in Streams, WriteThrows(s) PROVE OneReader'
  BY <1>0, <1>1, <1>12 DEF WriteThrows, TypeOK, browserVars
<1>13. ASSUME NEW c \in Codes, Click(c) \/ NewsLost(c) \/ NewsArrives(c) \/ FetchEnds(c)
       PROVE  OneReader'
  <2>1. UNCHANGED <<page, hook, query, up, request>>
    BY <1>13 DEF Click, NewsLost, NewsArrives, FetchEnds, Broadcast, FetchFails,
                 streamVars, browserVars
  <2> QED BY <1>1, <2>1
<1>14. CASE Sigterm \/ ShutdownStep
  <2>1. UNCHANGED <<page, hook, query>> /\ up' \subseteq up
    BY <1>14 DEF Sigterm, ShutdownStep, ServerClosed, WorkerStops, RestCloses, ForceExit,
                 Restart, streamVars, browserVars
  <2>2. \A s \in up' : request'[s] = request[s]
    BY <1>14 DEF Sigterm, ShutdownStep, ServerClosed, WorkerStops, RestCloses, ForceExit,
                 Restart, streamVars, browserVars
  <2> QED BY <1>1, <2>1, <2>2
<1> QED BY <1>2, <1>3, <1>4, <1>5, <1>6, <1>7, <1>8, <1>9, <1>10, <1>11, <1>12, <1>13, <1>14
        DEF Next, User, Reconnects, Answer

-----------------------------------------------------------------------------
(* Leaving the registry writes off what was owed to the stream, and ends   *)
(* handlers only of codes nobody else watches.                             *)
LEMMA RemoveOwes ==
  ASSUME TypeOK, NEW s \in Streams, Remove({s})
  PROVE  /\ conns' = conns \ {s} /\ due'[s] = 0
         /\ \A x \in Streams \ {s} : due'[x] = due[x]
         /\ \A c \in Codes : fetching'[c] = fetching[c] \/ (fetching'[c] = 0 /\ subs[c] \subseteq {s})
BY DEF TypeOK, Remove

LEMMA SocketClosesOwes ==
  ASSUME TypeOK, MapsAgree, NewsIsStored, NEW s \in Streams, SocketCloses(s)
  PROVE  /\ conns' = conns \ {s} /\ due'[s] = 0
         /\ \A x \in Streams \ {s} : due'[x] = due[x] /\ request'[x] = request[x]
         /\ \A c \in Codes : fetching'[c] = fetching[c] \/ (fetching'[c] = 0 /\ subs[c] \subseteq {s})
<1>1. CASE request[s].at = "streaming"
  <2>1. Remove({s}) /\ request' = [request EXCEPT ![s] = Free]
    BY <1>1 DEF SocketCloses
  <2>2. \A x \in Streams \ {s} : request'[x] = request[x]
    BY <2>1 DEF TypeOK
  <2> QED BY <2>1, <2>2, RemoveOwes
<1>2. CASE request[s].at # "streaming"
  <2>1. s \notin conns /\ UNCHANGED <<conns, fetching, due, request>>
    BY <1>2 DEF SocketCloses, MapsAgree
  <2>2. due[s] \in Nat
    BY CountsAreNaturals DEF TypeOK
  <2>3. due[s] = 0
    BY <2>1, <2>2 DEF NewsIsStored
  <2> QED BY <2>1, <2>3
<1> QED BY <1>1, <1>2

LEMMA FetchesStored ==
  ASSUME TypeOK, NewsIsStored, clicks' = clicks, news' = news,
         \A c \in Codes : fetching'[c] = fetching[c] \/ fetching'[c] = 0
  PROVE  \A c \in Codes : news'[c] + fetching'[c] <= clicks'[c]
<1> TAKE c \in Codes
<1>1. news[c] \in Nat /\ fetching[c] \in Nat /\ clicks[c] \in Nat
  BY CountsAreNaturals DEF TypeOK
<1> QED BY <1>1 DEF NewsIsStored

LEMMA StoredStep ==
  ASSUME IInv, Next
  PROVE  NewsIsStored'
<1>0. TypeOK /\ MapsAgree /\ NewsIsStored BY DEF IInv
<1>n. /\ \A c \in Codes : news[c] \in Nat /\ fetching[c] \in Nat /\ clicks[c] \in Nat
      /\ \A s \in Streams : due[s] \in Nat
  BY <1>0, Numbers
<1>1. ASSUME UNCHANGED <<clicks, news>>,
             \A c \in Codes : fetching'[c] = fetching[c] \/ fetching'[c] = 0,
             \A s \in Streams :
               \/ due'[s] = 0
               \/ due'[s] = due[s] /\ (s \in conns => s \in conns' /\ request'[s].code = request[s].code)
      PROVE  NewsIsStored'
  BY <1>0, <1>1, FetchesStored DEF NewsIsStored
<1>2. ASSUME NEW b \in Browsers, ClosePage(b) PROVE NewsIsStored'
  <2>1. ASSUME NEW s \in Streams, SocketCloses(s), UNCHANGED <<clicks, news>> PROVE NewsIsStored'
    BY <1>0, <1>1, <2>1, SocketClosesOwes
  <2> QED BY <1>0, <1>1, <1>2, <2>1 DEF ClosePage, clickVars, streamVars, TypeOK
<1>3. ASSUME NEW b \in Browsers, FrameArrives(b) PROVE NewsIsStored'
  <2>1. /\ UNCHANGED <<clicks, news, fetching, conns, request>>
        /\ UNCHANGED due \/ due' = Forgiven(b)
    BY <1>3 DEF FrameArrives, Invalidate, clickVars
  <2>2. \A s \in Streams : due'[s] = 0 \/ due'[s] = due[s]
    BY <2>1 DEF Forgiven
  <2> QED BY <1>1, <2>1, <2>2
<1>4. ASSUME NEW b \in Browsers, QueryFails(b) PROVE NewsIsStored'
  BY <1>1, <1>4 DEF QueryFails, Forgiven, clickVars, streamVars
<1>5. ASSUME NEW b \in Browsers,
             \/ Refresh(b) \/ StreamLost(b) \/ QueryServed(b) \/ QueryArrives(b)
             \/ \E c \in Codes : OpenPage(b, c) \/ CacheExpires(b, c)
      PROVE  NewsIsStored'
  <2>1. UNCHANGED <<clicks, news, fetching, conns, request, due>>
    BY <1>5 DEF Refresh, StreamLost, QueryServed, QueryArrives, OpenPage, CacheExpires,
                clickVars, streamVars
  <2> QED BY <1>1, <2>1
<1>6. ASSUME NEW b \in Browsers, NEW s \in Streams, Connect(b, s) PROVE NewsIsStored'
  <2>1. s \notin conns
    BY <1>0, <1>6 DEF Connect, MapsAgree, Free
  <2> QED BY <1>0, <1>1, <1>6, <2>1 DEF Connect, TypeOK, clickVars
<1>7. ASSUME NEW s \in Streams, Accept(s) PROVE NewsIsStored'
  <2>1. \A x \in conns : x # s /\ request'[x] = request[x]
    BY <1>0, <1>7 DEF Accept, MapsAgree, TypeOK
  <2> QED BY <1>0, <1>1, <1>7, <2>1 DEF Accept, TypeOK, clickVars
<1>8. ASSUME NEW s \in Streams, TurnAway(s) PROVE NewsIsStored'
  <2>1. \A x \in conns : x # s /\ request'[x] = request[x]
    BY <1>0, <1>8 DEF TurnAway, MapsAgree, TypeOK
  <2> QED BY <1>0, <1>1, <1>8, <2>1 DEF TurnAway, TypeOK, clickVars
<1>9. ASSUME NEW s \in Streams, StreamBreaks(s) PROVE NewsIsStored'
  BY <1>0, <1>1, <1>9, SocketClosesOwes DEF StreamBreaks, clickVars
<1>10. ASSUME NEW s \in Streams, WriteThrows(s) PROVE NewsIsStored'
  <2>1. Remove({s}) /\ request' = [request EXCEPT ![s] = Free] /\ UNCHANGED <<clicks, news>>
    BY <1>10 DEF WriteThrows, clickVars
  <2>2. \A x \in Streams \ {s} : request'[x] = request[x]
    BY <1>0, <2>1 DEF TypeOK
  <2> QED BY <1>0, <1>1, <2>1, <2>2, RemoveOwes
<1>11. ASSUME NEW c \in Codes, Click(c) PROVE NewsIsStored'
  <2>1. /\ clicks' = [clicks EXCEPT ![c] = @ + 1]
        /\ \A d \in Codes : news'[d] = news[d] \/ (d = c /\ news'[d] = news[d] + 1)
        /\ UNCHANGED <<fetching, conns, request, due>>
    BY <1>0, <1>11 DEF Click, streamVars, TypeOK
  <2>2. \A d \in Codes : news'[d] + fetching'[d] <= clicks'[d]
    BY <1>0, <1>n, <2>1 DEF NewsIsStored, TypeOK
  <2>3. ASSUME NEW s \in Streams, due[s] > 0 PROVE due[s] <= clicks'[request[s].code]
    <3>1. s \in conns /\ due[s] <= clicks[request[s].code]
      BY <1>0, <2>3 DEF NewsIsStored
    <3>2. request[s].code \in Codes
      BY <1>0, <3>1 DEF MapsAgree, TypeOK, Free
    <3> QED BY <1>0, <1>n, <2>1, <3>1, <3>2 DEF TypeOK
  <2> QED BY <1>0, <2>1, <2>2, <2>3 DEF NewsIsStored
<1>12. ASSUME NEW c \in Codes, NewsLost(c) PROVE NewsIsStored'
  <2>1. /\ news' = [news EXCEPT ![c] = @ - 1] /\ UNCHANGED <<clicks, fetching, conns, request, due>>
    BY <1>12 DEF NewsLost, streamVars
  <2>2. \A d \in Codes : news'[d] + fetching'[d] <= clicks'[d]
    BY <1>0, <1>n, <2>1 DEF NewsIsStored, TypeOK
  <2> QED BY <1>0, <2>1, <2>2 DEF NewsIsStored
<1>13. ASSUME NEW c \in Codes, NewsArrives(c) PROVE NewsIsStored'
  <2>1. /\ news' = [news EXCEPT ![c] = @ - 1]
        /\ \A d \in Codes : fetching'[d] = fetching[d] \/ (d = c /\ fetching'[d] = fetching[d] + 1)
        /\ UNCHANGED <<clicks, conns, request>>
    BY <1>0, <1>13 DEF NewsArrives, streamVars, TypeOK
  <2>2. \A d \in Codes : news'[d] + fetching'[d] <= clicks'[d]
    BY <1>0, <1>n, <2>1 DEF NewsIsStored, TypeOK
  <2>3. \A s \in Streams : due'[s] = due[s] \/ (s \in subs[c] /\ due'[s] = clicks[c])
    BY <1>13 DEF NewsArrives
  <2>4. \A s \in subs[c] : s \in conns /\ request[s].code = c
    BY <1>0 DEF MapsAgree
  <2> QED BY <1>0, <1>n, <2>1, <2>2, <2>3, <2>4 DEF NewsIsStored
<1>14. ASSUME NEW c \in Codes, FetchEnds(c) PROVE NewsIsStored'
  <2>1. /\ fetching' = [fetching EXCEPT ![c] = @ - 1]
        /\ UNCHANGED <<clicks, news, conns, request>>
        /\ \A s \in Streams : due'[s] = due[s] \/ due'[s] = 0
    BY <1>14 DEF FetchEnds, Broadcast, FetchFails, clickVars, streamVars
  <2>2. \A d \in Codes : news'[d] + fetching'[d] <= clicks'[d]
    BY <1>0, <1>n, <2>1 DEF NewsIsStored, TypeOK
  <2> QED BY <1>0, <2>1, <2>2 DEF NewsIsStored
<1>15. CASE Sigterm \/ WorkerStops \/ RestCloses \/ Restart
  <2>1. UNCHANGED <<clicks, news, fetching, conns, request, due>>
    BY <1>15 DEF Sigterm, WorkerStops, RestCloses, Restart, clickVars, streamVars
  <2> QED BY <1>1, <2>1
<1>16. CASE ServerClosed \/ ForceExit
  <2>1. /\ fetching' = [c \in Codes |-> 0] /\ due' = [s \in Streams |-> 0]
        /\ clicks' = clicks /\ \A c \in Codes : news'[c] \in {0, news[c]}
    BY <1>16 DEF ServerClosed, ForceExit, clickVars
  <2>2. \A c \in Codes : news'[c] + fetching'[c] <= clicks'[c]
    BY <1>0, <1>n, <2>1 DEF NewsIsStored
  <2>3. \A s \in Streams : due'[s] = 0
    BY <2>1
  <2> QED BY <2>2, <2>3 DEF NewsIsStored
<1> QED BY <1>2, <1>3, <1>4, <1>5, <1>6, <1>7, <1>8, <1>9, <1>10, <1>11, <1>12, <1>13, <1>14,
           <1>15, <1>16
        DEF Next, User, Reconnects, Answer, QueryStep, ShutdownStep

-----------------------------------------------------------------------------
LEMMA NewerStep ==
  ASSUME IInv, Next
  PROVE  AnswersAreNewer'
<1>0. TypeOK /\ OneReader /\ AnswersAreNewer BY DEF IInv
<1>t. TypeOK'
  BY BrowserTypes, StreamTypes, NewsTypes, ShutdownTypes DEF Next
<1>i. /\ \A b \in Browsers : \A c \in Codes : cache[b][c] \in Int
      /\ \A c \in Codes : clicks[c] \in Nat /\ clicks'[c] \in Nat
      /\ \A b \in Browsers : query[b].at = "answered" => query[b].n \in Nat
  <2>1. \A c \in Codes : clicks'[c] \in Nat
    BY <1>t, CountsAreNaturals DEF TypeOK
  <2> QED BY <1>0, <2>1, Numbers
(* A step that only drops data or answers, or stores more clicks.          *)
<1>1. ASSUME \A c \in Codes : clicks'[c] >= clicks[c],
             \A b \in Browsers : \A c \in Codes : cache'[b][c] \in {cache[b][c], NoData},
             \A b \in Browsers : query'[b].at = "answered" =>
                page[b] \in Codes /\ page'[b] = page[b] /\ query'[b] = query[b]
      PROVE  AnswersAreNewer'
  BY <1>0, <1>1, <1>i DEF AnswersAreNewer, NoData
<1>2. \A b \in Browsers : query[b].at = "answered" => page[b] \in Codes
  BY <1>0 DEF OneReader, TypeOK, Idle
<1>3. ASSUME NEW b \in Browsers, QueryServed(b) PROVE AnswersAreNewer'
  <2>1. page[b] \in Codes
    BY <1>0, <1>3 DEF QueryServed, OneReader, TypeOK, Idle, Asked
  <2>2. /\ query'[b] = [at |-> "answered", n |-> clicks[page[b]]]
        /\ \A a \in Browsers \ {b} : query'[a] = query[a]
        /\ UNCHANGED <<clicks, page, cache>>
    BY <1>0, <1>3 DEF QueryServed, TypeOK, clickVars
  <2> QED BY <1>0, <1>i, <2>1, <2>2 DEF AnswersAreNewer
<1>4. ASSUME NEW b \in Browsers, QueryArrives(b) PROVE AnswersAreNewer'
  <2>1. page[b] \in Codes
    BY <1>2, <1>4 DEF QueryArrives
  <2>2. /\ query'[b] = Idle /\ \A a \in Browsers \ {b} : query'[a] = query[a]
        /\ UNCHANGED <<clicks, page>>
    BY <1>0, <1>4 DEF QueryArrives, TypeOK, clickVars
  <2>3. \A a \in Browsers : \A c \in Codes :
          cache'[a][c] = IF a = b /\ c = page[b] THEN query[b].n ELSE cache[a][c]
    BY <1>0, <1>4, <2>1 DEF QueryArrives, TypeOK
  <2>4. query[b].n <= clicks[page[b]]
    BY <1>0, <1>4 DEF QueryArrives, AnswersAreNewer
  <2>5. \A a \in Browsers : \A c \in Codes : cache'[a][c] <= clicks'[c]
    BY <1>0, <2>2, <2>3, <2>4 DEF AnswersAreNewer
  <2>6. \A a \in Browsers : query'[a].at = "answered" => a # b /\ page[a] \in Codes
    BY <1>2, <2>2 DEF Idle
  <2> QED BY <1>0, <2>2, <2>3, <2>5, <2>6 DEF AnswersAreNewer
<1>5. ASSUME NEW b \in Browsers, NEW c \in Codes, OpenPage(b, c) PROVE AnswersAreNewer'
  BY <1>0, <1>1, <1>2, <1>i, <1>5 DEF OpenPage, TypeOK, clickVars, Asked
<1>6. ASSUME NEW b \in Browsers, ClosePage(b) PROVE AnswersAreNewer'
  BY <1>0, <1>1, <1>2, <1>i, <1>6 DEF ClosePage, TypeOK, clickVars, Idle
<1>7. ASSUME NEW b \in Browsers, Refresh(b) \/ QueryFails(b) PROVE AnswersAreNewer'
  BY <1>0, <1>1, <1>2, <1>i, <1>7 DEF Refresh, QueryFails, TypeOK, clickVars, Idle, Asked
<1>8. ASSUME NEW b \in Browsers, FrameArrives(b) PROVE AnswersAreNewer'
  <2>1. /\ UNCHANGED <<clicks, page, cache>>
        /\ UNCHANGED query \/ query' = [query EXCEPT ![b] = Asked]
    BY <1>8 DEF FrameArrives, Invalidate, clickVars
  <2> QED BY <1>0, <1>1, <1>2, <1>i, <2>1 DEF TypeOK, Asked
<1>9. ASSUME NEW b \in Browsers, NEW c \in Codes, CacheExpires(b, c) PROVE AnswersAreNewer'
  BY <1>0, <1>1, <1>2, <1>i, <1>9 DEF CacheExpires, TypeOK, clickVars
<1>10. ASSUME NEW b \in Browsers, Reconnects(b) PROVE AnswersAreNewer'
  BY <1>1, <1>2, <1>i, <1>10 DEF Reconnects, Connect, StreamLost, clickVars
<1>11. ASSUME NEW s \in Streams, Answer(s) \/ StreamBreaks(s) \/ WriteThrows(s)
       PROVE  AnswersAreNewer'
  <2>1. UNCHANGED <<clicks, page, query, cache>>
    BY <1>11 DEF Answer, Accept, TurnAway, StreamBreaks, WriteThrows, clickVars, browserVars
  <2> QED BY <1>1, <1>2, <1>i, <2>1
<1>12. ASSUME NEW c \in Codes, Click(c) \/ NewsLost(c) \/ NewsArrives(c) \/ FetchEnds(c)
       PROVE  AnswersAreNewer'
  <2>1. /\ UNCHANGED <<page, query, cache>>
        /\ UNCHANGED clicks \/ clicks' = [clicks EXCEPT ![c] = @ + 1]
    BY <1>12 DEF Click, NewsLost, NewsArrives, FetchEnds, Broadcast, FetchFails,
                 clickVars, browserVars
  <2>2. \A d \in Codes : clicks'[d] >= clicks[d]
    BY <1>0, <1>i, <2>1 DEF TypeOK
  <2> QED BY <1>1, <1>2, <2>1, <2>2
<1>13. CASE Sigterm \/ ShutdownStep
  <2>1. UNCHANGED <<clicks, page, query, cache>>
    BY <1>13 DEF Sigterm, ShutdownStep, ServerClosed, WorkerStops, RestCloses, ForceExit,
                 Restart, clickVars, browserVars
  <2> QED BY <1>1, <1>2, <1>i, <2>1
<1> QED BY <1>3, <1>4, <1>5, <1>6, <1>7, <1>8, <1>9, <1>10, <1>11, <1>12, <1>13
        DEF Next, User, QueryStep

-----------------------------------------------------------------------------
(* What a step may not take away from a reader b of stream s.              *)
LEMMA NewsStep ==
  ASSUME IInv, NewsReachesDashboard, Next
  PROVE  NewsReachesDashboard'
<1> SUFFICES ASSUME NEW b \in Browsers, NEW s \in up' \cap conns', Reads(b, s)'
             PROVE  Reaches(b, s)'
  BY DEF NewsReachesDashboard
<1>0. TypeOK /\ MapsAgree /\ OneReader /\ NewsIsStored /\ AnswersAreNewer BY DEF IInv
<1>t. TypeOK'
  BY BrowserTypes, StreamTypes, NewsTypes, ShutdownTypes DEF Next
<1>s. s \in Streams BY <1>t DEF TypeOK
<1>1. ASSUME s \in up \cap conns, page'[b] = page[b], hook'[b] = hook[b],
             cache'[b][page[b]] = cache[b][page[b]], query'[b] = query[b],
             fetching[page[b]] > 0 => fetching'[page[b]] > 0, frames[s] \subseteq frames'[s],
             due'[s] = due[s] \/ due'[s] = 0
      PROVE  Reaches(b, s)'
  <2>1. Reads(b, s) /\ Reaches(b, s)
    BY <1>1 DEF NewsReachesDashboard, Reads
  <2> QED BY <1>1, <2>1 DEF Reaches
<1>c. ASSUME s \in up \cap conns, Reads(b, s)
      PROVE  page[b] \in Codes /\ request[s].code = page[b] /\ s \in subs[page[b]]
  <2>1. page[b] \in Codes /\ request[s].code = page[b]
    BY <1>0, <1>c DEF OneReader, Reads, TypeOK, Off
  <2> QED BY <1>0, <1>c, <2>1 DEF MapsAgree
(* A socket of another stream, or a dead connection, leaves.               *)
<1>2. ASSUME NEW x \in Streams, x # s, s \in up, page'[b] = page[b], hook'[b] = hook[b],
             query'[b] = query[b], cache' = cache,
             SocketCloses(x) \/ (Remove({x}) /\ UNCHANGED frames)
      PROVE  Reaches(b, s)'
  <2>1. /\ s \in conns /\ due'[s] = due[s] /\ frames'[s] = frames[s]
        /\ \A c \in Codes : fetching'[c] = fetching[c] \/ (fetching'[c] = 0 /\ subs[c] \subseteq {x})
    BY <1>0, <1>2, <1>s, SocketClosesOwes, SocketClosesOthers, RemoveOwes
  <2>2. page[b] \in Codes /\ s \in subs[page[b]]
    BY <1>2, <1>c, <2>1 DEF Reads
  <2>3. fetching'[page[b]] = fetching[page[b]]
    BY <1>s, <1>2, <2>1, <2>2
  <2> QED BY <1>1, <1>2, <2>1, <2>3
<1>3. ASSUME NEW a \in Browsers, NEW c \in Codes, OpenPage(a, c) PROVE Reaches(b, s)'
  <2>1. a # b
    BY <1>0, <1>3 DEF OpenPage, Reads, TypeOK, Retry
  <2> QED BY <1>0, <1>1, <1>3, <2>1 DEF OpenPage, TypeOK, streamVars
<1>4. ASSUME NEW a \in Browsers, ClosePage(a) PROVE Reaches(b, s)'
  <2>1. /\ page' = [page EXCEPT ![a] = "none"] /\ query' = [query EXCEPT ![a] = Idle]
        /\ hook' = [hook EXCEPT ![a] = Off] /\ cache' = cache
    BY <1>4 DEF ClosePage
  <2>2. a # b
    BY <1>0, <2>1 DEF Reads, TypeOK, Off
  <2>3. page'[b] = page[b] /\ hook'[b] = hook[b] /\ query'[b] = query[b]
    BY <1>0, <2>1, <2>2 DEF TypeOK
  <2>4. ASSUME NEW x \in up, SocketCloses(x) PROVE Reaches(b, s)'
    <3>1. x \in Streams /\ x # s /\ s \in up
      BY <1>0, <2>4, SocketClosesOthers DEF TypeOK
    <3> QED BY <1>2, <2>1, <2>3, <2>4, <3>1
  <2>5. ASSUME UNCHANGED <<fetching, streamVars, due>> PROVE Reaches(b, s)'
    BY <1>1, <2>1, <2>3, <2>5, <1>s DEF streamVars
  <2> QED BY <1>4, <2>4, <2>5 DEF ClosePage
<1>5. ASSUME NEW a \in Browsers, NEW c \in Codes, CacheExpires(a, c) PROVE Reaches(b, s)'
  <2>1. cache'[b][page[b]] = cache[b][page[b]]
    BY <1>0, <1>5 DEF CacheExpires, TypeOK
  <2> QED BY <1>1, <1>5, <2>1 DEF CacheExpires, streamVars
<1>6. ASSUME NEW a \in Browsers, NEW x \in Streams, Connect(a, x) PROVE Reaches(b, s)'
  <2>1. s # x
    BY <1>0, <1>6 DEF Connect, MapsAgree, Free
  <2>2. a # b
    BY <1>0, <1>6, <2>1 DEF Connect, Reads, TypeOK
  <2> QED BY <1>0, <1>1, <1>6, <2>1, <2>2 DEF Connect, TypeOK
<1>7. ASSUME NEW a \in Browsers, StreamLost(a) PROVE Reaches(b, s)'
  <2>1. a # b
    BY <1>0, <1>7 DEF StreamLost, Reads, TypeOK, Retry
  <2> QED BY <1>0, <1>1, <1>7, <2>1 DEF StreamLost, TypeOK, streamVars
<1>8. ASSUME NEW a \in Browsers, FrameArrives(a) PROVE Reaches(b, s)'
  <2>0. UNCHANGED <<fetching, conns, up, page, hook, cache>>
    BY <1>8 DEF FrameArrives
  <2>1. PICK x \in up : \E event \in frames[x] :
          /\ Reads(a, x)
          /\ frames' = [frames EXCEPT ![x] = @ \ {event}]
          /\ IF event = "analytics" THEN Invalidate(a) ELSE UNCHANGED <<query, due>>
    BY <1>8 DEF FrameArrives
  <2>2. PICK event \in frames[x] :
          /\ Reads(a, x)
          /\ frames' = [frames EXCEPT ![x] = @ \ {event}]
          /\ IF event = "analytics" THEN Invalidate(a) ELSE UNCHANGED <<query, due>>
    BY <2>1
  <2>3. x \in Streams /\ Reads(b, s) /\ s \in up \cap conns
    BY <1>0, <2>0 DEF TypeOK, Reads
  <2>4. ASSUME a # b PROVE Reaches(b, s)'
    <3>1. x # s
      BY <1>0, <1>s, <2>2, <2>3, <2>4 DEF OneReader
    <3>2. query'[b] = query[b] /\ due'[s] \in {due[s], 0} /\ frames'[s] = frames[s]
      BY <1>0, <1>s, <2>2, <2>4, <3>1 DEF Invalidate, Forgiven, TypeOK
    <3> QED BY <1>1, <2>0, <2>3, <3>2
  <2>5. ASSUME a = b, event = "analytics" PROVE Reaches(b, s)'
    <3>1. Invalidate(b)
      BY <2>2, <2>5
    <3>2. CASE due' = Forgiven(b)
      BY <1>s, <2>3, <3>2 DEF Reaches, Forgiven
    <3>3. CASE query' = [query EXCEPT ![b] = Asked]
      BY <1>0, <3>3 DEF Reaches, TypeOK
    <3> QED BY <3>1, <3>2, <3>3 DEF Invalidate
  <2>6. ASSUME a = b, event # "analytics" PROVE Reaches(b, s)'
    <3>1. UNCHANGED <<query, due>>
      BY <2>2, <2>6
    <3>2. "analytics" \in frames[s] => "analytics" \in frames'[s]
      BY <1>0, <1>s, <2>2, <2>6 DEF TypeOK
    <3> QED BY <2>0, <2>3, <3>1, <3>2 DEF Reaches, NewsReachesDashboard
  <2> QED BY <2>4, <2>5, <2>6
<1>9. ASSUME NEW a \in Browsers, Refresh(a) PROVE Reaches(b, s)'
  <2>1. CASE a = b
    BY <1>0, <1>9, <2>1 DEF Refresh, Reaches, TypeOK
  <2>2. CASE a # b
    BY <1>0, <1>1, <1>9, <2>2 DEF Refresh, TypeOK, streamVars
  <2> QED BY <2>1, <2>2
<1>10. ASSUME NEW a \in Browsers, QueryServed(a) PROVE Reaches(b, s)'
  <2>0. UNCHANGED <<fetching, conns, up, frames, page, hook, cache, due>>
    BY <1>10 DEF QueryServed, streamVars
  <2>1. CASE a = b
    <3>1. Reads(b, s) /\ s \in up \cap conns
      BY <2>0 DEF Reads
    <3>2. due[s] = 0 \/ due[s] <= clicks[page[b]]
      <4>1. due[s] \in Nat
        BY <1>0, <1>s, CountsAreNaturals DEF TypeOK
      <4> QED BY <1>0, <1>c, <1>s, <3>1, <4>1 DEF NewsIsStored
    <3>3. query'[b] = [at |-> "answered", n |-> clicks[page[b]]]
      BY <1>0, <1>10, <2>1 DEF QueryServed, TypeOK
    <3> QED BY <2>0, <3>2, <3>3 DEF Reaches
  <2>2. CASE a # b
    BY <1>0, <1>1, <1>10, <2>0, <2>2 DEF QueryServed, TypeOK
  <2> QED BY <2>1, <2>2
<1>11. ASSUME NEW a \in Browsers, QueryArrives(a) PROVE Reaches(b, s)'
  <2>0. UNCHANGED <<fetching, conns, up, frames, page, hook, due>>
    BY <1>11 DEF QueryArrives, streamVars
  <2>1. CASE a = b
    <3>1. Reads(b, s) /\ s \in up \cap conns /\ Reaches(b, s)
      BY <2>0 DEF Reads, NewsReachesDashboard
    <3>2. cache'[b][page[b]] = query[b].n
      BY <1>0, <1>11, <1>c, <2>1, <3>1 DEF QueryArrives, TypeOK
    <3>3. query[b].at = "answered" /\ query[b] # Asked
      BY <1>11, <2>1 DEF QueryArrives, Asked
    <3>4. cache[b][page[b]] <= query[b].n
      BY <1>0, <3>3 DEF AnswersAreNewer
    <3>5. cache[b][page[b]] \in Int /\ query[b].n \in Int /\ due[s] \in Int
      BY <1>0, <1>c, <1>s, <3>1, <3>3, Numbers
    <3> QED BY <2>0, <3>1, <3>2, <3>3, <3>4, <3>5 DEF Reaches
  <2>2. CASE a # b
    BY <1>0, <1>1, <1>11, <2>0, <2>2 DEF QueryArrives, TypeOK
  <2> QED BY <2>1, <2>2
<1>12. ASSUME NEW a \in Browsers, QueryFails(a) PROVE Reaches(b, s)'
  <2>0. UNCHANGED <<fetching, conns, up, frames, page, hook, cache>> /\ due' = Forgiven(a)
    BY <1>12 DEF QueryFails, streamVars
  <2>1. CASE a = b
    BY <1>s, <2>0, <2>1 DEF Reaches, Forgiven, Reads
  <2>2. CASE a # b
    <3>1. query'[b] = query[b] /\ due'[s] \in {due[s], 0}
      BY <1>0, <1>s, <1>12, <2>0, <2>2 DEF QueryFails, TypeOK, Forgiven
    <3> QED BY <1>1, <2>0, <3>1
  <2> QED BY <2>1, <2>2
<1>13. ASSUME NEW x \in Streams, Accept(x) PROVE Reaches(b, s)'
  <2>0. UNCHANGED <<clickVars, fetching, up, page, hook, query, cache, due>>
    BY <1>13 DEF Accept, browserVars
  <2>1. CASE x = s
    <3>1. s \notin conns
      BY <1>0, <1>13, <2>1 DEF Accept, MapsAgree
    <3>2. due[s] \in Nat
      BY <1>0, <1>s, CountsAreNaturals DEF TypeOK
    <3>3. due[s] = 0
      BY <1>0, <1>s, <3>1, <3>2 DEF NewsIsStored
    <3> QED BY <2>0, <3>3 DEF Reaches
  <2>2. CASE x # s
    <3>1. s \in up \cap conns /\ frames'[s] = frames[s]
      BY <1>0, <1>s, <1>13, <2>0, <2>2 DEF Accept, TypeOK
    <3> QED BY <1>1, <2>0, <3>1
  <2> QED BY <2>1, <2>2
<1>14. ASSUME NEW x \in Streams, TurnAway(x) PROVE Reaches(b, s)'
  BY <1>1, <1>14 DEF TurnAway, browserVars
<1>15. ASSUME NEW x \in Streams, StreamBreaks(x) PROVE Reaches(b, s)'
  <2>1. SocketCloses(x) /\ UNCHANGED <<page, hook, query, cache>>
    BY <1>15 DEF StreamBreaks, browserVars
  <2>2. x # s /\ s \in up
    BY <1>0, <2>1, SocketClosesOthers
  <2> QED BY <1>2, <2>1, <2>2
<1>16. ASSUME NEW x \in Streams, WriteThrows(x) PROVE Reaches(b, s)'
  <2>1. Remove({x}) /\ UNCHANGED <<up, frames, page, hook, query, cache>> /\ x \notin up
    BY <1>16 DEF WriteThrows, browserVars
  <2> QED BY <1>2, <2>1
<1>17. ASSUME NEW c \in Codes, Click(c) \/ NewsLost(c) PROVE Reaches(b, s)'
  <2>1. UNCHANGED <<fetching, conns, up, frames, page, hook, query, cache, due>>
    BY <1>17 DEF Click, NewsLost, streamVars, browserVars
  <2> QED BY <1>1, <2>1
<1>18. ASSUME NEW c \in Codes, NewsArrives(c) PROVE Reaches(b, s)'
  <2>0. UNCHANGED <<conns, up, frames, page, hook, query, cache>>
    BY <1>18 DEF NewsArrives, streamVars, browserVars
  <2>1. s \in up \cap conns /\ Reads(b, s)
    BY <2>0 DEF Reads
  <2>2. page[b] \in Codes /\ s \in subs[page[b]] /\ request[s].code = page[b]
    BY <1>c, <2>1
  <2>3. fetching[page[b]] \in Nat
    BY <1>0, <2>2, CountsAreNaturals DEF TypeOK
  <2>4. CASE page[b] = c
    <3>1. fetching'[c] = fetching[c] + 1
      BY <1>0, <1>18, <2>2, <2>4 DEF NewsArrives, TypeOK
    <3> QED BY <2>0, <2>3, <2>4, <3>1 DEF Reaches
  <2>5. CASE page[b] # c
    <3>1. s \notin subs[c]
      BY <1>0, <2>2, <2>5 DEF MapsAgree
    <3>2. due'[s] = due[s] /\ fetching'[page[b]] = fetching[page[b]]
      BY <1>0, <1>s, <1>18, <2>2, <2>5, <3>1 DEF NewsArrives, TypeOK
    <3> QED BY <1>1, <2>0, <2>1, <3>2
  <2> QED BY <2>4, <2>5
<1>19. ASSUME NEW c \in Codes, FetchEnds(c) PROVE Reaches(b, s)'
  <2>0. /\ UNCHANGED <<conns, up, page, hook, query, cache>>
        /\ fetching' = [fetching EXCEPT ![c] = @ - 1] /\ fetching[c] > 0
    BY <1>19 DEF FetchEnds, Broadcast, FetchFails, streamVars, browserVars
  <2>1. s \in up \cap conns /\ Reads(b, s)
    BY <2>0 DEF Reads
  <2>2. page[b] \in Codes /\ s \in subs[page[b]]
    BY <1>c, <2>1
  <2>3. fetching[page[b]] \in Nat
    BY <1>0, <2>2, CountsAreNaturals DEF TypeOK
  <2>4. CASE page[b] # c
    <3>1. /\ fetching'[page[b]] = fetching[page[b]] /\ frames[s] \subseteq frames'[s]
          /\ due'[s] = due[s] \/ due'[s] = 0
      BY <1>0, <1>s, <1>19, <2>0, <2>2, <2>4
         DEF FetchEnds, Broadcast, FetchFails, TypeOK, streamVars
    <3> QED BY <1>1, <2>0, <2>1, <3>1
  <2>5. CASE page[b] = c /\ Broadcast(c)
    <3>1. "analytics" \in frames'[s]
      BY <1>s, <2>1, <2>2, <2>5 DEF Broadcast
    <3> QED BY <3>1 DEF Reaches
  <2>6. CASE page[b] = c /\ FetchFails(c)
    <3>1. CASE fetching[c] = 1
      <4>1. due'[s] = 0
        BY <1>s, <2>2, <2>6, <3>1 DEF FetchFails
      <4> QED BY <4>1 DEF Reaches
    <3>2. CASE fetching[c] # 1
      <4>1. fetching'[page[b]] > 0
        <5>1. fetching'[c] = fetching[c] - 1
          BY <1>0, <2>0 DEF TypeOK
        <5>2. fetching[c] \in Nat /\ fetching[c] > 0 /\ page[b] = c
          BY <2>0, <2>3, <2>6
        <5> QED BY <3>2, <5>1, <5>2
      <4> QED BY <2>0, <4>1 DEF Reaches
    <3> QED BY <3>1, <3>2
  <2> QED BY <1>19, <2>4, <2>5, <2>6 DEF FetchEnds
<1>20. CASE Sigterm \/ WorkerStops \/ RestCloses \/ Restart
  <2>1. UNCHANGED <<fetching, conns, up, frames, page, hook, query, cache, due>>
    BY <1>20 DEF Sigterm, WorkerStops, RestCloses, Restart, streamVars, browserVars
  <2> QED BY <1>1, <2>1
<1>21. CASE ServerClosed \/ ForceExit
  BY <1>21 DEF ServerClosed, ForceExit
<1> QED BY <1>3, <1>4, <1>5, <1>6, <1>7, <1>8, <1>9, <1>10, <1>11, <1>12, <1>13, <1>14, <1>15,
           <1>16, <1>17, <1>18, <1>19, <1>20, <1>21
        DEF Next, User, Reconnects, QueryStep, Answer, ShutdownStep

-----------------------------------------------------------------------------
LEMMA InitHolds ==
  ASSUME Init
  PROVE  IInv /\ NewsReachesDashboard
<1> USE DEF Init
<1>1. TypeOK
  <2>1. 0 \in Counts /\ 0 \in 0..MaxFailures
    BY CountsAreNaturals, MaxFailuresNatural
  <2>2. cache \in [Browsers -> [Codes -> Counts \cup {NoData}]]
    OBVIOUS
  <2> QED BY <2>1, <2>2 DEF TypeOK
<1>2. MapsAgree
  BY DEF MapsAgree, Free
<1>3. OneReader
  BY DEF OneReader, Reads, Off
<1>4. NewsIsStored /\ NewsReachesDashboard
  BY DEF NewsIsStored, NewsReachesDashboard
<1>5. AnswersAreNewer
  BY DEF AnswersAreNewer, NoData, Idle
<1> QED BY <1>1, <1>2, <1>3, <1>4, <1>5 DEF IInv

LEMMA InvariantStep ==
  ASSUME IInv, NewsReachesDashboard, [Next]_vars
  PROVE  IInv' /\ NewsReachesDashboard'
<1>1. CASE Next
  <2>1. TypeOK'
    BY <1>1, BrowserTypes, StreamTypes, NewsTypes, ShutdownTypes DEF Next
  <2> QED BY <1>1, <2>1, MapsStep, ReaderStep, StoredStep, NewerStep, NewsStep DEF IInv
<1>2. CASE UNCHANGED vars
  <2> USE <1>2 DEF vars, clickVars, streamVars, processVars, browserVars
  <2>1. TypeOK' /\ MapsAgree' /\ NewsIsStored' /\ AnswersAreNewer'
    BY DEF IInv, TypeOK, MapsAgree, NewsIsStored, AnswersAreNewer
  <2>2. OneReader'
    BY DEF IInv, OneReader, Reads
  <2>3. NewsReachesDashboard'
    BY DEF NewsReachesDashboard, Reads, Reaches
  <2> QED BY <2>1, <2>2, <2>3 DEF IInv
<1> QED BY <1>1, <1>2

(* The registry of streams is consistent in every reachable state: the two *)
(* maps of the connection manager agree, a stream has one reader, nothing  *)
(* is announced that was not stored, and no answer takes data back.        *)
THEOREM InvariantHolds == Spec => []IInv
<1>1. Init => IInv /\ NewsReachesDashboard
  BY InitHolds
<1>2. IInv /\ NewsReachesDashboard /\ [Next]_vars => (IInv /\ NewsReachesDashboard)'
  BY InvariantStep
<1> QED BY <1>1, <1>2, PTL DEF Spec

(* A click announced while a dashboard is connected reaches it, or is on   *)
(* its way, for any number of dashboards, streams, codes and failures.     *)
THEOREM NewsReachesDashboardHolds == Spec => []NewsReachesDashboard
<1>1. Init => IInv /\ NewsReachesDashboard
  BY InitHolds
<1>2. IInv /\ NewsReachesDashboard /\ [Next]_vars => (IInv /\ NewsReachesDashboard)'
  BY InvariantStep
<1> QED BY <1>1, <1>2, PTL DEF Spec
=============================================================================
