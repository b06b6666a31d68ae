---------------------------- MODULE EventStreams ----------------------------
(***************************************************************************)
(* Live analytics: the browser's stream hook and query, the API's stream   *)
(* controller, SseConnectionManager and shutdown (web use-analytics-       *)
(* stream.ts, use-analytics.ts; api controllers/analytics-sse.controller,  *)
(* sse/connection-manager, server).                                        *)
(*                                                                         *)
(* One API instance; clicks are stored by workers here or elsewhere.  A    *)
(* stream is one HTTP request for /analytics/stream; its identity is used  *)
(* again once both ends are done with it.                                  *)
(***************************************************************************)
EXTENDS Integers, FiniteSets

CONSTANTS
  Codes,
  Browsers,         (* dashboards                                          *)
  Streams,          (* stream requests that may be under way at once       *)
  MaxConnections,   (* SSE_MAX_CONNECTIONS                                 *)
  MaxClicks,        (* bound: clicks of a code                             *)
  MaxFailures       (* bound: failures of networks, queries and pub/sub    *)

ASSUME MaxConnectionsPositive == MaxConnections \in Nat \ {0}
ASSUME MaxClicksNatural == MaxClicks \in Nat
ASSUME MaxFailuresNatural == MaxFailures \in Nat
ASSUME NoneIsNoCode == "none" \notin Codes

VARIABLES
  clicks,     (* per code: its rows in click_events                        *)
  news,       (* per code: announcements on their way from Redis           *)
  fetching,   (* per code: handleClick calls that await getUrlAnalytics    *)
  conns,      (* the connections map                                       *)
  subs,       (* per code: its set in the subscriptions map                *)
  request,    (* per stream: where the controller is                       *)
  up,         (* streams whose socket is up                                *)
  frames,     (* per stream: events written that the browser has not read  *)
  server,     (* stage of the API process                                  *)
  drained,    (* the shutdown sequence of this process ran to its end      *)
  page,       (* per browser: the code its dashboard shows                 *)
  hook,       (* per browser: useAnalyticsStream                           *)
  query,      (* per browser: useAnalytics                                 *)
  cache,      (* per browser and code: the clicks in the query's data      *)
  failures,   (* failures so far                                           *)
  due         (* history, per stream: the clicks announced while it was    *)
              (* registered and that its dashboard has to show             *)

clickVars == <<clicks, news>>
streamVars == <<conns, subs, request, up, frames>>
processVars == <<server, drained>>
browserVars == <<page, hook, query, cache>>
vars == <<clickVars, fetching, streamVars, processVars, browserVars, failures, due>>

Free == [at |-> "free"]
Off == [at |-> "off"]
Retry == [at |-> "retry"]         (* connect() is about to run             *)
Idle == [at |-> "idle"]
Asked == [at |-> "asked"]
NoData == -1
Counts == 0..MaxClicks

TypeOK ==
  /\ clicks \in [Codes -> Counts] /\ news \in [Codes -> Counts]
  /\ fetching \in [Codes -> Counts]
  /\ conns \subseteq Streams /\ up \subseteq Streams
  /\ subs \in [Codes -> SUBSET Streams]
  /\ request \in [Streams -> {Free} \cup [at : {"checking", "streaming"}, code : Codes]]
  /\ frames \in [Streams -> SUBSET {"connected", "analytics"}]
  /\ server \in {"running", "closing", "sseClosed", "workerStopped", "drained", "exited"}
  /\ drained \in BOOLEAN
  /\ page \in [Browsers -> Codes \cup {"none"}]
  /\ hook \in [Browsers -> {Off, Retry} \cup [at : {"stream"}, id : Streams]]
  /\ query \in [Browsers -> {Idle, Asked} \cup [at : {"answered"}, n : Counts]]
  /\ cache \in [Browsers -> [Codes -> Counts \cup {NoData}]]
  /\ failures \in 0..MaxFailures
  /\ due \in [Streams -> Counts]

Init ==
  /\ clicks = [c \in Codes |-> 0] /\ news = [c \in Codes |-> 0]
  /\ fetching = [c \in Codes |-> 0]
  /\ conns = {} /\ up = {}
  /\ subs = [c \in Codes |-> {}]
  /\ request = [s \in Streams |-> Free]
  /\ frames = [s \in Streams |-> {}]
  /\ server = "running" /\ drained = FALSE
  /\ page = [b \in Browsers |-> "none"]
  /\ hook = [b \in Browsers |-> Off]
  /\ query = [b \in Browsers |-> Idle]
  /\ cache = [b \in Browsers |-> [c \in Codes |-> NoData]]
  /\ failures = 0
  /\ due = [s \in Streams |-> 0]

Alive == server # "exited"
Reads(b, s) == hook[b] = [at |-> "stream", id |-> s]
Fails == failures < MaxFailures /\ failures' = failures + 1
Forgiven(b) == [s \in Streams |-> IF Reads(b, s) THEN 0 ELSE due[s]]

-----------------------------------------------------------------------------
(* Mutant of Remove: the connection stays in its code's set.               *)
RemoveForgetsSet(S) ==
  /\ conns' = conns \ S
  /\ UNCHANGED <<subs, fetching>>
  /\ due' = [s \in Streams |-> IF s \in S THEN 0 ELSE due[s]]

(* removeConnection of each stream of S.  A handleClick that awaits its    *)
(* statistics holds the Set it found; when the last member leaves, that    *)
(* Set is dropped from the map and stays empty, so the call tells nobody.  *)
Remove(S) ==
  /\ conns' = conns \ S
  /\ subs' = [c \in Codes |-> subs[c] \ S]
  /\ fetching' = [c \in Codes |-> IF subs[c] \subseteq S THEN 0 ELSE fetching[c]]
  /\ due' = [s \in Streams |-> IF s \in S THEN 0 ELSE due[s]]

(* The socket of s goes down.  The controller hears of it only through the *)
(* 'close' listener it installs after addConnection.                       *)
SocketCloses(s) ==
  /\ up' = up \ {s}
  /\ frames' = [frames EXCEPT ![s] = {}]
  /\ IF request[s].at = "streaming"
       THEN Remove({s}) /\ request' = [request EXCEPT ![s] = Free]
       ELSE UNCHANGED <<conns, subs, fetching, due, request>>

-----------------------------------------------------------------------------
(* A dashboard page mounts: its query, whose data may still be there from  *)
(* an earlier visit, and its stream start.                                 *)
OpenPage(b, c) ==
  /\ page[b] = "none"
  /\ page' = [page EXCEPT ![b] = c]
  /\ query' = [query EXCEPT ![b] = Asked]
  /\ hook' = [hook EXCEPT ![b] = Retry]
  /\ UNCHANGED <<clickVars, fetching, streamVars, processVars, cache, failures, due>>

(* The effect's cleanup: no more reconnects, the stream is aborted.        *)
ClosePage(b) ==
  /\ page[b] # "none"
  /\ page' = [page EXCEPT ![b] = "none"]
  /\ query' = [query EXCEPT ![b] = Idle]
  /\ hook' = [hook EXCEPT ![b] = Off]
  /\ \/ \E s \in up : Reads(b, s) /\ SocketCloses(s)
     \/ /\ ~\E s \in up : Reads(b, s)
        /\ UNCHANGED <<fetching, streamVars, due>>
  /\ UNCHANGED <<clickVars, processVars, cache, failures>>

(* The query client drops the data of a page nobody has open.              *)
CacheExpires(b, c) ==
  /\ page[b] # c /\ cache[b][c] # NoData
  /\ cache' = [cache EXCEPT ![b][c] = NoData]
  /\ UNCHANGED <<clickVars, fetching, streamVars, processVars, page, hook, query, failures, due>>

(* connect(): while nobody listens it fails and is scheduled again.        *)
Connect(b, s) ==
  /\ hook[b] = Retry /\ server = "running"
  /\ request[s] = Free /\ s \notin up /\ ~\E x \in Browsers : Reads(x, s)
  /\ request' = [request EXCEPT ![s] = [at |-> "checking", code |-> page[b]]]
  /\ up' = up \cup {s}
  /\ hook' = [hook EXCEPT ![b] = [at |-> "stream", id |-> s]]
  /\ UNCHANGED <<clickVars, fetching, conns, subs, frames, processVars, page, query, cache, failures, due>>

(* Mutant of StreamLost: no reconnect after a stream that ended.           *)
StreamLostGivesUp(b) ==
  /\ \E s \in Streams \ up : Reads(b, s)
  /\ hook' = [hook EXCEPT ![b] = Off]
  /\ UNCHANGED <<clickVars, fetching, streamVars, processVars, page, query, cache, failures, due>>

(* The response failed, ended or broke: backoff.                           *)
StreamLost(b) ==
  /\ \E s \in Streams \ up : Reads(b, s)
  /\ hook' = [hook EXCEPT ![b] = Retry]
  /\ UNCHANGED <<clickVars, fetching, streamVars, processVars, page, query, cache, failures, due>>

(* Mutant of Invalidate: a fetch under way is taken for the new one.       *)
InvalidateJoins(b) ==
  /\ query' = IF query[b] = Idle THEN [query EXCEPT ![b] = Asked] ELSE query
  /\ UNCHANGED due

(* invalidateQueries cancels a fetch under way and starts another, but     *)
(* joins a first fetch, which has no data yet to fall back on.             *)
Invalidate(b) ==
  IF cache[b][page[b]] = NoData /\ query[b] # Idle
    THEN due' = Forgiven(b) /\ UNCHANGED query
    ELSE query' = [query EXCEPT ![b] = Asked] /\ UNCHANGED due

(* The frame loop; only the name of an event counts, not its payload.      *)
FrameArrives(b) ==
  /\ \E s \in up : \E event \in frames[s] :
       /\ Reads(b, s)
       /\ frames' = [frames EXCEPT ![s] = @ \ {event}]
       /\ IF event = "analytics" THEN Invalidate(b) ELSE UNCHANGED <<query, due>>
  /\ UNCHANGED <<clickVars, fetching, conns, subs, request, up, processVars, page, hook, cache, failures>>

(* The user's manual refresh.                                              *)
Refresh(b) ==
  /\ page[b] # "none" /\ query[b] = Idle
  /\ query' = [query EXCEPT ![b] = Asked]
  /\ UNCHANGED <<clickVars, fetching, streamVars, processVars, page, hook, cache, failures, due>>

QueryServed(b) ==
  /\ query[b] = Asked /\ server = "running"
  /\ query' = [query EXCEPT ![b] = [at |-> "answered", n |-> clicks[page[b]]]]
  /\ UNCHANGED <<clickVars, fetching, streamVars, processVars, page, hook, cache, failures, due>>

QueryArrives(b) ==
  /\ query[b].at = "answered"
  /\ cache' = [cache EXCEPT ![b][page[b]] = query[b].n]
  /\ query' = [query EXCEPT ![b] = Idle]
  /\ UNCHANGED <<clickVars, fetching, streamVars, processVars, page, hook, failures, due>>

(* The query and its one retry failed; the page keeps what it shows.       *)
QueryFails(b) ==
  /\ query[b] # Idle
  /\ Fails \/ (server # "running" /\ UNCHANGED failures)
  /\ query' = [query EXCEPT ![b] = Idle]
  /\ due' = Forgiven(b)
  /\ UNCHANGED <<clickVars, fetching, streamVars, processVars, page, hook, cache>>

-----------------------------------------------------------------------------
(* streamAnalytics after assertOwned: register, write 'connected', listen. *)
Accept(s) ==
  /\ Alive
  /\ request[s].at = "checking"
  /\ Cardinality(conns) < MaxConnections
  /\ conns' = conns \cup {s}
  /\ subs' = [subs EXCEPT ![request[s].code] = @ \cup {s}]
  /\ request' = [request EXCEPT ![s] = [at |-> "streaming", code |-> @.code]]
  /\ frames' = IF s \in up THEN [frames EXCEPT ![s] = {"connected"}] ELSE frames
  /\ UNCHANGED <<clickVars, fetching, up, processVars, browserVars, failures, due>>

(* Too many connections, or assertOwned rejects.  At the limit the headers *)
(* are already out: status(503) throws and the socket is destroyed.        *)
TurnAway(s) ==
  /\ Alive
  /\ request[s].at = "checking"
  /\ Fails \/ (Cardinality(conns) >= MaxConnections /\ UNCHANGED failures)
  /\ request' = [request EXCEPT ![s] = Free]
  /\ up' = up \ {s}
  /\ UNCHANGED <<clickVars, fetching, conns, subs, frames, processVars, browserVars, due>>

(* The network cuts a stream.                                              *)
StreamBreaks(s) ==
  /\ Fails /\ Alive
  /\ s \in up
  /\ SocketCloses(s)
  /\ UNCHANGED <<clickVars, processVars, browserVars>>

(* A write to a client that is gone throws: removeConnection.  Node hands  *)
(* most such errors to the write's callback, so nobody may rely on it.     *)
WriteThrows(s) ==
  /\ Fails /\ Alive
  /\ s \in conns \ up
  /\ Remove({s})
  /\ request' = [request EXCEPT ![s] = Free]
  /\ UNCHANGED <<clickVars, up, frames, processVars, browserVars>>

-----------------------------------------------------------------------------
(* A batch with a click on c commits and is announced; pub/sub keeps       *)
(* nothing for a process that is not there.                                *)
Click(c) ==
  /\ clicks[c] < MaxClicks
  /\ clicks' = [clicks EXCEPT ![c] = @ + 1]
  /\ news' = IF Alive THEN [news EXCEPT ![c] = @ + 1] ELSE news
  /\ UNCHANGED <<fetching, streamVars, processVars, browserVars, failures, due>>

NewsLost(c) ==
  /\ Fails /\ news[c] > 0
  /\ news' = [news EXCEPT ![c] = @ - 1]
  /\ UNCHANGED <<clicks, fetching, streamVars, processVars, browserVars, due>>

(* pmessage: handleClick up to its await, if anybody watches.              *)
NewsArrives(c) ==
  /\ Alive /\ news[c] > 0
  /\ news' = [news EXCEPT ![c] = @ - 1]
  /\ fetching' = [fetching EXCEPT ![c] = IF subs[c] = {} THEN @ ELSE @ + 1]
  /\ due' = [s \in Streams |-> IF s \in subs[c] THEN clicks[c] ELSE due[s]]
  /\ UNCHANGED <<clicks, streamVars, processVars, browserVars, failures>>

(* The statistics arrive: one 'analytics' event for each member of the set.*)
Broadcast(c) ==
  /\ Alive /\ fetching[c] > 0
  /\ fetching' = [fetching EXCEPT ![c] = @ - 1]
  /\ frames' = [s \in Streams |->
                  IF s \in subs[c] \cap up THEN frames[s] \cup {"analytics"} ELSE frames[s]]
  /\ UNCHANGED <<clickVars, conns, subs, request, up, processVars, browserVars, failures, due>>

(* getUrlAnalytics rejects: a warning, and nobody is told.                 *)
FetchFails(c) ==
  /\ Alive /\ fetching[c] > 0 /\ Fails
  /\ fetching' = [fetching EXCEPT ![c] = @ - 1]
  /\ due' = [s \in Streams |-> IF s \in subs[c] /\ fetching[c] = 1 THEN 0 ELSE due[s]]
  /\ UNCHANGED <<clickVars, streamVars, processVars, browserVars>>

-----------------------------------------------------------------------------
(* shutdown(): the server accepts nothing more.                            *)
Sigterm ==
  /\ server = "running"
  /\ server' = "closing"
  /\ UNCHANGED <<clickVars, fetching, streamVars, drained, browserVars, failures, due>>

(* server.close calls back when every connection has ended, and only then  *)
(* sseManager.close() runs: its 'shutdown' event has nobody left to reach. *)
ServerClosed ==
  /\ server = "closing" /\ up = {}
  /\ server' = "sseClosed"
  /\ conns' = {} /\ subs' = [c \in Codes |-> {}]
  /\ request' = [s \in Streams |-> IF s \in conns THEN Free ELSE request[s]]
  /\ fetching' = [c \in Codes |-> 0] /\ due' = [s \in Streams |-> 0]
  /\ UNCHANGED <<clickVars, up, frames, drained, browserVars, failures>>

WorkerStops ==
  /\ server = "sseClosed"
  /\ server' = "workerStopped"
  /\ UNCHANGED <<clickVars, fetching, streamVars, drained, browserVars, failures, due>>

(* The publisher, the subscriber, the pool and Redis follow.  exitCode is  *)
(* 0, but the purge interval keeps the process alive.                      *)
RestCloses ==
  /\ server = "workerStopped"
  /\ server' = "drained" /\ drained' = TRUE
  /\ UNCHANGED <<clickVars, fetching, streamVars, browserVars, failures, due>>

(* The ten-second guard, process.exit(1).  Ten seconds are longer than any *)
(* step of the shutdown: only a wait for clients, or for nothing, is cut.  *)
ForceExit ==
  /\ server = "drained" \/ (server = "closing" /\ up # {})
  /\ server' = "exited"
  /\ conns' = {} /\ up' = {} /\ subs' = [c \in Codes |-> {}]
  /\ request' = [s \in Streams |-> Free] /\ frames' = [s \in Streams |-> {}]
  /\ fetching' = [c \in Codes |-> 0] /\ due' = [s \in Streams |-> 0]
  /\ news' = [c \in Codes |-> 0]
  /\ UNCHANGED <<clicks, drained, browserVars, failures>>

(* The restart policy brings the API back.                                 *)
Restart ==
  /\ server = "exited"
  /\ server' = "running" /\ drained' = FALSE
  /\ UNCHANGED <<clickVars, fetching, streamVars, browserVars, failures, due>>

-----------------------------------------------------------------------------
Reconnects(b) == (\E s \in Streams : Connect(b, s)) \/ StreamLost(b)
QueryStep(b) == QueryServed(b) \/ QueryArrives(b) \/ QueryFails(b)
User(b) == ClosePage(b) \/ Refresh(b) \/ \E c \in Codes : OpenPage(b, c)
FetchEnds(c) == Broadcast(c) \/ FetchFails(c)
Answer(s) == Accept(s) \/ TurnAway(s)
ShutdownStep == ServerClosed \/ WorkerStops \/ RestCloses \/ ForceExit \/ Restart

Next ==
  \/ \E b \in Browsers :
       \/ User(b) \/ Reconnects(b) \/ FrameArrives(b) \/ QueryStep(b)
       \/ \E c \in Codes : CacheExpires(b, c)
  \/ \E s \in Streams : Answer(s) \/ StreamBreaks(s) \/ WriteThrows(s)
  \/ \E c \in Codes : Click(c) \/ NewsLost(c) \/ NewsArrives(c) \/ FetchEnds(c)
  \/ Sigterm \/ ShutdownStep

Spec == Init /\ [][Next]_vars

(* The timers and event loops of the browsers and of the API go on, Redis  *)
(* delivers and the restart policy holds.  Users, clicks and signals are   *)
(* not promised, and neither are failures.                                 *)
Fairness ==
  /\ \A b \in Browsers : WF_vars(Reconnects(b)) /\ WF_vars(FrameArrives(b)) /\ WF_vars(QueryStep(b))
  /\ \A s \in Streams : WF_vars(Answer(s))
  /\ \A c \in Codes : WF_vars(NewsArrives(c)) /\ WF_vars(FetchEnds(c))
  /\ WF_vars(ShutdownStep)

FairSpec == Spec /\ Fairness
-----------------------------------------------------------------------------
(* The two maps agree, so that a broadcast reaches every connection of the *)
(* code and no other, through joins, leaves and shutdown.                  *)
MapsAgree ==
  /\ conns = {s \in Streams : request[s].at = "streaming"}
  /\ \A c \in Codes : subs[c] = {s \in conns : request[s].code = c}

(* A stream has one reader, whose page shows the code it was opened for.   *)
OneReader ==
  /\ \A b \in Browsers : hook[b] = Off <=> page[b] = "none"
  /\ \A b \in Browsers : page[b] = "none" => query[b] = Idle
  /\ \A a, b \in Browsers : \A s \in Streams : Reads(a, s) /\ Reads(b, s) => a = b
  /\ \A b \in Browsers : \A s \in up :
       Reads(b, s) => request[s] # Free /\ request[s].code = page[b]

(* Nothing is announced, or owed to a stream, that was not stored.         *)
NewsIsStored ==
  /\ \A c \in Codes : news[c] + fetching[c] <= clicks[c]
  /\ \A s \in Streams :
       due[s] > 0 => s \in conns /\ due[s] <= clicks[request[s].code]

(* Data never goes back: an answer under way is at least as new as the     *)
(* data it will replace, and both are counts that have been stored.        *)
AnswersAreNewer ==
  /\ \A b \in Browsers : \A c \in Codes : cache[b][c] <= clicks[c]
  /\ \A b \in Browsers :
       query[b].at = "answered" =>
         cache[b][page[b]] <= query[b].n /\ query[b].n <= clicks[page[b]]

(* The types, the registry, and what a page may show.                    *)
IInv == TypeOK /\ MapsAgree /\ OneReader /\ NewsIsStored /\ AnswersAreNewer

Reaches(b, s) ==
  \/ due[s] = 0 \/ cache[b][page[b]] >= due[s]
  \/ fetching[page[b]] > 0 \/ "analytics" \in frames[s]
  \/ query[b] = Asked
  \/ query[b].at = "answered" /\ query[b].n >= due[s]

(* A click that was announced while a dashboard's stream was registered is *)
(* on the page, or something is under way that will bring it there.  Only  *)
(* a failing fetch, or the page's first fetch, excuses the page            *)
(* (sse-realtime-analytics, the end-to-end steps 3 to 5).                  *)
NewsReachesDashboard ==
  \A b \in Browsers : \A s \in up \cap conns : Reads(b, s) => Reaches(b, s)

Registered(b) == \E s \in up \cap conns : Reads(b, s)

(* While a page is open its hook does not rest: it gets a registered       *)
(* stream, unless the user leaves, the server stops or the limit on        *)
(* connections is reached ("The hook owns the full lifecycle").            *)
DashboardConnects ==
  \A b \in Browsers :
    page[b] # "none" ~> \/ page[b] = "none" \/ Registered(b)
                       \/ server # "running" \/ Cardinality(conns) >= MaxConnections
=============================================================================
