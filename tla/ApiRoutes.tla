----------------------------- MODULE ApiRoutes -----------------------------
(***************************************************************************)
(* The API's routes (app.ts, server.ts, routes/): every request walks the  *)
(* layers in the order they were registered and runs the gates of each one *)
(* that takes its path, until a handler answers it or an error does.  The  *)
(* limiters are gates, and what they count is RateLimiter's state.         *)
(*                                                                         *)
(* The order IS the policy: which requests are limited, by which budget,   *)
(* who must be signed in, and which links can be reached at all.           *)
(***************************************************************************)
EXTENDS RateLimiter

CONSTANTS
  Clients,      (* the clients' addresses                                  *)
  Requests,     (* requests in progress at once                            *)
  Routes,       (* what they ask for                                       *)
  Codes,        (* short codes: a word in lower case, whether the code     *)
                (* writes it so, and whether it was generated              *)
  Production,   (* NODE_ENV is production: no docs                         *)
  Nginx,        (* nginx is in front                                       *)
  None

ASSUME ClientsHaveAddresses == Clients \subseteq Addresses
(* A private address is told to be a proxy's (client-ip.ts:30-50).         *)
ASSUME ClientsArePublic == Clients \cap Private = {}
ASSUME NoCode == None \notin Codes
ASSUME Switches == Production \in BOOLEAN /\ Nginx \in BOOLEAN
ASSUME FourBudgets ==
  Budgets = {"auth:credentials", "urls:write", "urls:read", "urls:guest-create"}

VARIABLES
  session,      (* per client: whether its session is alive                *)
  links,        (* the codes in urls                                       *)
  request       (* per request: what it carries, where it is, and whether  *)
                (* its client wrote an address header (history)            *)

vars == <<limiter, session, links, request>>

-----------------------------------------------------------------------------
(* A layer: the routes it takes, the gates it runs for them, the routes    *)
(* its router answers and the handler that does; the others fall through.  *)
Use(routes, gates, served, by) ==
  [takes |-> routes, gates |-> gates, serves |-> served, by |-> by]

On(routes, gates, by) == Use(routes, gates, routes, by)

(* Single-segment paths that mean something before they are codes.         *)
Words == {"health", "ready", "metrics", "docs", "nginx-health"}
UnderUrls ==
  {"create", "claim", "list", "details", "analytics", "stream", "delete", "no such url route"}

Limit(budget) == [kind |-> "limit", budget |-> budget]
RequireAuth == [kind |-> "requireAuth"]
Identify == [kind |-> "identify"]
CreateBudget == [kind |-> "createBudget"]

When(condition, routes) == IF condition THEN routes ELSE {}

(* createApp in the order of its lines; server.ts adds the stream last.    *)
Reads == {"list", "details", "analytics"}
UrlsRouter == Use(UnderUrls, <<Limit("urls:write"), RequireAuth>>, {"delete"}, "urls")

LayersFrom(claim, list, stats, urls) ==
  <<On(When(Nginx, {"nginx-health"}), <<>>, "nginx"),
    On({"health"}, <<>>, "health"),
    On({"ready"}, <<>>, "ready"),
    On({"metrics"}, <<>>, "metrics"),
    On(When(~Production, {"docs"}), <<>>, "docs"),
    On({"login"}, <<Limit("auth:credentials")>>, "auth"),
    On({"me", "logout"}, <<RequireAuth>>, "auth"),
    On({"create"}, <<Identify, CreateBudget>>, "createUrl"),
    claim, list, stats, urls,
    On({"root"}, <<>>, "root"),
    On({"link"} \cup Words, <<>>, "redirect"),
    Use(UnderUrls, <<RequireAuth>>, {"stream"}, "sse")>>

Claim == On({"claim"}, <<Limit("urls:read"), RequireAuth>>, "claimGuestLinks")
List == On(Reads, <<Limit("urls:read"), RequireAuth>>, "reads")
Stats == On({"stats"}, <<Limit("urls:read"), RequireAuth>>, "stats")

(* Mutant of Layers: the reads registered after the write-limited router.  *)
LayersWritesFirst == LayersFrom(UrlsRouter, Claim, List, Stats)

Layers == LayersFrom(Claim, List, Stats, UrlsRouter)

(* The first layer after i that takes the route, if any does.              *)
Following(route, i) ==
  LET taking == {j \in (i + 1)..Len(Layers) : route \in Layers[j].takes} IN
  IF taking = {} THEN 0 ELSE Min(taking)

(* Express does not tell upper from lower case in a path.                  *)
RouteOf(code) == IF code.word \in Words THEN code.word ELSE "link"

-----------------------------------------------------------------------------
(* Mutant of Creatable: the reserved words compared as they are written.   *)
CreatableAsWritten(code) ==
  code.generated \/ ~(code.lower /\ code.word \in {"health", "ready", "metrics"})

(* The alias rules, of which a generated code passes none.                 *)
Creatable(code) ==
  code.generated \/ code.word \notin {"health", "ready", "metrics"}

Credentials == {"none", "guest token", "corrupt token", "session"}
Statuses == {"ok", "BadRequest", "Unauthorized", "NotFound", "Conflict",
             "TooManyRequests", "ServiceUnavailable"}

(* Who answers: a layer's handler, one of its gates, registerFallback.     *)
Answerers == {Layers[n].by : n \in DOMAIN Layers} \cup {"", "gate", "fallback"}

Idle == [at |-> "idle"]
Live == [at : {"gate", "answered"}, layer : 0..Len(Layers), gate : 0..3,
         status : Statuses \cup {None}, by : Answerers,
         route : Routes, code : Codes \cup {None}, client : Clients,
         ip : Addresses \cup {Edge}, wrote : BOOLEAN, carries : Credentials,
         user : BOOLEAN, spent : Seq(Budgets)]

TypeOK ==
  /\ LimiterTypeOK
  /\ session \in [Clients -> BOOLEAN]
  /\ links \subseteq Codes
  /\ request \in [Requests -> {Idle} \cup Live]

Init ==
  /\ LimiterInit
  /\ session = [c \in Clients |-> FALSE]
  /\ links = {}
  /\ request = [r \in Requests |-> Idle]

-----------------------------------------------------------------------------
At(r, kinds) ==
  LET q == request[r] IN
  /\ q.at = "gate"
  /\ q.gate <= Len(Layers[q.layer].gates)
  /\ Layers[q.layer].gates[q.gate].kind \in kinds

AtHandler(r) ==
  request[r].at = "gate" /\ request[r].gate > Len(Layers[request[r].layer].gates)

Answered(q, status, by) ==
  [q EXCEPT !.at = "answered", !.layer = 0, !.gate = 0, !.status = status, !.by = by]

(* On to the next layer, or to registerFallback's 404.                     *)
Walked(q, after) ==
  LET next == Following(q.route, after) IN
  IF next = 0 THEN Answered(q, "NotFound", "fallback")
              ELSE [q EXCEPT !.layer = next, !.gate = 1]

Becomes(r, q) == request' = [request EXCEPT ![r] = q]
Passes(r, q) == Becomes(r, [q EXCEPT !.gate = @ + 1])
Refused(r, status) == Becomes(r, Answered(request[r], status, "gate"))

(* GET of a link, POST of a link, anything else.                           *)
Asked ==
  {[route |-> RouteOf(c), code |-> c] : c \in Codes}
    \cup {[route |-> "create", code |-> c] : c \in Codes}
    \cup {[route |-> route, code |-> None] : route \in Routes \ ({"create", "link"} \cup Words)}

Arrive(r) ==
  /\ request[r] = Idle
  /\ \E asked \in Asked, c \in Clients, carries \in Credentials :
       /\ asked.route \in Routes
       /\ carries \in {"guest token", "corrupt token"} => asked.route = "create"
       /\ \E headers \in Arrivals(c) :
            Becomes(r, Walked([at |-> "gate", layer |-> 0, gate |-> 0, status |-> None,
                               by |-> "", route |-> asked.route, code |-> asked.code,
                               client |-> c, ip |-> RealClientIp(headers),
                               wrote |-> headers.wrote, carries |-> carries,
                               user |-> FALSE, spent |-> <<>>], 0))
  /\ UNCHANGED <<limiter, session, links>>

(* The budget of the gate; of a create, by who asks.                       *)
BudgetOf(q) ==
  LET gate == Layers[q.layer].gates[q.gate] IN
  IF gate.kind = "limit" THEN gate.budget
  ELSE IF q.user THEN "urls:write" ELSE "urls:guest-create"

CheckLimit(r) ==
  LET q == [request[r] EXCEPT !.spent = Append(@, BudgetOf(request[r]))]
      k == <<BudgetOf(request[r]), request[r].ip>> IN
  /\ At(r, {"limit", "createBudget"})
  /\ \/ Counted(k, "admitted") /\ Passes(r, q)
     \/ Counted(k, "refused") /\ Becomes(r, Answered(q, "TooManyRequests", "gate"))
     \/ FailedOpen(k) /\ Passes(r, q)
  /\ UNCHANGED <<watched, session, links>>

(* requireAuth, and optionalAuth given an Authorization header.            *)
Authenticate(r) ==
  LET q == request[r] IN
  /\ At(r, {"requireAuth"}) \/ (At(r, {"identify"}) /\ q.carries = "session")
  /\ \/ IF q.carries = "session" /\ session[q.client]
          THEN Passes(r, [q EXCEPT !.user = TRUE])
          ELSE Refused(r, "Unauthorized")
     \/ q.carries = "session" /\ Refused(r, "ServiceUnavailable")
  /\ UNCHANGED <<limiter, session, links>>

(* Mutant of IdentifyGuest: a session that is over makes a guest.          *)
IdentifyGuestOrExpired(r) ==
  LET q == request[r] IN
  /\ At(r, {"identify"})
  /\ q.carries = "session" => ~session[q.client]
  /\ IF q.carries = "corrupt token" THEN Refused(r, "BadRequest") ELSE Passes(r, q)
  /\ UNCHANGED <<limiter, session, links>>

(* optionalAuth without one.                                               *)
IdentifyGuest(r) ==
  LET q == request[r] IN
  /\ At(r, {"identify"}) /\ q.carries # "session"
  /\ IF q.carries = "corrupt token" THEN Refused(r, "BadRequest") ELSE Passes(r, q)
  /\ UNCHANGED <<limiter, session, links>>

(* The layer's router has no handler for the route.                        *)
FallThrough(r) ==
  LET q == request[r] IN
  /\ AtHandler(r) /\ q.route \notin Layers[q.layer].serves
  /\ Becomes(r, Walked(q, q.layer))
  /\ UNCHANGED <<limiter, session, links>>

Serves(r, routes) ==
  /\ AtHandler(r)
  /\ request[r].route \in routes \cap Layers[request[r].layer].serves

Served(r, status) ==
  Becomes(r, Answered(request[r], status, Layers[request[r].layer].by))

ServeLogin(r) ==
  /\ Serves(r, {"login"})
  /\ \/ Served(r, "ok") /\ session' = [session EXCEPT ![request[r].client] = TRUE]
     \/ Served(r, "Unauthorized") /\ UNCHANGED session
  /\ UNCHANGED <<limiter, links>>

ServeLogout(r) ==
  /\ Serves(r, {"logout"})
  /\ session' = [session EXCEPT ![request[r].client] = FALSE]
  /\ Served(r, "ok")
  /\ UNCHANGED <<limiter, links>>

(* A guest has no alias; a taken code is a conflict.                       *)
ServeCreate(r) ==
  LET q == request[r] IN
  /\ Serves(r, {"create"})
  /\ IF ~Creatable(q.code) \/ (~q.user /\ ~q.code.generated)
       THEN Served(r, "BadRequest") /\ UNCHANGED links
       ELSE IF q.code \in links
              THEN Served(r, "Conflict") /\ UNCHANGED links
              ELSE Served(r, "ok") /\ links' = links \cup {q.code}
  /\ UNCHANGED <<limiter, session>>

(* Any other handler: what it answers is for the other modules.            *)
ServeOther(r) ==
  /\ Serves(r, Routes \ {"login", "logout", "create"})
  /\ \E status \in {"ok", "NotFound", "ServiceUnavailable"} : Served(r, status)
  /\ UNCHANGED <<limiter, session, links>>

Finish(r) ==
  /\ request[r].at = "answered"
  /\ Becomes(r, Idle)
  /\ UNCHANGED <<limiter, session, links>>

SessionEnds ==
  /\ \E c \in Clients : session[c] /\ session' = [session EXCEPT ![c] = FALSE]
  /\ UNCHANGED <<limiter, links, request>>

SecondPasses == Tick /\ UNCHANGED <<watched, session, links, request>>
RedisForgets == Forget /\ UNCHANGED <<watched, session, links, request>>

Next ==
  \/ \E r \in Requests :
       \/ Arrive(r) \/ CheckLimit(r) \/ Authenticate(r) \/ IdentifyGuest(r)
       \/ FallThrough(r) \/ ServeLogin(r) \/ ServeLogout(r) \/ ServeCreate(r)
       \/ ServeOther(r) \/ Finish(r)
  \/ SessionEnds \/ SecondPasses \/ RedisForgets

Spec == Init /\ [][Next]_vars

(* Redis' clock runs.                                                      *)
FairSpec == Spec /\ WF_vars(SecondPasses)

-----------------------------------------------------------------------------
ServedByHandler(q) == q.at = "answered" /\ q.by \notin {"gate", "fallback"}

(* What a request spends, as app.ts:150-153 and :175-177 say of every      *)
(* route but the stream, which spends a write.                             *)
Policy(route, user) ==
  CASE route = "login" -> <<"auth:credentials">>
    [] route = "create" -> <<IF user THEN "urls:write" ELSE "urls:guest-create">>
    [] route \in {"delete", "stream"} -> <<"urls:write">>
    [] route \in {"claim", "list", "details", "analytics", "stats"} -> <<"urls:read">>
    [] OTHER -> <<>>

(* The order of registration gives every route one budget, its own, and    *)
(* none to the health checks and the redirects (app.ts:159-163, :203); it  *)
(* is counted under the client's own address, whatever proxies it came     *)
(* through (rate-limiter.ts:37-39), unless the client wrote one of the     *)
(* headers that tell it: client-ip.ts believes those of anyone.            *)
OwnBudget(q) ==
  ServedByHandler(q) =>
    q.spent = Policy(q.route, q.user) /\ (q.wrote \/ q.ip = q.client)
OneBudgetEach == \A r \in Requests : OwnBudget(request[r])

(* A handler acts for an account exactly when the request carries a        *)
(* session: one that is over never creates a link for a guest, and no      *)
(* private route is served without one (require-auth.ts:52-58).            *)
Protected(route) ==
  (Policy(route, TRUE) # <<>> \/ route \in {"me", "logout"}) /\ route # "login"
OwnAccount(q) ==
  ServedByHandler(q) /\ Protected(q.route) =>
    /\ q.user <=> q.carries = "session"
    /\ q.route # "create" => q.user
NeverDowngraded == \A r \in Requests : OwnAccount(request[r])

(* The request for a link that was created reaches the redirect handler:   *)
(* no other route shadows it (app.ts:232-234, shared/src/reserved.ts:2).   *)
Reaches(q) == q.at = "answered" /\ q.route # "create" => q.by = "redirect"
LinksReachable ==
  \A r \in Requests : request[r] # Idle /\ request[r].code \in links => Reaches(request[r])

-----------------------------------------------------------------------------
(* What makes these inductive.                                             *)

(* A gate of these kinds lies behind the request.                          *)
Passed(q, kinds) ==
  \E n \in 1..q.layer :
    /\ q.route \in Layers[n].takes
    /\ \E g \in DOMAIN Layers[n].gates :
         (n = q.layer => g < q.gate) /\ Layers[n].gates[g].kind \in kinds

(* A request at a layer has left behind those that take it, unanswered,    *)
(* and what their gates ask for.                                           *)
OnItsWay(q) ==
  /\ q.layer \in DOMAIN Layers /\ q.route \in Layers[q.layer].takes
  /\ q.gate \in 1..(Len(Layers[q.layer].gates) + 1)
  /\ \A n \in 1..(q.layer - 1) : q.route \notin Layers[n].serves
  /\ q.route # "no such url route" =>
       q.spent = IF Passed(q, {"limit", "createBudget"})
                   THEN Policy(q.route, q.user) ELSE <<>>
  /\ Passed(q, {"requireAuth"}) => q.user
  /\ Passed(q, {"identify"}) /\ q.carries = "session" => q.user

AskedFor(q) ==
  /\ q.wrote \/ q.ip = q.client
  /\ q.code # None /\ q.route # "create" => q.route = RouteOf(q.code)
  /\ q.route = "create" => q.code # None
  /\ q.user => q.carries = "session"

RequestsInOrder ==
  \A r \in Requests :
    LET q == request[r] IN
    /\ q # Idle => AskedFor(q)
    /\ q.at = "gate" => OnItsWay(q)
    /\ OwnBudget(q) /\ OwnAccount(q)

(* The types, every counter of the budget expires, and the way of a request*)
(* through the layers.                                                     *)
IInv == TypeOK /\ CountersExpire /\ WindowsApart /\ RequestsInOrder
=============================================================================
