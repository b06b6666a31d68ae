-------------------------- MODULE AccountSessions --------------------------
(***************************************************************************)
(* Accounts, bearer sessions and one browser tab signed in with them (the  *)
(* API's auth/, the web's lib/api/client.ts and features/auth).            *)
(*                                                                         *)
(* A tab has several requests in flight, each with the token it was sent   *)
(* with, and hears their answers in any order.  The token is in            *)
(* sessionStorage, which no other tab reads.                               *)
(***************************************************************************)
EXTENDS Naturals

CONSTANTS
  Users,        (* accounts, by e-mail address                             *)
  Tokens,       (* bearer tokens the API may issue                         *)
  Requests,     (* requests that may be in flight at once                  *)
  MaxReloads,   (* page loads after the first                              *)
  None          (* null                                                    *)

(* A cached user is told from the cache's undefined and null.              *)
ASSUME UsersAreAddresses == {"unset", "null"} \cap Users = {}
ASSUME NoneIsNoValue == None \notin Users \cup Tokens \cup Requests
ASSUME MaxReloadsNatural == MaxReloads \in Nat

VARIABLES
  accounts,   (* users: the addresses registered                           *)
  sessions,   (* per token: its row in sessions                            *)
  token,      (* sessionStorage's shortly.session                          *)
  ready,      (* AuthProvider has mounted                                  *)
  held,       (* AuthProvider's copy of the token                          *)
  me,         (* the query cache's ['auth', 'me']                          *)
  screen,     (* the page: behind RequireAuth, or public, as the sign-in   *)
              (* form is                                                   *)
  request,    (* per request: what it carried and where it is              *)
  reloads,    (* page loads so far                                         *)
  outrun      (* history: the last answer stored in "me" was to an older   *)
              (* token than the one stored                                 *)

api == <<accounts, sessions>>
tab == <<token, ready, held, me, screen>>
vars == <<api, tab, request, reloads, outrun>>

NoSession == [state |-> "none", user |-> None]
Idle == [at |-> "idle"]
Kinds == {"me", "read", "logout", "login", "register", "registered"}
SignIns == {"login", "register", "registered"}
Answers ==
  [says : {"ok"}, user : Users \cup {None}, token : Tokens \cup {None}]
    \cup [says : {"unauthorized", "failed"}]

TypeOK ==
  /\ accounts \subseteq Users
  /\ sessions \in [Tokens -> {NoSession}
                     \cup [state : {"live", "expired", "deleted"}, user : Users]]
  /\ token \in Tokens \cup {None}
  /\ ready \in BOOLEAN
  /\ held \in Tokens \cup {None}
  /\ me \in [data : Users \cup {"unset", "null"}, fetch : Requests \cup {None}]
  /\ screen \in {"private", "public"}
  /\ request \in [Requests ->
       {Idle}
         \cup [at : {"sent"}, kind : Kinds, user : Users \cup {None},
               token : Tokens \cup {None}]
         \cup [at : {"answered"}, kind : Kinds, token : Tokens \cup {None},
               answer : Answers]]
  /\ reloads \in 0..MaxReloads
  /\ outrun \in BOOLEAN

Init ==
  /\ accounts \in SUBSET Users
  /\ sessions = [k \in Tokens |-> NoSession]
  /\ token = None
  /\ ready = FALSE
  /\ held = None
  /\ me = [data |-> "unset", fetch |-> None]
  /\ screen \in {"private", "public"}
  /\ request = [r \in Requests |-> Idle]
  /\ reloads = 0
  /\ outrun = FALSE

Live(k) == k # None /\ sessions[k].state = "live"

(* AuthProvider's user and isLoading.                                      *)
User == IF held = None \/ me.data \notin Users THEN None ELSE me.data

(* Mutant of Loading: waits for data, with or without a fetch under way.   *)
Pending == ~ready \/ (held # None /\ me.data = "unset")

Loading == ~ready \/ (held # None /\ me.data = "unset" /\ me.fetch # None)

-----------------------------------------------------------------------------
(* The API.                                                                *)

Answer(r, answer) ==
  request' = [request EXCEPT ![r] =
                [at |-> "answered", kind |-> @.kind, token |-> @.token, answer |-> answer]]

Ok(user, issued) == [says |-> "ok", user |-> user, token |-> issued]
Unauthorized == [says |-> "unauthorized"]
Failed == [says |-> "failed"]

Sent(r, kinds) == request[r].at = "sent" /\ request[r].kind \in kinds

(* Mutant of Resolve: a lookup that fails answers 401 as well.             *)
ResolveOrReject(r) ==
  LET q == request[r] IN
  /\ Sent(r, {"me", "read"})
  /\ \/ Live(q.token) /\ Answer(r, Ok(sessions[q.token].user, None))
     \/ Answer(r, Unauthorized)
  /\ UNCHANGED <<api, tab, reloads, outrun>>

(* requireAuth: an unexpired row for the token's hash, or 401.             *)
Resolve(r) ==
  LET q == request[r] IN
  /\ Sent(r, {"me", "read"})
  /\ IF Live(q.token)
       THEN Answer(r, Ok(sessions[q.token].user, None))
       ELSE Answer(r, Unauthorized)
  /\ UNCHANGED <<api, tab, reloads, outrun>>

(* logout: requireAuth, then the row is deleted.                           *)
Revoke(r) ==
  LET q == request[r] IN
  /\ Sent(r, {"logout"})
  /\ IF Live(q.token)
       THEN /\ sessions' = [sessions EXCEPT ![q.token].state = "deleted"]
            /\ Answer(r, Ok(None, None))
       ELSE /\ Answer(r, Unauthorized)
            /\ UNCHANGED sessions
  /\ UNCHANGED <<accounts, tab, reloads, outrun>>

(* register's first statement: users_email_unique lets one of two win.     *)
CreateUser(r) ==
  LET q == request[r] IN
  /\ Sent(r, {"register"})
  /\ IF q.user \in accounts
       THEN /\ Answer(r, Failed)
            /\ UNCHANGED accounts
       ELSE /\ accounts' = accounts \cup {q.user}
            /\ request' = [request EXCEPT ![r].kind = "registered"]
  /\ UNCHANGED <<sessions, tab, reloads, outrun>>

(* issueSession, after the password or the registration is accepted.       *)
IssueSession(r) ==
  LET q == request[r] IN
  /\ Sent(r, {"login", "registered"})
  /\ q.user \in accounts
  /\ \E k \in Tokens :
       /\ sessions[k] = NoSession
       /\ sessions' = [sessions EXCEPT ![k] = [state |-> "live", user |-> q.user]]
       /\ Answer(r, Ok(q.user, k))
  /\ UNCHANGED <<accounts, tab, reloads, outrun>>

(* A wrong password and an unknown address are the same 401.               *)
RefuseLogin(r) ==
  /\ Sent(r, {"login"})
  /\ Answer(r, Unauthorized)
  /\ UNCHANGED <<api, tab, reloads, outrun>>

(* A limiter's 429, a database error, a crash, a timeout, a lost answer:   *)
(* whatever the API has done by then stays done.                           *)
RequestFails(r) ==
  /\ request[r].at # "idle"
  /\ request' = [request EXCEPT ![r] =
                   [at |-> "answered", kind |-> @.kind, token |-> @.token, answer |-> Failed]]
  /\ UNCHANGED <<api, tab, reloads, outrun>>

SessionExpires ==
  /\ \E k \in Tokens :
       /\ sessions[k].state = "live"
       /\ sessions' = [sessions EXCEPT ![k].state = "expired"]
  /\ UNCHANGED <<accounts, tab, request, reloads, outrun>>

(* purgeExpiredSessions.                                                   *)
PurgeExpired ==
  /\ \E k \in Tokens : sessions[k].state = "expired"
  /\ sessions' = [k \in Tokens |-> IF sessions[k].state = "expired"
                                     THEN [sessions[k] EXCEPT !.state = "deleted"]
                                     ELSE sessions[k]]
  /\ UNCHANGED <<accounts, tab, request, reloads, outrun>>

-----------------------------------------------------------------------------
(* The tab.                                                                *)

(* The me query's request, under the token stored when it is sent.         *)
MeRequest(k) == [at |-> "sent", kind |-> "me", user |-> None, token |-> k]

(* AuthProvider's effect reads the token, and the query it enables starts. *)
Mount ==
  /\ ~ready
  /\ ready' = TRUE
  /\ held' = token
  /\ IF token = None
       THEN UNCHANGED <<me, request>>
       ELSE \E r \in Requests :
              /\ request[r] = Idle
              /\ me' = [me EXCEPT !.fetch = r]
              /\ request' = [request EXCEPT ![r] = MeRequest(token)]
  /\ UNCHANGED <<api, token, screen, reloads, outrun>>

(* A page load: sessionStorage survives, everything else starts again.     *)
Reload ==
  /\ ready /\ reloads < MaxReloads
  /\ reloads' = reloads + 1
  /\ ready' = FALSE
  /\ held' = None
  /\ me' = [data |-> "unset", fetch |-> None]
  /\ request' = [r \in Requests |-> Idle]
  /\ outrun' = FALSE
  /\ UNCHANGED <<api, token, screen>>

Navigate ==
  /\ screen' \in {"private", "public"} \ {screen}
  /\ UNCHANGED <<api, token, ready, held, me, request, reloads, outrun>>

Send(kind, user) ==
  /\ \E r \in Requests :
       /\ request[r] = Idle
       /\ request' = [request EXCEPT ![r] =
                        [at |-> "sent", kind |-> kind, user |-> user, token |-> token]]
  /\ UNCHANGED <<api, tab, reloads, outrun>>

(* The sign-in form, which is disabled while it submits.                   *)
Submit ==
  /\ ready /\ screen = "public"
  /\ \A r \in Requests :
       request[r] # Idle => request[r].kind \notin SignIns
  /\ \E u \in Users, kind \in {"login", "register"} : Send(kind, u)

SendLogout == ready /\ User # None /\ Send("logout", None)

(* Any other request under the token: lists, analytics, deletes, creates,  *)
(* the claim.                                                              *)
SendRead == ready /\ token # None /\ Send("read", None)

(* The query is refetched when the network comes back.                     *)
Refetch ==
  /\ ready /\ held # None /\ me.fetch = None
  /\ \E r \in Requests :
       /\ request[r] = Idle
       /\ me' = [me EXCEPT !.fetch = r]
       /\ request' = [request EXCEPT ![r] = MeRequest(token)]
  /\ UNCHANGED <<api, token, ready, held, screen, reloads, outrun>>

Heard(r, says, kinds) ==
  /\ request[r].at = "answered"
  /\ request[r].answer.says \in says
  /\ request[r].kind \in kinds

Fetched(r) == IF me.fetch = r THEN None ELSE me.fetch

(* Mutant of HearSession: the query's data is left to the fetch.           *)
HearSessionKeepingUser(r) ==
  LET answer == request[r].answer IN
  /\ Heard(r, {"ok"}, SignIns)
  /\ token' = answer.token
  /\ held' = answer.token
  /\ screen' = "private"
  /\ outrun' = FALSE
  /\ me' = [me EXCEPT !.fetch = IF @ = None /\ held = None THEN r ELSE @]
  /\ request' = [request EXCEPT ![r] = IF me'.fetch = r THEN MeRequest(answer.token) ELSE Idle]
  /\ UNCHANGED <<api, ready, reloads>>

(* accept: the session replaces whatever the tab had.  Enabling the query  *)
(* fetches, unless it is enabled or fetching already.                      *)
HearSession(r) ==
  LET answer == request[r].answer IN
  /\ Heard(r, {"ok"}, SignIns)
  /\ token' = answer.token
  /\ held' = answer.token
  /\ screen' = "private"
  /\ outrun' = FALSE
  /\ me' = [data |-> answer.user,
            fetch |-> IF me.fetch = None /\ held = None THEN r ELSE me.fetch]
  /\ request' = [request EXCEPT ![r] = IF me'.fetch = r THEN MeRequest(answer.token) ELSE Idle]
  /\ UNCHANGED <<api, ready, reloads>>

(* The query's answer, if the query still waits for it.                    *)
HearMe(r) ==
  /\ Heard(r, {"ok", "failed"}, {"me"})
  /\ IF me.fetch = r /\ request[r].answer.says = "ok"
       THEN /\ me' = [data |-> request[r].answer.user, fetch |-> None]
            /\ outrun' = (request[r].token # token)
       ELSE /\ me' = [me EXCEPT !.fetch = Fetched(r)]
            /\ UNCHANGED outrun
  /\ request' = [request EXCEPT ![r] = Idle]
  /\ UNCHANGED <<api, token, ready, held, screen, reloads>>

(* Mutant of HearUnauthorized: the event reaches no listener.              *)
HearUnauthorizedDeaf(r) ==
  /\ Heard(r, {"unauthorized"}, {"me", "read", "login"})
  /\ token' = None
  /\ me' = [me EXCEPT !.fetch = Fetched(r)]
  /\ request' = [request EXCEPT ![r] = Idle]
  /\ UNCHANGED <<api, ready, held, screen, reloads, outrun>>

(* apiRequest on any 401: the stored token goes, whichever it is, and the  *)
(* event tells AuthProvider.                                               *)
HearUnauthorized(r) ==
  /\ Heard(r, {"unauthorized"}, {"me", "read", "login"})
  /\ token' = None
  /\ held' = None
  /\ me' = [data |-> "null", fetch |-> Fetched(r)]
  /\ outrun' = FALSE
  /\ request' = [request EXCEPT ![r] = Idle]
  /\ UNCHANGED <<api, ready, screen, reloads>>

(* logout, whatever was answered: token and query go; the menu leads to    *)
(* the sign-in page unless the request failed.                             *)
HearLogout(r) ==
  /\ Heard(r, {"ok", "unauthorized", "failed"}, {"logout"})
  /\ token' = None
  /\ held' = None
  /\ me' = [data |-> "unset", fetch |-> None]
  /\ screen' = IF request[r].answer.says = "failed" THEN screen ELSE "public"
  /\ outrun' = FALSE
  /\ request' = [request EXCEPT ![r] = Idle]
  /\ UNCHANGED <<api, ready, reloads>>

(* Any other answer changes nothing here.                                  *)
HearOther(r) ==
  /\ \/ Heard(r, {"ok", "failed"}, {"read"})
     \/ Heard(r, {"failed"}, SignIns)
  /\ request' = [request EXCEPT ![r] = Idle]
  /\ UNCHANGED <<api, tab, reloads, outrun>>

(* RequireAuth sends an anonymous visitor of a private page to sign in.    *)
RedirectToSignIn ==
  /\ screen = "private" /\ ~Loading /\ User = None
  /\ screen' = "public"
  /\ UNCHANGED <<api, token, ready, held, me, request, reloads, outrun>>

Serve(r) ==
  Resolve(r) \/ Revoke(r) \/ CreateUser(r) \/ IssueSession(r) \/ RefuseLogin(r)
    \/ RequestFails(r)

Hear(r) ==
  HearSession(r) \/ HearMe(r) \/ HearUnauthorized(r) \/ HearLogout(r) \/ HearOther(r)

Next ==
  \/ \E r \in Requests : Serve(r) \/ Hear(r)
  \/ SessionExpires \/ PurgeExpired
  \/ Mount \/ Reload \/ Navigate \/ Submit \/ SendLogout \/ SendRead \/ Refetch
  \/ RedirectToSignIn

Spec == Init /\ [][Next]_vars

(* Every request ends, by an answer or by apiRequest's timeout; React runs *)
(* its effects.                                                            *)
Fairness ==
  /\ \A r \in Requests : WF_vars(Serve(r) /\ request[r].at = "sent") /\ WF_vars(Hear(r))
  /\ WF_vars(Mount)
  /\ SF_vars(RedirectToSignIn)

FairSpec == Spec /\ Fairness

-----------------------------------------------------------------------------
(* React's copy of the token is the stored one.                            *)
CopiesAgree == ready => held = token

(* A 401 to a request that is not a sign-in means its session is over.     *)
RejectedIsDead ==
  \A r \in Requests :
    /\ request[r].at = "answered" /\ request[r].answer.says = "unauthorized"
    /\ request[r].kind # "login"
    => ~Live(request[r].token)

Issued(k) == k \in Tokens /\ sessions[k].state # "none"
Owns(user, k) == Issued(k) /\ sessions[k].user = user

(* No token is made up, so that one that was rejected is never issued.     *)
OnlyIssuedTokens ==
  /\ token # None => Issued(token)
  /\ \A r \in Requests :
       request[r].at # "idle" => request[r].token = None \/ Issued(request[r].token)

(* An answer names the owner of the session it is about.                   *)
AnswersNameOwner ==
  \A r \in Requests :
    /\ Heard(r, {"ok"}, {"me"}) => Owns(request[r].answer.user, request[r].token)
    /\ Heard(r, {"ok"}, SignIns) => Owns(request[r].answer.user, request[r].answer.token)

(* The form submits an address.                                            *)
FormsNameUsers ==
  \A r \in Requests : Sent(r, SignIns) => request[r].user \in Users

(* Before AuthProvider has mounted the page acts for nobody.               *)
NothingBeforeMount ==
  ~ready => held = None /\ \A r \in Requests : request[r] = Idle

(* A cached user owns the stored session, but for late answers.            *)
CachedUserOwnsSession ==
  me.data \in Users /\ ~outrun => Owns(me.data, token)

(* The types, and what the tab and its requests know of sessions.          *)
IInv ==
  /\ TypeOK
  /\ CopiesAgree
  /\ RejectedIsDead
  /\ OnlyIssuedTokens
  /\ AnswersNameOwner
  /\ FormsNameUsers
  /\ NothingBeforeMount
  /\ CachedUserOwnsSession

(* The user the tab shows is the owner of the session it acts with, unless *)
(* an answer to an older token came late (auth-context.tsx:67, :77).       *)
ShownUserOwnsSession ==
  User # None /\ ~outrun => sessions[token].user = User

(* A tab loses a live session only to a logout, a sign-in, right or wrong, *)
(* or a 401 to an older token: never to a request made under it            *)
(* (client.ts:120).                                                        *)
LiveSessionKept ==
  [][Live(token) /\ token' # token =>
       \E r \in Requests :
         /\ request[r].at = "answered" /\ request'[r] # request[r]
         /\ request[r].kind \notin {"logout"} \cup SignIns => request[r].token # token]_vars

(* "Checking session" ends: a private page's visitor is shown it as a user *)
(* or is led to sign in (require-auth.tsx:9).                              *)
CheckingEnds == screen = "private" ~> screen # "private" \/ User # None
=============================================================================
