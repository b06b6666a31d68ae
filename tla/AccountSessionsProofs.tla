----------------------- MODULE AccountSessionsProofs -----------------------
(***************************************************************************)
(* Proofs about AccountSessions for any accounts, tokens, requests in      *)
(* flight and reloads: the tab shows the owner of the session it acts      *)
(* with, and no request made under a live session makes it sign out.       *)
(***************************************************************************)
EXTENDS AccountSessions, TLAPS

-----------------------------------------------------------------------------
(* What IInv says of one request, of the sessions in a given state.        *)
SessionRows ==
  [Tokens -> {NoSession} \cup [state : {"live", "expired", "deleted"}, user : Users]]

SentRecords ==
  [at : {"sent"}, kind : Kinds, user : Users \cup {None}, token : Tokens \cup {None}]
AnsweredRecords ==
  [at : {"answered"}, kind : Kinds, token : Tokens \cup {None}, answer : Answers]
RequestRecords == {Idle} \cup SentRecords \cup AnsweredRecords

IssuedIn(s, k) == k \in Tokens /\ s[k].state # "none"
OwnsIn(s, user, k) == IssuedIn(s, k) /\ s[k].user = user
LiveIn(s, k) == k # None /\ s[k].state = "live"

SoundIn(s, q) ==
  /\ q.at # "idle" => q.token = None \/ IssuedIn(s, q.token)
  /\ q.at = "sent" /\ q.kind \in SignIns => q.user \in Users
  /\ q.at = "answered" /\ q.answer.says = "ok" =>
       /\ q.kind = "me" => OwnsIn(s, q.answer.user, q.token)
       /\ q.kind \in SignIns => OwnsIn(s, q.answer.user, q.answer.token)
  /\ q.at = "answered" /\ q.answer.says = "unauthorized" /\ q.kind # "login" =>
       ~LiveIn(s, q.token)

RequestsSound ==
  /\ request \in [Requests -> RequestRecords]
  /\ \A r \in Requests : SoundIn(sessions, request[r])

(* What IInv says of the tab.                                              *)
TabSound ==
  /\ token \in Tokens \cup {None} /\ held \in Tokens \cup {None}
  /\ me \in [data : Users \cup {"unset", "null"}, fetch : Requests \cup {None}]
  /\ ready \in BOOLEAN /\ screen \in {"private", "public"}
  /\ reloads \in 0..MaxReloads /\ outrun \in BOOLEAN
  /\ ready => held = token
  /\ token # None => Issued(token)
  /\ CachedUserOwnsSession

ApiSound == accounts \subseteq Users /\ sessions \in SessionRows

LEMMA InvParts == IInv => ApiSound /\ TabSound /\ RequestsSound
<1> SUFFICES ASSUME IInv PROVE ApiSound /\ TabSound /\ RequestsSound
  OBVIOUS
<1>1. ApiSound
  BY DEF IInv, TypeOK, ApiSound, SessionRows
<1>2. TabSound
  BY DEF IInv, TypeOK, TabSound, CopiesAgree, OnlyIssuedTokens
<1>3. request \in [Requests -> RequestRecords]
  BY DEF IInv, TypeOK, RequestRecords, SentRecords, AnsweredRecords
<1>4. ASSUME NEW r \in Requests PROVE SoundIn(sessions, request[r])
  BY DEF IInv, OnlyIssuedTokens, AnswersNameOwner, FormsNameUsers, RejectedIsDead,
         Heard, Sent, Owns, Issued, Live, SoundIn, OwnsIn, IssuedIn, LiveIn
<1>5. QED BY <1>1, <1>2, <1>3, <1>4 DEF RequestsSound

LEMMA PartsInvNext ==
  ASSUME ApiSound', TabSound', RequestsSound', NothingBeforeMount'
  PROVE  IInv'
<1>1. TypeOK'
  BY DEF TypeOK, ApiSound, TabSound, RequestsSound, SessionRows, RequestRecords,
         SentRecords, AnsweredRecords
<1>2. CopiesAgree' /\ CachedUserOwnsSession'
  BY DEF TabSound, CopiesAgree
<1>3. OnlyIssuedTokens'
  BY DEF TabSound, RequestsSound, OnlyIssuedTokens, SoundIn, Issued, IssuedIn
<1>4. AnswersNameOwner'
  BY DEF RequestsSound, AnswersNameOwner, SoundIn, Heard, Owns, OwnsIn, Issued, IssuedIn
<1>5. FormsNameUsers'
  BY DEF RequestsSound, FormsNameUsers, SoundIn, Sent
<1>6. RejectedIsDead'
  BY DEF RequestsSound, RejectedIsDead, SoundIn, Live, LiveIn
<1>7. QED
  BY <1>1, <1>2, <1>3, <1>4, <1>5, <1>6 DEF IInv

-----------------------------------------------------------------------------
(* Sessions only move from live to over: no token changes hands or revives.*)
Later(s, t) ==
  \A k \in Tokens : s[k].state # "none" =>
    /\ t[k].state # "none"
    /\ t[k].user = s[k].user
    /\ s[k].state # "live" => t[k].state # "live"

LEMMA SoundLasts ==
  ASSUME NEW s, NEW t, Later(s, t), NEW q \in RequestRecords, SoundIn(s, q)
  PROVE  SoundIn(t, q)
<1>1. \A k : IssuedIn(s, k) => IssuedIn(t, k)
  BY DEF IssuedIn, Later
<1>2. \A k, u : OwnsIn(s, u, k) => OwnsIn(t, u, k)
  BY DEF OwnsIn, IssuedIn, Later
<1>3. \A k : IssuedIn(s, k) /\ ~LiveIn(s, k) => ~LiveIn(t, k)
  BY NoneIsNoValue DEF IssuedIn, LiveIn, Later
<1>4. ~LiveIn(t, None)
  BY DEF LiveIn
<1>5. QED
  BY <1>1, <1>2, <1>3, <1>4 DEF SoundIn

(* One session of a token changes: issued, revoked, expired or purged.     *)
LEMMA SessionsStep ==
  ASSUME ApiSound, RequestsSound, [Next]_vars
  PROVE  sessions' \in SessionRows /\ Later(sessions, sessions')
<1> USE DEF ApiSound, SessionRows
<1>1. CASE sessions' = sessions
  BY <1>1 DEF Later
<1>2. ASSUME NEW k \in Tokens, sessions[k].state = "live",
             NEW over \in {"expired", "deleted"},
             sessions' = [sessions EXCEPT ![k].state = over]
      PROVE  sessions' \in SessionRows /\ Later(sessions, sessions')
  <2>1. sessions[k] \in [state : {"live", "expired", "deleted"}, user : Users]
    BY <1>2 DEF NoSession
  <2>2. [sessions[k] EXCEPT !.state = over] \in
          [state : {"live", "expired", "deleted"}, user : Users]
    BY <2>1
  <2>3. [sessions[k] EXCEPT !.state = over].user = sessions[k].user
    BY <2>1
  <2>4. [sessions[k] EXCEPT !.state = over].state = over
    BY <2>1
  <2> DEFINE new == [sessions[k] EXCEPT !.state = over]
  <2>5. sessions' = [sessions EXCEPT ![k] = new]
    BY <1>2
  <2> HIDE DEF new
  <2>6. /\ new \in [state : {"live", "expired", "deleted"}, user : Users]
        /\ new.user = sessions[k].user /\ new.state = over
    BY <2>2, <2>3, <2>4 DEF new
  <2>7. sessions' \in SessionRows
    BY <2>5, <2>6
  <2>8. \A j \in Tokens : sessions'[j] = IF j = k THEN new ELSE sessions[j]
    BY <2>5
  <2>9. QED
    BY <1>2, <2>6, <2>7, <2>8 DEF Later
<1>3. ASSUME NEW r \in Requests, Revoke(r)
      PROVE  sessions' \in SessionRows /\ Later(sessions, sessions')
  <2>1. CASE Live(request[r].token)
    <3>1. request[r].token \in Tokens
      BY <1>3, <2>1
      DEF Revoke, Sent, Live, RequestsSound, RequestRecords, Idle, SentRecords,
          AnsweredRecords
    <3>2. QED
      BY <1>2, <1>3, <2>1, <3>1 DEF Revoke, Live
  <2>2. QED
    BY <1>1, <1>3, <2>1 DEF Revoke
<1>4. ASSUME NEW r \in Requests, IssueSession(r)
      PROVE  sessions' \in SessionRows /\ Later(sessions, sessions')
  <2>1. PICK k \in Tokens :
          /\ sessions[k] = NoSession
          /\ sessions' = [sessions EXCEPT ![k] =
                            [state |-> "live", user |-> request[r].user]]
    BY <1>4 DEF IssueSession
  <2>2. request[r].user \in Users
    BY <1>4 DEF IssueSession
  <2>3. sessions[k].state = "none"
    BY <2>1 DEF NoSession
  <2>4. [state |-> "live", user |-> request[r].user] \in
          [state : {"live", "expired", "deleted"}, user : Users]
    BY <2>2
  <2>5. QED
    BY <2>1, <2>3, <2>4 DEF Later
<1>5. CASE SessionExpires
  BY <1>2, <1>5 DEF SessionExpires
<1>6. CASE PurgeExpired
  <2>1. ASSUME NEW k \in Tokens
        PROVE  /\ sessions'[k] \in {NoSession}
                    \cup [state : {"live", "expired", "deleted"}, user : Users]
               /\ sessions'[k] = sessions[k] \/ (/\ sessions[k].state = "expired"
                                                 /\ sessions'[k].state = "deleted"
                                                 /\ sessions'[k].user = sessions[k].user)
    <3>1. CASE sessions[k].state = "expired"
      <4>1. sessions[k] \in [state : {"live", "expired", "deleted"}, user : Users]
        BY <3>1 DEF NoSession
      <4>2. sessions'[k] = [sessions[k] EXCEPT !.state = "deleted"]
        BY <1>6, <3>1 DEF PurgeExpired
      <4>3. QED
        BY <3>1, <4>1, <4>2
    <3>2. CASE sessions[k].state # "expired"
      BY <1>6, <3>2 DEF PurgeExpired
    <3>3. QED BY <3>1, <3>2
  <2>2. sessions' \in SessionRows
    BY <1>6, <2>1 DEF PurgeExpired
  <2>3. Later(sessions, sessions')
    BY <2>1 DEF Later
  <2>4. QED BY <2>2, <2>3
<1>7. QED
  BY <1>1, <1>3, <1>4, <1>5, <1>6
  DEF Next, Serve, Hear, Resolve, CreateUser, RefuseLogin, RequestFails, HearSession,
      HearMe, HearUnauthorized, HearLogout, HearOther, Mount, Reload, Navigate, Submit,
      Send, SendLogout, SendRead, Refetch, RedirectToSignIn, vars, api

-----------------------------------------------------------------------------
(* One request changes; the others are as sound as before.                 *)
LEMMA RequestUpdate ==
  ASSUME RequestsSound, Later(sessions, sessions'),
         NEW r \in Requests, NEW x \in RequestRecords, SoundIn(sessions', x),
         request' = [request EXCEPT ![r] = x]
  PROVE  RequestsSound'
<1>1. request' \in [Requests -> RequestRecords]
  BY DEF RequestsSound
<1>2. ASSUME NEW q \in Requests PROVE SoundIn(sessions', request'[q])
  <2>1. CASE q = r
    BY <2>1 DEF RequestsSound
  <2>2. CASE q # r
    <3>1. request'[q] = request[q]
      BY <2>2 DEF RequestsSound
    <3>2. request[q] \in RequestRecords /\ SoundIn(sessions, request[q])
      BY DEF RequestsSound
    <3>3. SoundIn(sessions', request[q])
      BY <3>2, SoundLasts
    <3>4. QED
      BY <3>1, <3>3
  <2>3. QED BY <2>1, <2>2
<1>3. QED
  BY <1>1, <1>2 DEF RequestsSound

LEMMA RequestsKept ==
  ASSUME RequestsSound, Later(sessions, sessions'), request' = request
  PROVE  RequestsSound'
<1>1. ASSUME NEW q \in Requests PROVE SoundIn(sessions', request[q])
  BY SoundLasts DEF RequestsSound
<1>2. QED
  BY <1>1 DEF RequestsSound

LEMMA IdleSound == Idle \in RequestRecords /\ \A s : SoundIn(s, Idle)
BY DEF Idle, RequestRecords, SoundIn

LEMMA RequestForgotten ==
  ASSUME RequestsSound, Later(sessions, sessions'), NEW r \in Requests,
         request' = [request EXCEPT ![r] = Idle]
  PROVE  RequestsSound'
BY RequestUpdate, IdleSound

(* A request that is sent carries no token or an issued one.               *)
LEMMA SentSound ==
  ASSUME NEW s, NEW kind \in Kinds, NEW u \in Users \cup {None},
         NEW k \in Tokens \cup {None}, k # None => IssuedIn(s, k),
         kind \in SignIns => u \in Users
  PROVE  /\ [at |-> "sent", kind |-> kind, user |-> u, token |-> k] \in RequestRecords
         /\ SoundIn(s, [at |-> "sent", kind |-> kind, user |-> u, token |-> k])
BY DEF RequestRecords, SentRecords, SoundIn

LEMMA MeRequestSound ==
  ASSUME NEW s, NEW k \in Tokens \cup {None}, k # None => IssuedIn(s, k)
  PROVE  MeRequest(k) \in RequestRecords /\ SoundIn(s, MeRequest(k))
<1>1. "me" \in Kinds /\ "me" \notin SignIns
  BY DEF Kinds, SignIns
<1>2. QED
  BY <1>1, SentSound DEF MeRequest

(* The answers the API gives.                                              *)
LEMMA AnswersTyped ==
  /\ Unauthorized \in Answers /\ Unauthorized.says = "unauthorized"
  /\ Failed \in Answers /\ Failed.says = "failed"
  /\ \A u \in Users \cup {None}, k \in Tokens \cup {None} :
       /\ Ok(u, k) \in Answers
       /\ Ok(u, k).says = "ok" /\ Ok(u, k).user = u /\ Ok(u, k).token = k
BY DEF Answers, Unauthorized, Failed, Ok

LEMMA BusyRequest ==
  ASSUME RequestsSound, NEW r \in Requests, request[r].at # "idle"
  PROVE  /\ request[r].kind \in Kinds /\ request[r].token \in Tokens \cup {None}
         /\ request[r].at = "sent" => request[r].user \in Users \cup {None}
         /\ request[r].at = "answered" => request[r].answer \in Answers
         /\ request[r].at \in {"sent", "answered"}
<1>1. request[r] \in RequestRecords
  BY DEF RequestsSound
<1>2. CASE request[r] \in SentRecords
  BY <1>2 DEF SentRecords
<1>3. CASE request[r] \in AnsweredRecords
  BY <1>3 DEF AnsweredRecords
<1>4. request[r] # Idle
  BY DEF Idle
<1>5. QED
  BY <1>1, <1>2, <1>3, <1>4 DEF RequestRecords

(* An answer leaves the requests sound if what it says of sessions is true.*)
LEMMA AnswerSound ==
  ASSUME RequestsSound, Later(sessions, sessions'),
         NEW r \in Requests, request[r].at # "idle",
         NEW a \in Answers,
         request' = [request EXCEPT ![r] =
                       [at |-> "answered", kind |-> request[r].kind,
                        token |-> request[r].token, answer |-> a]],
         a.says = "ok" /\ request[r].kind = "me" =>
           OwnsIn(sessions', a.user, request[r].token),
         a.says = "ok" /\ request[r].kind \in SignIns => OwnsIn(sessions', a.user, a.token),
         a.says = "unauthorized" /\ request[r].kind # "login" =>
           ~LiveIn(sessions', request[r].token)
  PROVE  RequestsSound'
<1> DEFINE x == [at |-> "answered", kind |-> request[r].kind,
                 token |-> request[r].token, answer |-> a]
<1>1. x \in RequestRecords
  BY BusyRequest DEF RequestRecords, AnsweredRecords
<1>2. /\ x.at = "answered" /\ x.kind = request[r].kind
      /\ x.token = request[r].token /\ x.answer = a
  OBVIOUS
<1>3. request' = [request EXCEPT ![r] = x]
  OBVIOUS
<1> HIDE DEF x
<1>4. x.token = None \/ IssuedIn(sessions', x.token)
  <2>1. request[r].token = None \/ IssuedIn(sessions, request[r].token)
    BY DEF RequestsSound, SoundIn
  <2>2. QED
    BY <1>2, <2>1 DEF IssuedIn, Later
<1>5. SoundIn(sessions', x)
  BY <1>2, <1>4 DEF SoundIn
<1>6. QED
  BY <1>1, <1>3, <1>5, RequestUpdate

LEMMA AnswerMeans ==
  ASSUME NEW r \in Requests, NEW a, Answer(r, a)
  PROVE  request' = [request EXCEPT ![r] =
                       [at |-> "answered", kind |-> request[r].kind,
                        token |-> request[r].token, answer |-> a]]
BY DEF Answer

-----------------------------------------------------------------------------
(* The API.                                                                *)
LEMMA ServeRequests ==
  ASSUME IInv, NEW r \in Requests, Serve(r)
  PROVE  RequestsSound'
<1>1. ApiSound /\ RequestsSound
  BY InvParts
<1>2. /\ sessions' \in SessionRows
      /\ Later(sessions, sessions')
  BY <1>1, SessionsStep DEF Next
<1>3. CASE Resolve(r)
  <2>1. request[r].at = "sent" /\ request[r].kind \in {"me", "read"} /\ sessions' = sessions
    BY <1>3 DEF Resolve, Sent, api
  <2>2. "me" \notin SignIns /\ "read" \notin SignIns
    BY DEF SignIns
  <2>3. CASE Live(request[r].token)
    <3> DEFINE a == Ok(sessions[request[r].token].user, None)
    <3>1. Answer(r, a)
      BY <1>3, <2>3 DEF Resolve
    <3>2. request[r].token \in Tokens
      BY <1>1, <2>1, <2>3, BusyRequest DEF Live
    <3>3. OwnsIn(sessions, sessions[request[r].token].user, request[r].token)
      BY <2>3, <3>2 DEF OwnsIn, IssuedIn, Live
    <3>4. sessions[request[r].token].user \in Users
      BY <1>1, <2>3, <3>2 DEF ApiSound, SessionRows, Live, NoSession
    <3>5. a \in Answers /\ a.says = "ok" /\ a.user = sessions[request[r].token].user
      BY <3>4, AnswersTyped
    <3> HIDE DEF a
    <3>6. QED
      BY <1>1, <1>2, <2>1, <2>2, <3>1, <3>3, <3>5, AnswerMeans, AnswerSound
  <2>4. CASE ~Live(request[r].token)
    <3>1. Answer(r, Unauthorized)
      BY <1>3, <2>4 DEF Resolve
    <3>2. ~LiveIn(sessions', request[r].token)
      BY <2>1, <2>4 DEF Live, LiveIn
    <3>3. QED
      BY <1>1, <1>2, <2>1, <3>1, <3>2, AnswerMeans, AnswerSound, AnswersTyped
  <2>5. QED BY <2>3, <2>4
<1>4. CASE Revoke(r)
  <2>1. request[r].at = "sent" /\ request[r].kind = "logout"
    BY <1>4 DEF Revoke, Sent
  <2>2. "logout" \notin SignIns
    BY DEF SignIns
  <2>3. CASE Live(request[r].token)
    <3>1. Answer(r, Ok(None, None))
      BY <1>4, <2>3 DEF Revoke
    <3>2. Ok(None, None) \in Answers /\ Ok(None, None).says = "ok"
      BY AnswersTyped
    <3>3. QED
      BY <1>1, <1>2, <2>1, <2>2, <3>1, <3>2, AnswerMeans, AnswerSound
  <2>4. CASE ~Live(request[r].token)
    <3>1. Answer(r, Unauthorized) /\ sessions' = sessions
      BY <1>4, <2>4 DEF Revoke
    <3>2. ~LiveIn(sessions', request[r].token)
      BY <2>4, <3>1 DEF Live, LiveIn
    <3>3. QED
      BY <1>1, <1>2, <2>1, <3>1, <3>2, AnswerMeans, AnswerSound, AnswersTyped
  <2>5. QED BY <2>3, <2>4
<1>5. CASE CreateUser(r)
  <2>1. request[r].at = "sent" /\ request[r].kind = "register"
    BY <1>5 DEF CreateUser, Sent
  <2>2. CASE request[r].user \in accounts
    <3>1. Answer(r, Failed)
      BY <1>5, <2>2 DEF CreateUser
    <3>2. QED
      BY <1>1, <1>2, <2>1, <3>1, AnswerMeans, AnswerSound, AnswersTyped
  <2>3. CASE request[r].user \notin accounts
    <3> DEFINE x == [at |-> "sent", kind |-> "registered", user |-> request[r].user,
                     token |-> request[r].token]
    <3>1. request[r] \in SentRecords
      BY <1>1, <2>1 DEF RequestsSound, RequestRecords, AnsweredRecords, Idle
    <3>2. [request[r] EXCEPT !.kind = "registered"] = x
      BY <3>1 DEF SentRecords
    <3>3. request' = [request EXCEPT ![r].kind = "registered"]
      BY <1>5, <2>3 DEF CreateUser
    <3>4. request' = [request EXCEPT ![r] = x]
      BY <3>2, <3>3
    <3>5. /\ request[r].user \in Users
          /\ request[r].token \in Tokens \cup {None}
          /\ request[r].token # None => IssuedIn(sessions, request[r].token)
      BY <1>1, <2>1, <3>1 DEF RequestsSound, SoundIn, SentRecords, SignIns
    <3>6. request[r].token # None => IssuedIn(sessions', request[r].token)
      BY <1>2, <3>5 DEF IssuedIn, Later
    <3>7. x \in RequestRecords /\ SoundIn(sessions', x)
      BY <3>5, <3>6, SentSound DEF Kinds
    <3> HIDE DEF x
    <3>8. QED
      BY <1>1, <1>2, <3>4, <3>7, RequestUpdate
  <2>4. QED BY <2>2, <2>3
<1>6. CASE IssueSession(r)
  <2>1. /\ request[r].at = "sent" /\ request[r].kind \in {"login", "registered"}
        /\ request[r].user \in Users
    BY <1>1, <1>6 DEF IssueSession, Sent, ApiSound
  <2>2. PICK k \in Tokens :
          /\ sessions' = [sessions EXCEPT ![k] =
                            [state |-> "live", user |-> request[r].user]]
          /\ Answer(r, Ok(request[r].user, k))
    BY <1>6 DEF IssueSession
  <2>3. sessions'[k] = [state |-> "live", user |-> request[r].user]
    BY <1>1, <2>2 DEF ApiSound, SessionRows
  <2>4. OwnsIn(sessions', request[r].user, k)
    BY <2>3 DEF OwnsIn, IssuedIn
  <2> DEFINE a == Ok(request[r].user, k)
  <2>5. a \in Answers /\ a.says = "ok" /\ a.user = request[r].user /\ a.token = k
    BY <2>1, AnswersTyped
  <2>6. Answer(r, a)
    BY <2>2
  <2> HIDE DEF a
  <2>7. QED
    BY <1>1, <1>2, <2>1, <2>4, <2>5, <2>6, AnswerMeans, AnswerSound
<1>7. CASE RefuseLogin(r)
  <2>1. request[r].at = "sent" /\ request[r].kind = "login" /\ Answer(r, Unauthorized)
    BY <1>7 DEF RefuseLogin, Sent
  <2>2. QED
    BY <1>1, <1>2, <2>1, AnswerMeans, AnswerSound, AnswersTyped
<1>8. CASE RequestFails(r)
  <2>1. request[r].at # "idle"
    BY <1>8 DEF RequestFails
  <2>2. request' = [request EXCEPT ![r] =
                      [at |-> "answered", kind |-> request[r].kind,
                       token |-> request[r].token, answer |-> Failed]]
    BY <1>8 DEF RequestFails
  <2>3. QED
    BY <1>1, <1>2, <2>1, <2>2, AnswerSound, AnswersTyped
<1>9. QED
  BY <1>3, <1>4, <1>5, <1>6, <1>7, <1>8 DEF Serve

LEMMA ApiStep ==
  ASSUME IInv, [Next]_vars
  PROVE  ApiSound'
<1>1. ApiSound /\ RequestsSound
  BY InvParts
<1>2. sessions' \in SessionRows
  BY <1>1, SessionsStep
<1>3. CASE accounts' = accounts
  BY <1>1, <1>2, <1>3 DEF ApiSound
<1>4. ASSUME NEW r \in Requests, CreateUser(r) PROVE accounts' \subseteq Users
  <2>1. request[r].at = "sent" /\ request[r].kind = "register"
    BY <1>4 DEF CreateUser, Sent
  <2>2. request[r].user \in Users
    BY <1>1, <2>1 DEF RequestsSound, SoundIn, SignIns
  <2>3. QED
    BY <1>1, <1>4, <2>2 DEF CreateUser, ApiSound
<1>5. QED
  BY <1>2, <1>3, <1>4
  DEF Next, Serve, Hear, Resolve, Revoke, IssueSession, RefuseLogin, RequestFails,
      HearSession, HearMe, HearUnauthorized, HearLogout, HearOther, SessionExpires,
      PurgeExpired, Mount, Reload, Navigate, Submit, Send, SendLogout, SendRead,
      Refetch, RedirectToSignIn, vars, api, ApiSound

(* What is known of the stored token and the cached user outlives changes  *)
(* of the sessions.                                                        *)
LEMMA TabKept ==
  ASSUME TabSound, Later(sessions, sessions'),
         UNCHANGED <<token, held, ready, reloads, outrun>>,
         me' \in [data : Users \cup {"unset", "null"}, fetch : Requests \cup {None}],
         me'.data = me.data, screen' \in {"private", "public"}
  PROVE  TabSound'
BY DEF TabSound, CachedUserOwnsSession, Owns, Issued, Later

-----------------------------------------------------------------------------
(* The tab sends.                                                          *)
LEMMA SendRequests ==
  ASSUME TabSound, RequestsSound, Later(sessions, sessions'),
         NEW kind \in Kinds, NEW u \in Users \cup {None},
         kind \in SignIns => u \in Users, Send(kind, u)
  PROVE  RequestsSound'
<1>1. PICK r \in Requests :
        request' = [request EXCEPT ![r] =
                      [at |-> "sent", kind |-> kind, user |-> u, token |-> token]]
  BY DEF Send
<1>2. sessions' = sessions
  BY DEF Send, api
<1>3. token \in Tokens \cup {None} /\ (token # None => IssuedIn(sessions', token))
  BY <1>2 DEF TabSound, Issued, IssuedIn
<1> DEFINE x == [at |-> "sent", kind |-> kind, user |-> u, token |-> token]
<1>4. x \in RequestRecords /\ SoundIn(sessions', x)
  BY <1>3, SentSound
<1>5. request' = [request EXCEPT ![r] = x]
  BY <1>1
<1> HIDE DEF x
<1>6. QED
  BY <1>4, <1>5, RequestUpdate

LEMMA MeRequests ==
  ASSUME TabSound, RequestsSound, sessions' = sessions, NEW r \in Requests,
         request' = [request EXCEPT ![r] = MeRequest(token)]
  PROVE  RequestsSound'
<1>1. Later(sessions, sessions')
  BY DEF Later
<1>2. token \in Tokens \cup {None} /\ (token # None => IssuedIn(sessions', token))
  BY DEF TabSound, Issued, IssuedIn
<1>3. MeRequest(token) \in RequestRecords /\ SoundIn(sessions', MeRequest(token))
  BY <1>2, MeRequestSound
<1>4. QED
  BY <1>1, <1>3, RequestUpdate

(* A page load, and what the user does.                                    *)
LEMMA TabActs ==
  ASSUME IInv,
         Mount \/ Reload \/ Navigate \/ Submit \/ SendLogout \/ SendRead \/ Refetch
           \/ RedirectToSignIn
  PROVE  TabSound' /\ RequestsSound'
<1>1. TabSound /\ RequestsSound
  BY InvParts
<1>2. sessions' = sessions /\ Later(sessions, sessions')
  BY DEF Mount, Reload, Navigate, Submit, Send, SendLogout, SendRead, Refetch,
         RedirectToSignIn, api, Later
<1>3. me \in [data : Users \cup {"unset", "null"}, fetch : Requests \cup {None}]
  BY <1>1 DEF TabSound
<1>4. ASSUME NEW r \in Requests
      PROVE  /\ [me EXCEPT !.fetch = r] \in
                  [data : Users \cup {"unset", "null"}, fetch : Requests \cup {None}]
             /\ [me EXCEPT !.fetch = r].data = me.data
  BY <1>3
<1>5. CASE Mount
  <2>1. CASE token = None
    <3>1. RequestsSound'
      BY <1>1, <1>2, <1>5, <2>1, RequestsKept DEF Mount
    <3>2. TabSound'
      BY <1>1, <1>2, <1>5, <2>1
      DEF Mount, TabSound, CachedUserOwnsSession, Owns, Issued
    <3>3. QED BY <3>1, <3>2
  <2>2. CASE token # None
    <3>1. PICK r \in Requests :
            /\ me' = [me EXCEPT !.fetch = r]
            /\ request' = [request EXCEPT ![r] = MeRequest(token)]
      BY <1>5, <2>2 DEF Mount
    <3>2. RequestsSound'
      BY <1>1, <1>2, <3>1, MeRequests
    <3>3. /\ me' \in [data : Users \cup {"unset", "null"}, fetch : Requests \cup {None}]
          /\ me'.data = me.data
      BY <1>4, <3>1
    <3>4. TabSound'
      BY <1>1, <1>2, <1>5, <3>3
      DEF Mount, TabSound, CachedUserOwnsSession, Owns, Issued
    <3>5. QED BY <3>2, <3>4
  <2>3. QED BY <2>1, <2>2
<1>6. CASE Reload
  <2>1. \A r \in Requests : request'[r] = Idle
    BY <1>6 DEF Reload
  <2>2. RequestsSound'
    BY <1>6, <2>1, IdleSound DEF Reload, RequestsSound
  <2>3. /\ me' = [data |-> "unset", fetch |-> None] /\ "unset" \notin Users
        /\ ready' = FALSE /\ held' = None /\ outrun' = FALSE
        /\ UNCHANGED <<token, screen>>
    BY <1>6, UsersAreAddresses DEF Reload
  <2>4. reloads' \in 0..MaxReloads
    BY <1>1, <1>6, MaxReloadsNatural, SMT DEF Reload, TabSound
  <2>5. TabSound'
    BY <1>1, <1>2, <2>3, <2>4 DEF TabSound, CachedUserOwnsSession, Issued
  <2>6. QED BY <2>2, <2>5
<1>7. CASE Navigate \/ RedirectToSignIn
  <2>1. RequestsSound'
    BY <1>1, <1>2, <1>7, RequestsKept DEF Navigate, RedirectToSignIn
  <2>2. TabSound'
    BY <1>1, <1>2, <1>3, <1>7, TabKept DEF Navigate, RedirectToSignIn
  <2>3. QED BY <2>1, <2>2
<1>8. ASSUME NEW kind \in Kinds, NEW u \in Users \cup {None},
             kind \in SignIns => u \in Users, Send(kind, u)
      PROVE  TabSound' /\ RequestsSound'
  <2>1. RequestsSound'
    BY <1>1, <1>2, <1>8, SendRequests
  <2>2. UNCHANGED <<token, ready, held, me, screen, reloads, outrun>>
    BY <1>8 DEF Send, tab
  <2>3. screen' \in {"private", "public"}
    BY <1>1, <2>2 DEF TabSound
  <2>4. TabSound'
    BY <1>1, <1>2, <1>3, <2>2, <2>3, TabKept
  <2>5. QED BY <2>1, <2>4
<1>9. CASE Submit
  <2>1. PICK u \in Users, kind \in {"login", "register"} : Send(kind, u)
    BY <1>9 DEF Submit
  <2>2. kind \in Kinds
    BY DEF Kinds
  <2>3. QED
    BY <1>8, <2>1, <2>2
<1>10. CASE SendLogout \/ SendRead
  <2>1. /\ "logout" \in Kinds \ SignIns
        /\ "read" \in Kinds \ SignIns
    BY DEF Kinds, SignIns
  <2>2. QED
    BY <1>8, <1>10, <2>1 DEF SendLogout, SendRead
<1>11. CASE Refetch
  <2>1. PICK r \in Requests :
          /\ me' = [me EXCEPT !.fetch = r]
          /\ request' = [request EXCEPT ![r] = MeRequest(token)]
    BY <1>11 DEF Refetch
  <2>2. RequestsSound'
    BY <1>1, <1>2, <2>1, MeRequests
  <2>3. /\ me' \in [data : Users \cup {"unset", "null"}, fetch : Requests \cup {None}]
        /\ me'.data = me.data
    BY <1>4, <2>1
  <2>4. screen' \in {"private", "public"}
    BY <1>1, <1>11 DEF Refetch, TabSound
  <2>5. TabSound'
    BY <1>1, <1>2, <1>11, <2>3, <2>4, TabKept DEF Refetch
  <2>6. QED BY <2>2, <2>5
<1>12. QED
  BY <1>5, <1>6, <1>7, <1>9, <1>10, <1>11

-----------------------------------------------------------------------------
(* The tab hears an answer.                                                *)
LEMMA FetchedTyped ==
  ASSUME TabSound, NEW r \in Requests
  PROVE  /\ Fetched(r) \in Requests \cup {None}
         /\ [me EXCEPT !.fetch = Fetched(r)] \in
              [data : Users \cup {"unset", "null"}, fetch : Requests \cup {None}]
         /\ [me EXCEPT !.fetch = Fetched(r)].data = me.data
BY DEF TabSound, Fetched

(* A user an answer names is a user.                                       *)
LEMMA OwnersAreUsers ==
  ASSUME ApiSound, NEW k, NEW u, OwnsIn(sessions, u, k)
  PROVE  k \in Tokens /\ u \in Users
BY DEF ApiSound, SessionRows, OwnsIn, IssuedIn, NoSession

LEMMA TabHears ==
  ASSUME IInv, NEW r \in Requests, Hear(r)
  PROVE  TabSound' /\ RequestsSound'
<1>1. ApiSound /\ TabSound /\ RequestsSound
  BY InvParts
<1>2. sessions' = sessions /\ Later(sessions, sessions')
  BY DEF Hear, HearSession, HearMe, HearUnauthorized, HearLogout, HearOther, api, Later
<1>3. me \in [data : Users \cup {"unset", "null"}, fetch : Requests \cup {None}]
  BY <1>1 DEF TabSound
<1>4. request[r].at = "answered" /\ request[r].kind \in Kinds
  <2>1. request[r].at = "answered"
    BY DEF Hear, HearSession, HearMe, HearUnauthorized, HearLogout, HearOther, Heard
  <2>2. QED
    BY <1>1, <2>1, BusyRequest
<1>5. SoundIn(sessions, request[r])
  BY <1>1 DEF RequestsSound
<1>6. CASE HearSession(r)
  <2> DEFINE k == request[r].answer.token
             u == request[r].answer.user
             fetching == IF me.fetch = None /\ held = None THEN r ELSE me.fetch
             x == IF me'.fetch = r THEN MeRequest(k) ELSE Idle
  <2>1. OwnsIn(sessions, u, k)
    BY <1>4, <1>5, <1>6 DEF HearSession, Heard, SoundIn
  <2>2. k \in Tokens /\ u \in Users
    BY <1>1, <2>1, OwnersAreUsers
  <2>3. /\ token' = k /\ held' = k /\ screen' = "private" /\ outrun' = FALSE
        /\ me' = [data |-> u, fetch |-> fetching]
        /\ request' = [request EXCEPT ![r] = x]
        /\ ready' = ready /\ reloads' = reloads
    BY <1>6 DEF HearSession
  <2>4. IssuedIn(sessions', k) /\ OwnsIn(sessions', u, k)
    BY <1>2, <2>1 DEF OwnsIn
  <2>5. x \in RequestRecords /\ SoundIn(sessions', x)
    <3>1. MeRequest(k) \in RequestRecords /\ SoundIn(sessions', MeRequest(k))
      BY <2>2, <2>4, MeRequestSound
    <3>2. QED
      BY <3>1, IdleSound
  <2>6. fetching \in Requests \cup {None}
    BY <1>3
  <2>7. ready
    BY <1>4 DEF IInv, NothingBeforeMount, Idle
  <2> HIDE DEF k, u, fetching, x
  <2>8. RequestsSound'
    BY <1>1, <1>2, <2>3, <2>5, RequestUpdate
  <2>9. TabSound'
    BY <1>1, <2>2, <2>3, <2>4, <2>6, <2>7
    DEF TabSound, CachedUserOwnsSession, Owns, Issued, OwnsIn, IssuedIn
  <2>10. QED BY <2>8, <2>9
<1>7. CASE HearMe(r)
  <2>1. RequestsSound'
    BY <1>1, <1>2, <1>7, RequestForgotten DEF HearMe
  <2>2. CASE me.fetch = r /\ request[r].answer.says = "ok"
    <3>1. OwnsIn(sessions, request[r].answer.user, request[r].token)
      BY <1>4, <1>5, <1>7, <2>2 DEF HearMe, Heard, SoundIn
    <3>2. request[r].answer.user \in Users
      BY <1>1, <3>1, OwnersAreUsers
    <3>3. /\ me' = [data |-> request[r].answer.user, fetch |-> None]
          /\ outrun' = (request[r].token # token)
          /\ UNCHANGED <<token, held, ready, screen, reloads>>
      BY <1>7, <2>2 DEF HearMe
    <3>4. me'.data = request[r].answer.user
      BY <3>3
    <3>5. CachedUserOwnsSession'
      BY <1>2, <3>1, <3>3, <3>4
      DEF CachedUserOwnsSession, Owns, Issued, OwnsIn, IssuedIn
    <3>6. TabSound'
      BY <1>1, <1>2, <3>2, <3>3, <3>5 DEF TabSound, Issued
    <3>7. QED BY <2>1, <3>6
  <2>3. CASE ~(me.fetch = r /\ request[r].answer.says = "ok")
    <3>1. /\ me' = [me EXCEPT !.fetch = Fetched(r)]
          /\ UNCHANGED <<token, held, ready, screen, reloads, outrun>>
      BY <1>7, <2>3 DEF HearMe
    <3>2. screen' \in {"private", "public"}
      BY <1>1, <3>1 DEF TabSound
    <3>3. TabSound'
      BY <1>1, <1>2, <3>1, <3>2, FetchedTyped, TabKept
    <3>4. QED BY <2>1, <3>3
  <2>4. QED BY <2>2, <2>3
<1>8. CASE HearUnauthorized(r)
  <2>1. RequestsSound'
    BY <1>1, <1>2, <1>8, RequestForgotten DEF HearUnauthorized
  <2>2. /\ me' = [data |-> "null", fetch |-> Fetched(r)]
        /\ token' = None /\ held' = None /\ outrun' = FALSE
        /\ UNCHANGED <<ready, screen, reloads>>
    BY <1>8 DEF HearUnauthorized
  <2>3. TabSound'
    BY <1>1, <2>2, FetchedTyped, UsersAreAddresses DEF TabSound, CachedUserOwnsSession
  <2>4. QED BY <2>1, <2>3
<1>9. CASE HearLogout(r)
  <2>1. RequestsSound'
    BY <1>1, <1>2, <1>9, RequestForgotten DEF HearLogout
  <2>2. /\ me' = [data |-> "unset", fetch |-> None]
        /\ token' = None /\ held' = None /\ outrun' = FALSE
        /\ screen' \in {screen, "public"}
        /\ UNCHANGED <<ready, reloads>>
    BY <1>9 DEF HearLogout
  <2>3. TabSound'
    BY <1>1, <2>2, UsersAreAddresses DEF TabSound, CachedUserOwnsSession
  <2>4. QED BY <2>1, <2>3
<1>10. CASE HearOther(r)
  <2>1. RequestsSound'
    BY <1>1, <1>2, <1>10, RequestForgotten DEF HearOther
  <2>2. UNCHANGED <<token, ready, held, me, screen, reloads, outrun>>
    BY <1>10 DEF HearOther, tab
  <2>3. screen' \in {"private", "public"}
    BY <1>1, <2>2 DEF TabSound
  <2>4. TabSound'
    BY <1>1, <1>2, <1>3, <2>2, <2>3, TabKept
  <2>5. QED BY <2>1, <2>4
<1>11. QED
  BY <1>6, <1>7, <1>8, <1>9, <1>10 DEF Hear

-----------------------------------------------------------------------------
(* Nothing is sent or answered before AuthProvider mounts.                 *)
LEMMA QuietStep ==
  ASSUME IInv, [Next]_vars
  PROVE  NothingBeforeMount'
<1>1. NothingBeforeMount
  BY DEF IInv
<1>2. CASE ready' = TRUE
  BY <1>2 DEF NothingBeforeMount
<1>3. CASE ready /\ ready' = ready
  BY <1>3 DEF NothingBeforeMount
<1>4. CASE ~ready /\ ready' = ready /\ held' = held /\ request' = request
  BY <1>1, <1>4 DEF NothingBeforeMount
<1>5. CASE Reload
  BY <1>5 DEF Reload, NothingBeforeMount
<1>6. ready \in BOOLEAN
  BY DEF IInv, TypeOK
<1>7. ASSUME NEW r \in Requests, Serve(r) \/ Hear(r)
      PROVE  ready /\ ready' = ready
  <2>1. request[r].at # "idle"
    BY <1>7
    DEF Serve, Hear, Resolve, Revoke, CreateUser, IssueSession, RefuseLogin,
        RequestFails, HearSession, HearMe, HearUnauthorized, HearLogout, HearOther,
        Sent, Heard
  <2>2. ready
    BY <1>1, <2>1 DEF NothingBeforeMount, Idle
  <2>3. ready' = ready
    BY <1>7
    DEF Serve, Hear, Resolve, Revoke, CreateUser, IssueSession, RefuseLogin,
        RequestFails, HearSession, HearMe, HearUnauthorized, HearLogout, HearOther,
        tab
  <2>4. QED BY <2>2, <2>3
<1>8. QED
  BY <1>2, <1>3, <1>4, <1>5, <1>6, <1>7
  DEF Next, SessionExpires, PurgeExpired, Mount, Navigate, Submit, Send, SendLogout,
      SendRead, Refetch, RedirectToSignIn, vars, tab

-----------------------------------------------------------------------------
(* The invariant.                                                          *)
LEMMA InvInit == Init => IInv
<1> SUFFICES ASSUME Init PROVE IInv
  OBVIOUS
<1>1. TypeOK
  <2>1. reloads \in 0..MaxReloads
    BY MaxReloadsNatural, SMT DEF Init
  <2>2. sessions \in [Tokens -> {NoSession}] /\ request \in [Requests -> {Idle}]
    BY DEF Init
  <2>3. QED
    BY <2>1, <2>2 DEF Init, TypeOK
<1>2. CopiesAgree /\ NothingBeforeMount /\ CachedUserOwnsSession
  BY UsersAreAddresses
  DEF Init, CopiesAgree, NothingBeforeMount, CachedUserOwnsSession
<1>3. \A r \in Requests : request[r].at = "idle"
  BY DEF Init, Idle
<1>4. token = None
  BY DEF Init
<1>5. QED
  BY <1>1, <1>2, <1>3, <1>4
  DEF IInv, RejectedIsDead, OnlyIssuedTokens, AnswersNameOwner, FormsNameUsers, Heard,
      Sent

LEMMA InvNext == IInv /\ [Next]_vars => IInv'
<1> SUFFICES ASSUME IInv, [Next]_vars PROVE IInv'
  OBVIOUS
<1>1. ApiSound' /\ NothingBeforeMount'
  BY ApiStep, QuietStep
<1>2. ApiSound /\ TabSound /\ RequestsSound
  BY InvParts
<1>3. Later(sessions, sessions')
  BY <1>2, SessionsStep
<1>4. ASSUME UNCHANGED <<tab, reloads, outrun>> PROVE TabSound'
  <2>1. /\ UNCHANGED <<token, held, ready, me, screen, reloads, outrun>>
        /\ me \in [data : Users \cup {"unset", "null"}, fetch : Requests \cup {None}]
        /\ screen \in {"private", "public"}
    BY <1>2, <1>4 DEF tab, TabSound
  <2>2. QED
    BY <1>2, <1>3, <2>1, TabKept
<1>5. TabSound' /\ RequestsSound'
  <2>1. ASSUME NEW r \in Requests, Serve(r) PROVE TabSound' /\ RequestsSound'
    <3>1. UNCHANGED <<tab, reloads, outrun>>
      BY <2>1
      DEF Serve, Resolve, Revoke, CreateUser, IssueSession, RefuseLogin, RequestFails
    <3>2. QED
      BY <1>4, <2>1, <3>1, ServeRequests
  <2>2. CASE SessionExpires \/ PurgeExpired \/ UNCHANGED vars
    <3>1. UNCHANGED <<tab, request, reloads, outrun>>
      BY <2>2 DEF SessionExpires, PurgeExpired, vars
    <3>2. QED
      BY <1>2, <1>3, <1>4, <3>1, RequestsKept
  <2>3. QED
    BY <2>1, <2>2, TabActs, TabHears DEF Next
<1>6. QED
  BY <1>1, <1>5, PartsInvNext

(* What the tab and its requests know of sessions is true, for any         *)
(* accounts, tokens and answers out of order.                              *)
THEOREM InvariantHolds == Spec => []IInv
BY InvInit, InvNext, PTL DEF Spec

(* The user the tab shows is the owner of the session it acts with, unless *)
(* an answer to an older token came late (ShownUserOwnsSession).           *)
THEOREM ShownUserOwnsSessionHolds == Spec => []ShownUserOwnsSession
<1>1. IInv => ShownUserOwnsSession
  <2> SUFFICES ASSUME IInv, User # None, ~outrun PROVE sessions[token].user = User
    BY DEF ShownUserOwnsSession
  <2>1. User = me.data /\ me.data \in Users
    BY DEF User
  <2>2. QED
    BY <2>1 DEF IInv, CachedUserOwnsSession, Owns
<1>2. QED
  BY <1>1, InvariantHolds, PTL

-----------------------------------------------------------------------------
(* A step that drops or replaces the token hears a logout, a sign-in or a  *)
(* 401; and a 401 to anything but a sign-in is to another token than a     *)
(* live one.                                                               *)
LEMMA TokenStep ==
  ASSUME IInv, Next, Live(token), token' # token
  PROVE  \E r \in Requests :
           /\ request[r].at = "answered" /\ request'[r] # request[r]
           /\ request[r].kind \notin {"logout"} \cup SignIns => request[r].token # token
<1>1. RequestsSound
  BY InvParts
<1>2. PICK r \in Requests : HearSession(r) \/ HearUnauthorized(r) \/ HearLogout(r)
  BY DEF Next, Serve, Hear, Resolve, Revoke, CreateUser, IssueSession, RefuseLogin,
         RequestFails, HearMe, HearOther, SessionExpires, PurgeExpired, Mount, Reload,
         Navigate, Submit, Send, SendLogout, SendRead, Refetch, RedirectToSignIn, tab
<1>3. request[r].at = "answered"
  BY <1>2 DEF HearSession, HearUnauthorized, HearLogout, Heard
<1>4. request'[r].at # "answered"
  BY <1>1, <1>2
  DEF RequestsSound, HearSession, HearUnauthorized, HearLogout, MeRequest, Idle
<1>5. request[r].kind \notin {"logout"} \cup SignIns => request[r].token # token
  <2>1. CASE HearUnauthorized(r) /\ request[r].kind # "login"
    BY <1>3, <2>1 DEF HearUnauthorized, Heard, IInv, RejectedIsDead
  <2>2. "login" \in SignIns
    BY DEF SignIns
  <2>3. QED
    BY <1>2, <2>1, <2>2 DEF HearSession, HearLogout, Heard
<1>6. QED
  BY <1>3, <1>4, <1>5

(* A tab loses a live session only to a logout, a sign-in, or a 401 to an  *)
(* older token (LiveSessionKept).                                          *)
THEOREM LiveSessionKeptHolds == Spec => LiveSessionKept
<1> DEFINE Kept == Live(token) /\ token' # token =>
             \E r \in Requests :
               /\ request[r].at = "answered" /\ request'[r] # request[r]
               /\ request[r].kind \notin {"logout"} \cup SignIns => request[r].token # token
<1>1. IInv /\ [Next]_vars => [Kept]_vars
  BY TokenStep
<1>2. QED
  BY <1>1, InvariantHolds, PTL DEF Spec, LiveSessionKept
=============================================================================
