---------------------------- MODULE RateLimiter ----------------------------
(***************************************************************************)
(* The fixed-window limiter (apps/api/src/ratelimit/rate-limiter.ts): one  *)
(* counter in Redis per budget and client address, shared by every API     *)
(* process, incremented by a Lua script and removed when its time is up.   *)
(*                                                                         *)
(* Counters do not influence each other: the model follows one, any one,   *)
(* and lets the limiter say anything about the others.                     *)
(***************************************************************************)
EXTENDS Integers, Sequences, FiniteSets, FiniteSetsExt

CONSTANTS
  Budgets,       (* the key prefixes                                       *)
  Addresses,     (* client addresses                                       *)
  Private,       (* the addresses isPrivateIp tells to be a proxy's        *)
  Edge,          (* the address the outermost of several proxies dials from*)
  MaxRequests,   (* maxRequests, one value for every budget                *)
  Window         (* windowSeconds, in ticks of Redis' clock                *)

ASSUME SomeRequests == MaxRequests \in Nat \ {0}
ASSUME SomeTime == Window \in Nat \ {0}
ASSUME EdgeIsPrivate == Edge \in Private /\ Edge \notin Addresses

Keys == Budgets \X (Addresses \cup {Edge})

(* Past the first refusal the code only compares, so counting stops there. *)
Cap == MaxRequests + 1

VARIABLES
  watched,    (* the key followed                                          *)
  bucket,     (* its count and time to live in Redis                       *)
  recent      (* history: the admissions under it, by age in ticks         *)

limiter == <<watched, bucket, recent>>

Empty == [count |-> 0, ttl |-> 0]
Forever == -1

LimiterTypeOK ==
  /\ watched \in Keys
  /\ bucket \in [count : 0..Cap, ttl : Forever..Window]
  /\ recent \in [0..(Window - 1) -> Nat]

LimiterInit ==
  /\ watched \in Keys
  /\ bucket = Empty
  /\ recent = [a \in 0..(Window - 1) |-> 0]

-----------------------------------------------------------------------------
(* realClientIp: Cloudflare's header, the first forwarded address that is  *)
(* not private, the peer.                                                  *)
RealClientIp(headers) ==
  LET public == {k \in DOMAIN headers.forwarded : headers.forwarded[k] \notin Private} IN
  IF headers.cloudflare # <<>> THEN headers.cloudflare[1]
  ELSE IF public # {} THEN headers.forwarded[Min(public)]
  ELSE headers.ip

(* What a client may write into the two headers itself.                    *)
Header == {<<>>} \cup {<<a>> : a \in Addresses \cup {Edge}}
Written == [cloudflare : Header, forwarded : Header]
Nothing == [cloudflare |-> <<>>, forwarded |-> <<>>]

(* The request behind proxies that append to X-Forwarded-For; `wrote` is   *)
(* history.                                                                *)
Received(own, cloudflare, proxies, ip) ==
  [cloudflare |-> cloudflare, forwarded |-> own.forwarded \o proxies, ip |-> ip,
   wrote |-> own # Nothing]

(* A client's request as the API receives it: directly (`trust proxy` of   *)
(* one hop then makes req.ip the last address forwarded), through nginx,   *)
(* through nginx behind another proxy, through Cloudflare, which overwrites*)
(* its header, and nginx.                                                  *)
Ways(own, c) ==
  {Received(own, own.cloudflare, <<>>, IF own.forwarded = <<>> THEN c ELSE own.forwarded[1]),
   Received(own, own.cloudflare, <<c>>, c),
   Received(own, own.cloudflare, <<c, Edge>>, Edge),
   Received(own, <<c>>, <<c, Edge>>, Edge)}

Arrivals(c) == UNION {Ways(own, c) : own \in Written}

-----------------------------------------------------------------------------
(* Mutant of Incremented: EXPIRE is sent on every increment.               *)
Prolonged(b) == [count |-> Min({b.count + 1, Cap}), ttl |-> Window]

(* Mutant of Incremented: EXPIRE is a command of its own, and is lost.     *)
Unexpiring(b) ==
  [count |-> Min({b.count + 1, Cap}), ttl |-> IF b.count = 0 THEN Forever ELSE b.ttl]

(* INCR_WITH_TTL: INCR makes the key without an expiry, which TTL reports  *)
(* and EXPIRE mends.                                                       *)
Incremented(b) ==
  [count |-> Min({b.count + 1, Cap}),
   ttl |-> IF b.count = 0 \/ b.ttl = Forever THEN Window ELSE b.ttl]

(* Mutant of Admits: off by one.                                           *)
AdmitsOneMore(b) == b.count <= MaxRequests + 1

Admits(b) == b.count <= MaxRequests

(* What the limiter makes of a request under key k: the script runs and    *)
(* its answer counts; the script is sent again after a reconnection and    *)
(* runs twice; it fails, run or not, and the request passes.               *)
Counted(k, verdict) ==
  IF k # watched
    THEN UNCHANGED <<bucket, recent>>
    ELSE /\ bucket' \in {Incremented(bucket), Incremented(Incremented(bucket))}
         /\ verdict = IF Admits(bucket') THEN "admitted" ELSE "refused"
         /\ recent' = [recent EXCEPT ![0] = IF verdict = "admitted" THEN @ + 1 ELSE @]

FailedOpen(k) ==
  /\ bucket' = bucket \/ (k = watched /\ bucket' = Incremented(bucket))
  /\ UNCHANGED recent

(* A second of Redis' clock, at which the key may expire.                  *)
Tick ==
  /\ bucket' = CASE bucket.ttl \in {0, Forever} -> bucket
                  [] bucket.ttl = 1 -> Empty
                  [] OTHER -> [bucket EXCEPT !.ttl = @ - 1]
  /\ recent' = [a \in DOMAIN recent |-> IF a = 0 THEN 0 ELSE recent[a - 1]]

(* Redis starts without its data: every window starts over.                *)
Forget ==
  /\ bucket' = Empty
  /\ recent' = [a \in DOMAIN recent |-> 0]

-----------------------------------------------------------------------------
(* A counter always has its end: no address is blocked for good            *)
(* (rate-limiter.ts:9-11).                                                 *)
CountersExpire == bucket.count > 0 => bucket.ttl > 0

Admitted(ages) == UNION {{a} \X (1..recent[a]) : a \in ages}

(* Any Window seconds see at most two budgets of admissions, the second    *)
(* one at a window's boundary (README.md:524): not counting the requests   *)
(* that passed because Redis failed, nor across a loss of its data.        *)
AtMostTwoBursts == Cardinality(Admitted(DOMAIN recent)) <= 2 * MaxRequests

(* What makes it inductive: the counter counts every admission of its      *)
(* window, which are the latest ones, and there is one window before it    *)
(* within reach. Between two windows nothing is admitted.                  *)
Age(b) == Window - b.ttl
WindowsApart ==
  IF bucket.count = 0
    THEN recent[0] = 0 /\ Cardinality(Admitted(DOMAIN recent)) <= MaxRequests
    ELSE /\ Cardinality(Admitted(0..Age(bucket))) <= Min({bucket.count, MaxRequests})
         /\ Cardinality(Admitted((Age(bucket) + 1)..(Window - 1))) <= MaxRequests

(* A blocked address is let in again, however much it insists              *)
(* (rate-limiter.ts:16): its attempts do not prolong the window.           *)
BlockEnds == ~Admits(bucket) ~> Admits(bucket)
=============================================================================
