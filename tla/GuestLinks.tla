----------------------------- MODULE GuestLinks -----------------------------
(***************************************************************************)
(* Who owns a link: anonymous creates, the guest anchor a browser keeps    *)
(* for them, and the claim that moves them to an account at sign-in        *)
(* (services/url.service.ts, repositories/url.repository.ts, the web's     *)
(* features/urls/api and features/auth).                                   *)
(*                                                                         *)
(* One browser with several tabs: the anchor is in localStorage, which the *)
(* tabs share, the session in sessionStorage, which they do not.  A tab    *)
(* has at most one create and one sign-in under way.  The API's handlers   *)
(* are suspended between their statements, and go on when the tab that     *)
(* called them has stopped listening.                                      *)
(***************************************************************************)
EXTENDS Naturals

CONSTANTS
  Codes,      (* short codes; aliases and generated codes share them       *)
  Aliases,    (* codes a user may ask for                                  *)
  Legacy,     (* codes of rows older than accounts: no user and no guest   *)
  Guests,     (* identities the guests table may mint                      *)
  Users,      (* accounts                                                  *)
  Tabs,       (* tabs of the browser                                       *)
  MaxTries,   (* MAX_RETRIES of a generated code                           *)
  Faults,     (* TRUE: answers are lost and the storage is tampered with   *)
  None,       (* SQL's NULL, and the web's null                            *)
  Corrupt     (* a stored anchor that is not a UUID                        *)

ASSUME SpecialCodes == Legacy \subseteq Codes /\ Aliases \subseteq Codes
ASSUME MaxTriesPositive == MaxTries \in Nat \ {0}
ASSUME FaultsBoolean == Faults \in BOOLEAN
ASSUME OwnersDistinct ==
  /\ Guests \cap Users = {}
  /\ None \notin Guests \cup Users \cup Codes
  /\ Corrupt \notin Guests \cup {None}

VARIABLES
  links,     (* per code: its row in urls                                  *)
  guests,    (* the guests table: per identity whether it has a row        *)
  anchor,    (* localStorage's shortly.guest                               *)
  session,   (* per tab: the account its token belongs to                  *)
  create,    (* per tab: its POST /api/v1/urls                             *)
  claim,     (* per tab: its POST /api/v1/urls/claim                       *)
  lost       (* history: identities dropped from storage unclaimed         *)

vars == <<links, guests, anchor, session, create, claim, lost>>

Absent == [present |-> FALSE]
Row(user, guest) == [present |-> TRUE, user |-> user, guest |-> guest]
Rows == [present : {TRUE}, user : Users \cup {None}, guest : Guests \cup {None}]

Idle == [at |-> "idle"]

(* A create: what the request carried, then its handler's locals.          *)
Creates ==
  {Idle}
    \cup [at : {"sent"}, user : Users \cup {None}, guest : Guests \cup {None, Corrupt},
          alias : Aliases \cup {None}]
    \cup [at : {"insert"}, user : Users \cup {None}, guest : Guests \cup {None},
          minted : BOOLEAN, alias : Aliases \cup {None}, tries : 0..(MaxTries - 1)]
    \cup [at : {"created"}, guest : Guests \cup {None}]
    \cup [at : {"corrupt"}, alias : Aliases \cup {None}]

Claims ==
  {Idle}
    \cup [at : {"sent"}, user : Users, guest : Guests \cup {Corrupt}]
    \cup [at : {"moved", "claimed"}, user : Users, guest : Guests]

Anchors == Guests \cup {None, Corrupt}

TypeOK ==
  /\ links \in [Codes -> Rows \cup {Absent}]
  /\ guests \in [Guests -> {"unminted", "live", "retired"}]
  /\ anchor \in Anchors
  /\ session \in [Tabs -> Users \cup {None}]
  /\ create \in [Tabs -> Creates]
  /\ claim \in [Tabs -> Claims]
  /\ lost \subseteq Guests

Init ==
  /\ links = [c \in Codes |-> IF c \in Legacy THEN Row(None, None) ELSE Absent]
  /\ guests = [g \in Guests |-> "unminted"]
  /\ anchor = None
  /\ session = [t \in Tabs |-> None]
  /\ create = [t \in Tabs |-> Idle]
  /\ claim = [t \in Tabs |-> Idle]
  /\ lost = {}

Belongs(c, g) == links[c].present /\ links[c].guest = g
LinksOf(g) == {c \in Codes : Belongs(c, g)}

(* Storage changes hands: what it held is lost unless it is "kept".        *)
Store(a, kept) ==
  /\ anchor' = a
  /\ lost' = lost \cup ({anchor} \cap (Guests \ {kept, a}))

-----------------------------------------------------------------------------
(* The create form.                                                        *)

(* apiRequest's headers: a bearer token, else the guest anchor.            *)
Request(t, alias, stored) ==
  [at |-> "sent", user |-> session[t],
   guest |-> IF session[t] = None THEN stored ELSE None, alias |-> alias]

SubmitCreate(t) ==
  /\ create[t] = Idle
  /\ \E alias \in Aliases \cup {None} :
       create' = [create EXCEPT ![t] = Request(t, alias, anchor)]
  /\ UNCHANGED <<links, guests, anchor, session, claim, lost>>

(* optionalAuth refuses a malformed anchor with GUEST_TOKEN_INVALID.       *)
RefuseCorrupt(t) ==
  LET k == create[t] IN
  /\ k.at = "sent" /\ k.user = None /\ k.guest = Corrupt
  /\ create' = [create EXCEPT ![t] =
                  [at |-> "corrupt", alias |-> k.alias]]
  /\ UNCHANGED <<links, guests, anchor, session, claim, lost>>

Inserting(k, guest, minted) ==
  [at |-> "insert", user |-> k.user, guest |-> guest, minted |-> minted,
   alias |-> k.alias, tries |-> 0]

AdmitAccount(t) ==
  LET k == create[t] IN
  /\ k.at = "sent" /\ k.user # None
  /\ create' = [create EXCEPT ![t] = Inserting(k, None, FALSE)]
  /\ UNCHANGED <<links, guests, anchor, session, claim, lost>>

(* createGuestUrl with an anchor that has a row.                           *)
AdmitGuest(t) ==
  LET k == create[t] IN
  /\ k.at = "sent" /\ k.user = None /\ k.alias = None
  /\ k.guest \in Guests /\ guests[k.guest] = "live"
  /\ create' = [create EXCEPT ![t] = Inserting(k, k.guest, FALSE)]
  /\ UNCHANGED <<links, guests, anchor, session, claim, lost>>

(* A missing anchor, or one without a row, is replaced by a new identity.  *)
(* An identity without a row never gets one, so the check and the insert   *)
(* are one step.                                                           *)
MintGuest(t) ==
  LET k == create[t] IN
  /\ k.at = "sent" /\ k.user = None /\ k.alias = None
  /\ k.guest \in {None} \cup {g \in Guests : guests[g] # "live"}
  /\ \E g \in Guests :
       /\ guests[g] = "unminted"
       /\ guests' = [guests EXCEPT ![g] = "live"]
       /\ create' = [create EXCEPT ![t] = Inserting(k, g, TRUE)]
  /\ UNCHANGED <<links, anchor, session, claim, lost>>

(* Mutant of InsertLink: a taken alias is overwritten.                     *)
InsertLinkOverwriting(t) ==
  LET k == create[t] IN
  /\ k.at = "insert"
  /\ \E c \in Codes :
       /\ k.alias \in {c, None} /\ (k.alias = None => ~links[c].present)
       /\ k.guest # None => guests[k.guest] = "live"
       /\ links' = [links EXCEPT ![c] = Row(k.user, k.guest)]
  /\ create' = [create EXCEPT ![t] =
                  [at |-> "created", guest |-> IF k.minted THEN k.guest ELSE None]]
  /\ UNCHANGED <<guests, anchor, session, claim, lost>>

(* Mutant of InsertLink: the guest is not looked up again.                 *)
InsertLinkUnreferenced(t) ==
  LET k == create[t] IN
  /\ k.at = "insert"
  /\ \E c \in Codes :
       /\ k.alias \in {c, None}
       /\ ~links[c].present
       /\ links' = [links EXCEPT ![c] = Row(k.user, k.guest)]
  /\ create' = [create EXCEPT ![t] =
                  [at |-> "created", guest |-> IF k.minted THEN k.guest ELSE None]]
  /\ UNCHANGED <<guests, anchor, session, claim, lost>>

(* The row goes in: its code is free and the guest it names has a row.     *)
InsertLink(t) ==
  LET k == create[t] IN
  /\ k.at = "insert"
  /\ \E c \in Codes :
       /\ k.alias \in {c, None}
       /\ ~links[c].present
       /\ k.guest # None => guests[k.guest] = "live"
       /\ links' = [links EXCEPT ![c] = Row(k.user, k.guest)]
  /\ create' = [create EXCEPT ![t] =
                  [at |-> "created", guest |-> IF k.minted THEN k.guest ELSE None]]
  /\ UNCHANGED <<guests, anchor, session, claim, lost>>

(* A generated code is taken: the handler tries another, MAX_RETRIES       *)
(* times.                                                                  *)
RetryCode(t) ==
  LET k == create[t] IN
  /\ k.at = "insert" /\ k.alias = None /\ k.tries + 1 < MaxTries
  /\ \E c \in Codes : links[c].present
  /\ create' = [create EXCEPT ![t].tries = @ + 1]
  /\ UNCHANGED <<links, guests, anchor, session, claim, lost>>

(* Any other end: a limiter's 429, a 401, a guest's alias, a taken alias,  *)
(* the last collision, the foreign key of a retired guest, a database      *)
(* error, a crash.  The tab shows the error and leaves its storage alone.  *)
CreateFails(t) ==
  /\ create[t].at \in {"sent", "insert"}
  /\ create' = [create EXCEPT ![t] = Idle]
  /\ UNCHANGED <<links, guests, anchor, session, claim, lost>>

(* createUrl, back in the tab: it stores a minted anchor ...               *)
HearCreated(t) ==
  LET k == create[t] IN
  /\ k.at = "created"
  /\ IF k.guest = None THEN UNCHANGED <<anchor, lost>> ELSE Store(k.guest, None)
  /\ create' = [create EXCEPT ![t] = Idle]
  /\ UNCHANGED <<links, guests, session, claim>>

(* ... and clears a corrupt one and retries without it.  The retry carries *)
(* no anchor, so it is not refused again.                                  *)
HearCorrupt(t) ==
  LET k == create[t] IN
  /\ k.at = "corrupt"
  /\ Store(None, None)
  /\ create' = [create EXCEPT ![t] = Request(t, k.alias, None)]
  /\ UNCHANGED <<links, guests, session, claim>>

(* The request times out or its connection breaks, while the handler goes  *)
(* on: the answer is lost, and the identity it carried.  Closing a tab is  *)
(* a sign-out and the loss of the answers it waits for.                    *)
CreateUnheard(t) ==
  LET k == create[t] IN
  /\ Faults
  /\ k.at \in {"created", "corrupt"}
  /\ lost' = lost \cup (IF k.at = "created" THEN {k.guest} \cap Guests ELSE {})
  /\ create' = [create EXCEPT ![t] = Idle]
  /\ UNCHANGED <<links, guests, anchor, session, claim>>

-----------------------------------------------------------------------------
(* Sign-in and claim.                                                      *)

(* accept: the tab takes the new session and claims the stored anchor.     *)
SignIn(t) ==
  /\ claim[t] = Idle
  /\ \E u \in Users :
       /\ session' = [session EXCEPT ![t] = u]
       /\ claim' = IF anchor = None
                     THEN claim
                     ELSE [claim EXCEPT ![t] =
                             [at |-> "sent", user |-> u, guest |-> anchor]]
  /\ UNCHANGED <<links, guests, anchor, create, lost>>

SignOut(t) ==
  /\ session[t] # None
  /\ session' = [session EXCEPT ![t] = None]
  /\ UNCHANGED <<links, guests, anchor, create, claim, lost>>

(* The claim's UPDATE: the guest's unclaimed rows go to the account.       *)
MovesTo(row, g, u) ==
  IF row.present /\ row.guest = g /\ row.user = None THEN Row(u, None) ELSE row

MoveLinks(t) ==
  LET k == claim[t] IN
  /\ k.at = "sent" /\ k.guest \in Guests
  /\ links' = [c \in Codes |-> MovesTo(links[c], k.guest, k.user)]
  /\ claim' = [claim EXCEPT ![t].at = "moved"]
  /\ UNCHANGED <<guests, anchor, session, create, lost>>

(* Mutant of RetireGuest: the row goes although links still refer to it.   *)
RetireGuestUnchecked(t) ==
  LET k == claim[t] IN
  /\ k.at = "moved"
  /\ guests' = [guests EXCEPT ![k.guest] = IF @ = "live" THEN "retired" ELSE @]
  /\ claim' = [claim EXCEPT ![t].at = "claimed"]
  /\ UNCHANGED <<links, anchor, session, create, lost>>

(* The DELETE of the guest: refused while a link refers to it.             *)
RetireGuest(t) ==
  LET k == claim[t] IN
  /\ k.at = "moved"
  /\ LinksOf(k.guest) = {}
  /\ guests' = [guests EXCEPT ![k.guest] = IF @ = "live" THEN "retired" ELSE @]
  /\ claim' = [claim EXCEPT ![t].at = "claimed"]
  /\ UNCHANGED <<links, anchor, session, create, lost>>

(* Mutant of ClaimFails: a failed claim clears the anchor too.             *)
ClaimFailsClearing(t) ==
  /\ claim[t].at \in {"sent", "moved"}
  /\ anchor' = None
  /\ claim' = [claim EXCEPT ![t] = Idle]
  /\ UNCHANGED <<links, guests, session, create, lost>>

(* The foreign key's refusal, a corrupt anchor's 400, a 401, a 429, a      *)
(* database error, a crash: before the first statement or between the two. *)
(* The tab keeps the anchor for the next sign-in.                          *)
ClaimFails(t) ==
  /\ claim[t].at \in {"sent", "moved"}
  /\ claim' = [claim EXCEPT ![t] = Idle]
  /\ UNCHANGED <<links, guests, anchor, session, create, lost>>

(* accept, after the answer: the anchor goes, whichever is stored by now.  *)
HearClaimed(t) ==
  /\ claim[t].at = "claimed"
  /\ Store(None, claim[t].guest)
  /\ claim' = [claim EXCEPT ![t] = Idle]
  /\ UNCHANGED <<links, guests, session, create>>

(* A claim whose answer is lost keeps the anchor.                          *)
ClaimUnheard(t) ==
  /\ Faults
  /\ claim[t].at = "claimed"
  /\ claim' = [claim EXCEPT ![t] = Idle]
  /\ UNCHANGED <<links, guests, anchor, session, create, lost>>

-----------------------------------------------------------------------------
(* The browser.                                                            *)

(* Something else writes the storage key.                                  *)
CorruptStorage ==
  /\ Faults
  /\ anchor # Corrupt
  /\ Store(Corrupt, None)
  /\ UNCHANGED <<links, guests, session, create, claim>>

Step(t) ==
  \/ SubmitCreate(t) \/ RefuseCorrupt(t) \/ AdmitAccount(t) \/ AdmitGuest(t)
  \/ MintGuest(t) \/ InsertLink(t) \/ RetryCode(t) \/ CreateFails(t)
  \/ HearCreated(t) \/ HearCorrupt(t) \/ CreateUnheard(t)
  \/ SignIn(t) \/ SignOut(t) \/ MoveLinks(t) \/ RetireGuest(t) \/ ClaimFails(t)
  \/ HearClaimed(t) \/ ClaimUnheard(t)

Next == CorruptStorage \/ \E t \in Tabs : Step(t)

Spec == Init /\ [][Next]_vars

-----------------------------------------------------------------------------
(* A link is filed under one owner, and a guest it names has a row.        *)
GuestsHaveRows ==
  \A c \in Codes : links[c].present /\ links[c].guest # None
    => guests[links[c].guest] = "live" /\ links[c].user = None

(* What the handlers under way know of the guests they work for.           *)
HandlersKnowGuests ==
  \A t \in Tabs :
    /\ create[t].at = "insert" => (create[t].user = None <=> create[t].guest # None)
    /\ create[t].at \in {"insert", "created"} /\ create[t].guest # None
         => guests[create[t].guest] # "unminted"
    /\ create[t].at = "insert" /\ create[t].minted => create[t].guest # None
    /\ claim[t].at = "claimed" => guests[claim[t].guest] # "live"

(* The types, and what is known of the guest behind a link or handler.   *)
IInv == TypeOK /\ GuestsHaveRows /\ HandlersKnowGuests

(* A claim that answers 200 left no link behind, and none is filed under   *)
(* its identity afterwards: the tab may forget it (url.service.ts:190).    *)
ClaimedCompletely ==
  \A t \in Tabs : claim[t].at = "claimed" => LinksOf(claim[t].guest) = {}

(* An anonymous link is within its browser's reach: the identity it is     *)
(* filed under is stored, or on its way in an answer, unless storage       *)
(* dropped it.  A failed claim never costs a link (auth-context.tsx:93).   *)
StrandedOnlyIfLost ==
  \A c \in Codes : links[c].present /\ links[c].guest # None
    => \/ links[c].guest \in {anchor} \cup lost
       \/ \E t \in Tabs : create[t].at = "created" /\ create[t].guest = links[c].guest

(* A link's owner changes once, from a guest to the account that claims    *)
(* it: no create overwrites it, no claim takes it over, and a row older    *)
(* than accounts stays unowned (url.repository.ts:101, :320).              *)
OwnedForGood ==
  [][\A c \in Codes : links[c].present /\ links'[c] # links[c] =>
       /\ links[c].user = None
       /\ \E t \in Tabs :
            /\ claim[t].at = "sent" /\ claim[t].guest = links[c].guest
            /\ links'[c] = Row(claim[t].user, None)]_vars
=============================================================================
