-------------------------- MODULE GuestLinksProofs --------------------------
(* Proofs about GuestLinks, for any codes, guests, accounts and tabs.      *)
EXTENDS GuestLinks, TLAPS

(* Whatever identity a tab stores or claims has been minted.               *)
Minted(g) == g \in Guests => guests[g] # "unminted"

OnlyMinted ==
  /\ Minted(anchor)
  /\ \A t \in Tabs :
       /\ claim[t].at # "idle" => Minted(claim[t].guest)
       /\ create[t].at \in {"sent", "insert", "created"} => Minted(create[t].guest)

(* The inductive strengthening of IInv.                                    *)
Known == IInv /\ OnlyMinted

(* The fields of a request, by where it is.                                *)
LEMMA CreateFields ==
  ASSUME TypeOK, NEW t \in Tabs
  PROVE  /\ create[t] \in Creates
         /\ create[t].at \in {"idle", "sent", "insert", "created", "corrupt"}
         /\ create[t].at = "sent" =>
              /\ create[t].user \in Users \cup {None}
              /\ create[t].guest \in Guests \cup {None, Corrupt}
              /\ create[t].alias \in Aliases \cup {None}
         /\ create[t].at = "insert" =>
              /\ create[t].user \in Users \cup {None}
              /\ create[t].guest \in Guests \cup {None}
              /\ create[t].minted \in BOOLEAN
              /\ create[t].alias \in Aliases \cup {None}
              /\ create[t].tries \in 0..(MaxTries - 1)
         /\ create[t].at = "created" => create[t].guest \in Guests \cup {None}
         /\ create[t].at = "corrupt" => create[t].alias \in Aliases \cup {None}
<1>1. create[t] \in Creates
  BY DEF TypeOK
<1> QED
  BY <1>1 DEF Creates, Idle

LEMMA ClaimFields ==
  ASSUME TypeOK, NEW t \in Tabs
  PROVE  /\ claim[t] \in Claims
         /\ claim[t].at \in {"idle", "sent", "moved", "claimed"}
         /\ claim[t].at = "sent" =>
              claim[t].user \in Users /\ claim[t].guest \in Guests \cup {Corrupt}
         /\ claim[t].at \in {"moved", "claimed"} =>
              claim[t].user \in Users /\ claim[t].guest \in Guests
<1>1. claim[t] \in Claims
  BY DEF TypeOK
<1> QED
  BY <1>1 DEF Claims, Idle

(* A step that gives each changed variable a value of its type.            *)
LEMMA IdleTypes == Idle \in Creates /\ Idle \in Claims
BY DEF Creates, Claims, Idle

LEMMA RowTypes ==
  ASSUME NEW u \in Users \cup {None}, NEW g \in Guests \cup {None}
  PROVE  Row(u, g) \in Rows
BY DEF Row, Rows

LEMMA RequestTypes ==
  ASSUME TypeOK, NEW t \in Tabs, NEW alias \in Aliases \cup {None}, NEW a \in Anchors
  PROVE  Request(t, alias, a) \in Creates
<1>1. session[t] \in Users \cup {None}
  BY DEF TypeOK
<1>2. (IF session[t] = None THEN a ELSE None) \in Guests \cup {None, Corrupt}
  BY DEF Anchors
<1> QED
  BY <1>1, <1>2 DEF Request, Creates

(* The steps of a create keep the types.                                   *)
LEMMA CreateKeepsTypes ==
  ASSUME TypeOK, NEW t \in Tabs,
         \/ SubmitCreate(t) \/ RefuseCorrupt(t) \/ AdmitAccount(t) \/ AdmitGuest(t)
         \/ MintGuest(t) \/ InsertLink(t) \/ RetryCode(t) \/ CreateFails(t)
         \/ HearCreated(t) \/ HearCorrupt(t) \/ CreateUnheard(t)
  PROVE  TypeOK'
<1>1. CASE SubmitCreate(t)
  <2>1. PICK alias \in Aliases \cup {None} :
          create' = [create EXCEPT ![t] = Request(t, alias, anchor)]
    BY <1>1 DEF SubmitCreate
  <2>2. Request(t, alias, anchor) \in Creates
    BY RequestTypes DEF TypeOK
  <2> QED
    BY <1>1, <2>1, <2>2 DEF SubmitCreate, TypeOK
<1>2. CASE RefuseCorrupt(t)
  <2>1. [at |-> "corrupt", alias |-> create[t].alias] \in Creates
    BY <1>2, CreateFields DEF RefuseCorrupt, Creates
  <2> QED
    BY <1>2, <2>1 DEF RefuseCorrupt, TypeOK
<1>3. ASSUME NEW guest \in Guests \cup {None}, NEW minted \in BOOLEAN, create[t].at = "sent"
      PROVE  Inserting(create[t], guest, minted) \in Creates
  BY <1>3, CreateFields, MaxTriesPositive DEF Inserting, Creates
<1>4. CASE AdmitAccount(t)
  BY <1>3, <1>4 DEF AdmitAccount, TypeOK
<1>5. CASE AdmitGuest(t)
  BY <1>3, <1>5 DEF AdmitGuest, TypeOK
<1>6. CASE MintGuest(t)
  <2>1. PICK g \in Guests :
          /\ guests' = [guests EXCEPT ![g] = "live"]
          /\ create' = [create EXCEPT ![t] = Inserting(create[t], g, TRUE)]
    BY <1>6 DEF MintGuest
  <2>2. Inserting(create[t], g, TRUE) \in Creates
    BY <1>3, <1>6 DEF MintGuest
  <2>3. guests' \in [Guests -> {"unminted", "live", "retired"}] /\ create' \in [Tabs -> Creates]
    BY <2>1, <2>2 DEF TypeOK
  <2> QED
    BY <1>6, <2>3 DEF MintGuest, TypeOK
<1>7. CASE InsertLink(t)
  <2>1. [at |-> "created", guest |-> IF create[t].minted THEN create[t].guest ELSE None]
          \in Creates
    BY <1>7, CreateFields DEF InsertLink, Creates
  <2>2. links' \in [Codes -> Rows \cup {Absent}]
    <3>1. Row(create[t].user, create[t].guest) \in Rows
      BY <1>7, CreateFields, RowTypes DEF InsertLink
    <3> QED
      BY <1>7, <3>1 DEF InsertLink, TypeOK
  <2> QED
    BY <1>7, <2>1, <2>2 DEF InsertLink, TypeOK
<1>8. CASE RetryCode(t)
  <2>1. create[t].tries + 1 \in 0..(MaxTries - 1)
    BY <1>8, CreateFields, MaxTriesPositive DEF RetryCode
  <2>2. create[t] \in [at : {"insert"}, user : Users \cup {None}, guest : Guests \cup {None},
                       minted : BOOLEAN, alias : Aliases \cup {None}, tries : 0..(MaxTries - 1)]
    BY <1>8, CreateFields DEF RetryCode, Creates, Idle
  <2>3. [create[t] EXCEPT !.tries = create[t].tries + 1] \in Creates
    BY <2>1, <2>2 DEF Creates
  <2>4. create' = [create EXCEPT ![t] = [create[t] EXCEPT !.tries = create[t].tries + 1]]
    BY <1>8 DEF RetryCode, TypeOK
  <2> QED
    BY <1>8, <2>3, <2>4 DEF RetryCode, TypeOK
<1>9. CASE CreateFails(t)
  BY <1>9, IdleTypes DEF CreateFails, TypeOK
<1>10. CASE HearCreated(t)
  <2>1. anchor' \in Anchors /\ lost' \subseteq Guests
    BY <1>10, CreateFields DEF HearCreated, Store, TypeOK, Anchors
  <2> QED
    BY <1>10, <2>1, IdleTypes DEF HearCreated, TypeOK
<1>11. CASE HearCorrupt(t)
  <2>1. Request(t, create[t].alias, None) \in Creates
    BY <1>11, CreateFields, RequestTypes DEF HearCorrupt, Anchors
  <2>2. anchor' \in Anchors /\ lost' \subseteq Guests
    BY <1>11 DEF HearCorrupt, Store, TypeOK, Anchors
  <2> QED
    BY <1>11, <2>1, <2>2 DEF HearCorrupt, TypeOK
<1>12. CASE CreateUnheard(t)
  BY <1>12, IdleTypes DEF CreateUnheard, TypeOK
<1> QED
  BY <1>1, <1>2, <1>4, <1>5, <1>6, <1>7, <1>8, <1>9, <1>10, <1>11, <1>12

(* So do those of a sign-in and its claim.                                 *)
LEMMA ClaimKeepsTypes ==
  ASSUME TypeOK, NEW t \in Tabs,
         \/ SignIn(t) \/ SignOut(t) \/ MoveLinks(t) \/ RetireGuest(t) \/ ClaimFails(t)
         \/ HearClaimed(t) \/ ClaimUnheard(t)
  PROVE  TypeOK'
<1>1. CASE SignIn(t)
  <2>1. PICK u \in Users :
          /\ session' = [session EXCEPT ![t] = u]
          /\ claim' = IF anchor = None THEN claim
                      ELSE [claim EXCEPT ![t] = [at |-> "sent", user |-> u, guest |-> anchor]]
    BY <1>1 DEF SignIn
  <2>2. anchor # None => [at |-> "sent", user |-> u, guest |-> anchor] \in Claims
    BY DEF TypeOK, Anchors, Claims
  <2> QED
    BY <1>1, <2>1, <2>2 DEF SignIn, TypeOK
<1>2. CASE SignOut(t)
  BY <1>2 DEF SignOut, TypeOK
<1>3. CASE MoveLinks(t)
  <2>1. claim[t] \in [at : {"sent"}, user : Users, guest : Guests \cup {Corrupt}]
    BY <1>3, ClaimFields DEF MoveLinks, Claims, Idle
  <2>2. [claim[t] EXCEPT !.at = "moved"] \in Claims
    BY <1>3, <2>1 DEF MoveLinks, Claims
  <2>3. claim' = [claim EXCEPT ![t] = [claim[t] EXCEPT !.at = "moved"]]
    BY <1>3 DEF MoveLinks, TypeOK
  <2>4. \A c \in Codes : MovesTo(links[c], claim[t].guest, claim[t].user) \in Rows \cup {Absent}
    BY <2>1, RowTypes DEF MovesTo, TypeOK
  <2> QED
    BY <1>3, <2>2, <2>3, <2>4 DEF MoveLinks, TypeOK
<1>4. CASE RetireGuest(t)
  <2>1. claim[t] \in [at : {"moved", "claimed"}, user : Users, guest : Guests]
    BY <1>4, ClaimFields DEF RetireGuest, Claims, Idle
  <2>2. [claim[t] EXCEPT !.at = "claimed"] \in Claims
    BY <2>1 DEF Claims
  <2>3. claim' = [claim EXCEPT ![t] = [claim[t] EXCEPT !.at = "claimed"]]
    BY <1>4 DEF RetireGuest, TypeOK
  <2>4. guests' \in [Guests -> {"unminted", "live", "retired"}]
    BY <1>4 DEF RetireGuest, TypeOK
  <2> QED
    BY <1>4, <2>2, <2>3, <2>4 DEF RetireGuest, TypeOK
<1>5. CASE ClaimFails(t) \/ ClaimUnheard(t)
  BY <1>5, IdleTypes DEF ClaimFails, ClaimUnheard, TypeOK
<1>6. CASE HearClaimed(t)
  <2>1. anchor' \in Anchors /\ lost' \subseteq Guests
    BY <1>6 DEF HearClaimed, Store, TypeOK, Anchors
  <2> QED
    BY <1>6, <2>1, IdleTypes DEF HearClaimed, TypeOK
<1> QED
  BY <1>1, <1>2, <1>3, <1>4, <1>5, <1>6

-----------------------------------------------------------------------------
(* Which links a step moves, and how.                                      *)

(* Every other step leaves the links alone.                                *)
LEMMA OnlyInsertsAndMoves ==
  ASSUME [Next]_vars,
         ~(\E t \in Tabs : InsertLink(t) \/ MoveLinks(t))
  PROVE  UNCHANGED links
BY DEF Next, Step, vars, SubmitCreate, RefuseCorrupt, AdmitAccount, AdmitGuest, MintGuest, RetryCode,
   CreateFails, HearCreated, HearCorrupt, CreateUnheard, SignIn, SignOut, RetireGuest, ClaimFails,
   HearClaimed, ClaimUnheard, CorruptStorage

LEMMA OwnedStep ==
  ASSUME TypeOK, [Next]_vars, NEW c \in Codes, links[c].present, links'[c] # links[c]
  PROVE  /\ links[c].user = None
         /\ \E t \in Tabs :
              /\ claim[t].at = "sent" /\ claim[t].guest = links[c].guest
              /\ links'[c] = Row(claim[t].user, None)
<1>1. PICK t \in Tabs : InsertLink(t) \/ MoveLinks(t)
  BY OnlyInsertsAndMoves
<1>2. ~InsertLink(t)
  <2> SUFFICES ASSUME InsertLink(t) PROVE FALSE
    OBVIOUS
  <2>1. PICK b \in Codes : ~links[b].present /\
          links' = [links EXCEPT ![b] = Row(create[t].user, create[t].guest)]
    BY DEF InsertLink
  <2> QED
    BY <2>1 DEF TypeOK
<1>3. links'[c] = MovesTo(links[c], claim[t].guest, claim[t].user) /\ claim[t].at = "sent"
  BY <1>1, <1>2 DEF MoveLinks
<1> QED
  BY <1>3 DEF MovesTo

(* A move leaves nothing behind; no step files a link under a guest        *)
(* without a row.                                                          *)
LEMMA InsertReferences ==
  ASSUME TypeOK, NEW t \in Tabs, InsertLink(t), NEW c \in Codes, NEW g \in Guests, Belongs(c, g)'
  PROVE  Belongs(c, g) \/ (create[t].guest = g /\ guests[g] = "live")
<1>1. PICK b \in Codes :
        /\ create[t].guest # None => guests[create[t].guest] = "live"
        /\ links' = [links EXCEPT ![b] = Row(create[t].user, create[t].guest)]
  BY DEF InsertLink
<1>2. CASE c = b
  <2>1. links'[c] = Row(create[t].user, create[t].guest)
    BY <1>1, <1>2 DEF TypeOK
  <2>2. create[t].guest = g /\ g # None
    BY <2>1, OwnersDistinct DEF Belongs, Row
  <2> QED
    BY <1>1, <2>2
<1>3. CASE c # b
  BY <1>1, <1>3 DEF TypeOK, Belongs
<1> QED
  BY <1>2, <1>3

LEMMA MoveReferences ==
  ASSUME TypeOK, NEW t \in Tabs, MoveLinks(t), NEW c \in Codes, NEW g \in Guests, Belongs(c, g)'
  PROVE  Belongs(c, g) /\ links'[c] = links[c]
<1>1. links'[c] = MovesTo(links[c], claim[t].guest, claim[t].user)
  BY DEF MoveLinks
<1> QED
  BY <1>1, OwnersDistinct DEF MovesTo, Belongs, Row

(* No step files a link under a guest without a row.                       *)
LEMMA NewReferences ==
  ASSUME TypeOK, [Next]_vars, NEW c \in Codes, NEW g \in Guests, Belongs(c, g)', ~Belongs(c, g)
  PROVE  \E t \in Tabs : InsertLink(t) /\ create[t].guest = g /\ guests[g] = "live"
<1>1. CASE \E t \in Tabs : InsertLink(t)
  BY <1>1, InsertReferences
<1>2. CASE \E t \in Tabs : MoveLinks(t)
  BY <1>2, MoveReferences
<1>3. CASE UNCHANGED links
  BY <1>3 DEF Belongs
<1> QED
  BY <1>1, <1>2, <1>3, OnlyInsertsAndMoves

(* A guest's row comes and goes once, and goes when nothing refers to it.  *)
LEMMA GuestSteps ==
  ASSUME TypeOK, [Next]_vars, NEW g \in Guests
  PROVE  \/ guests'[g] = guests[g]
         \/ guests[g] = "unminted" /\ guests'[g] = "live" /\ UNCHANGED links
         \/ guests[g] = "live" /\ guests'[g] = "retired" /\ UNCHANGED links /\ LinksOf(g) = {}
<1>1. CASE \E t \in Tabs : MintGuest(t)
  BY <1>1 DEF MintGuest, TypeOK
<1>2. CASE \E t \in Tabs : RetireGuest(t)
  <2>1. PICK t \in Tabs : RetireGuest(t)
    BY <1>2
  <2>2. guests'[g] = guests[g] \/ (claim[t].guest = g /\ guests[g] = "live" /\ guests'[g] = "retired")
    BY <2>1 DEF RetireGuest, TypeOK
  <2> QED
    BY <2>1, <2>2 DEF RetireGuest
<1>3. CASE ~(\E t \in Tabs : MintGuest(t) \/ RetireGuest(t))
  <2>1. UNCHANGED guests
    BY <1>3 DEF Next, Step, vars, SubmitCreate, RefuseCorrupt, AdmitAccount, AdmitGuest, InsertLink,
       RetryCode, CreateFails, HearCreated, HearCorrupt, CreateUnheard, SignIn, SignOut, MoveLinks,
       ClaimFails, HearClaimed, ClaimUnheard, CorruptStorage
  <2> QED
    BY <2>1
<1> QED
  BY <1>1, <1>2, <1>3
-----------------------------------------------------------------------------
(* The invariant.                                                          *)

LEMMA TypeStep == TypeOK /\ [Next]_vars => TypeOK'
<1> SUFFICES ASSUME TypeOK, [Next]_vars PROVE TypeOK'
  OBVIOUS
<1>1. ASSUME NEW t \in Tabs, Step(t) PROVE TypeOK'
  BY <1>1, CreateKeepsTypes, ClaimKeepsTypes DEF Step
<1>2. CASE CorruptStorage
  <2>1. anchor' \in Anchors /\ lost' \subseteq Guests
    BY <1>2 DEF CorruptStorage, Store, TypeOK, Anchors
  <2> QED
    BY <1>2, <2>1 DEF CorruptStorage, TypeOK
<1>3. CASE UNCHANGED vars
  BY <1>3 DEF vars, TypeOK
<1> QED
  BY <1>1, <1>2, <1>3 DEF Next

LEMMA MintedKept ==
  ASSUME TypeOK, [Next]_vars
  PROVE  \A g \in Guests : guests[g] # "unminted" => guests'[g] # "unminted"
BY GuestSteps

(* What a step makes of one tab's create, as far as guests go.             *)
LEMMA CreateSteps ==
  ASSUME TypeOK, [Next]_vars, NEW t \in Tabs
  PROVE  \/ create'[t] = create[t]
         \/ create'[t].at \in {"idle", "corrupt"} /\ create[t].at # "created"
         \/ create'[t].at = "idle" /\ create[t].at = "created" /\ (HearCreated(t) \/ CreateUnheard(t))
         \/ create'[t].at = "sent" /\ create'[t].guest \in {anchor, None} /\ create[t].at # "created"
         \/ AdmitAccount(t) /\ create'[t] = Inserting(create[t], None, FALSE)
         \/ AdmitGuest(t) /\ create'[t] = Inserting(create[t], create[t].guest, FALSE)
         \/ /\ MintGuest(t)
            /\ \E g \in Guests : guests'[g] = "live" /\ create'[t] = Inserting(create[t], g, TRUE)
         \/ RetryCode(t) /\ create'[t] = [create[t] EXCEPT !.tries = @ + 1]
         \/ /\ InsertLink(t) /\ create'[t].at = "created"
            /\ create'[t].guest = IF create[t].minted THEN create[t].guest ELSE None
<1>1. CASE SubmitCreate(t)
  <2>1. create[t].at # "created"
    BY <1>1 DEF SubmitCreate, Idle
  <2>2. create'[t].at = "sent" /\ create'[t].guest \in {anchor, None}
    BY <1>1 DEF SubmitCreate, Request, TypeOK
  <2> QED
    BY <2>1, <2>2
<1>2. CASE HearCorrupt(t)
  <2>1. create[t].at # "created"
    BY <1>2 DEF HearCorrupt
  <2>2. create'[t].at = "sent" /\ create'[t].guest \in {anchor, None}
    BY <1>2 DEF HearCorrupt, Request, TypeOK
  <2> QED
    BY <2>1, <2>2
<1>3. CASE RefuseCorrupt(t) \/ CreateFails(t)
  <2>1. create[t].at # "created"
    BY <1>3 DEF RefuseCorrupt, CreateFails
  <2>2. \/ create'[t] = [at |-> "corrupt", alias |-> create[t].alias]
        \/ create'[t] = Idle
    BY <1>3 DEF RefuseCorrupt, CreateFails, TypeOK
  <2>3. create'[t].at \in {"idle", "corrupt"}
    BY <2>2 DEF Idle
  <2> QED
    BY <2>1, <2>3
<1>4. CASE HearCreated(t) \/ CreateUnheard(t)
  <2>1. create'[t] = Idle
    BY <1>4 DEF HearCreated, CreateUnheard, TypeOK
  <2>2. create'[t].at = "idle"
    BY <2>1 DEF Idle
  <2> QED
    BY <1>4, <2>2
<1>5. CASE AdmitAccount(t) \/ AdmitGuest(t)
  BY <1>5 DEF AdmitAccount, AdmitGuest, TypeOK
<1>6. CASE MintGuest(t)
  <2>1. PICK g \in Guests :
          /\ guests' = [guests EXCEPT ![g] = "live"]
          /\ create' = [create EXCEPT ![t] = Inserting(create[t], g, TRUE)]
    BY <1>6 DEF MintGuest
  <2>2. guests'[g] = "live" /\ create'[t] = Inserting(create[t], g, TRUE)
    BY <2>1 DEF TypeOK
  <2> QED
    BY <1>6, <2>2
<1>7. CASE InsertLink(t)
  BY <1>7 DEF InsertLink, TypeOK
<1>8. CASE RetryCode(t)
  BY <1>8 DEF RetryCode, TypeOK
<1>9. CASE \/ SignIn(t) \/ SignOut(t) \/ MoveLinks(t) \/ RetireGuest(t)
           \/ ClaimFails(t) \/ HearClaimed(t) \/ ClaimUnheard(t)
  BY <1>9 DEF SignIn, SignOut, MoveLinks, RetireGuest, ClaimFails, HearClaimed, ClaimUnheard
<1>10. ASSUME NEW u \in Tabs \ {t}, Step(u) PROVE create'[t] = create[t]
  BY <1>10 DEF Step, TypeOK, SubmitCreate, RefuseCorrupt, AdmitAccount, AdmitGuest, MintGuest,
     InsertLink, RetryCode, CreateFails, HearCreated, HearCorrupt, CreateUnheard, SignIn, SignOut,
     MoveLinks, RetireGuest, ClaimFails, HearClaimed, ClaimUnheard
<1>11. CASE CorruptStorage \/ UNCHANGED vars
  BY <1>11 DEF CorruptStorage, vars
<1> QED
  BY <1>1, <1>2, <1>3, <1>4, <1>5, <1>6, <1>7, <1>8, <1>9, <1>10, <1>11 DEF Next, Step

(* ... and of one tab's claim.                                             *)
LEMMA ClaimSteps ==
  ASSUME TypeOK, [Next]_vars, NEW t \in Tabs
  PROVE  \/ claim'[t] = claim[t]
         \/ claim'[t].at = "idle"
         \/ claim'[t].at = "sent" /\ claim'[t].guest = anchor
         \/ claim'[t].at = "moved" /\ claim[t].at = "sent" /\ claim'[t].guest = claim[t].guest
         \/ /\ RetireGuest(t) /\ claim'[t].at = "claimed" /\ claim'[t].guest = claim[t].guest
<1>1. CASE MoveLinks(t)
  <2>1. claim[t] \in [at : {"sent"}, user : Users, guest : Guests \cup {Corrupt}]
    BY <1>1, ClaimFields DEF MoveLinks, Claims, Idle
  <2> QED
    BY <1>1, <2>1 DEF MoveLinks, TypeOK
<1>2. CASE RetireGuest(t)
  <2>1. claim[t] \in [at : {"moved", "claimed"}, user : Users, guest : Guests]
    BY <1>2, ClaimFields DEF RetireGuest, Claims, Idle
  <2> QED
    BY <1>2, <2>1 DEF RetireGuest, TypeOK
<1>3. CASE SignIn(t)
  <2>1. claim'[t] = claim[t] \/ \E u \in Users : claim'[t] = [at |-> "sent", user |-> u, guest |-> anchor]
    BY <1>3 DEF SignIn, TypeOK
  <2>2. CASE claim'[t] = claim[t]
    BY <2>2
  <2>3. ASSUME NEW u \in Users, claim'[t] = [at |-> "sent", user |-> u, guest |-> anchor]
        PROVE  claim'[t].at = "sent" /\ claim'[t].guest = anchor
    BY <2>3
  <2> QED
    BY <2>1, <2>2, <2>3
<1>4. CASE ClaimFails(t) \/ HearClaimed(t) \/ ClaimUnheard(t)
  BY <1>4 DEF ClaimFails, HearClaimed, ClaimUnheard, Idle, TypeOK
<1>5. CASE \/ SubmitCreate(t) \/ RefuseCorrupt(t) \/ AdmitAccount(t) \/ AdmitGuest(t)
           \/ MintGuest(t) \/ InsertLink(t) \/ RetryCode(t) \/ CreateFails(t)
           \/ HearCreated(t) \/ HearCorrupt(t) \/ CreateUnheard(t) \/ SignOut(t)
  BY <1>5 DEF SubmitCreate, RefuseCorrupt, AdmitAccount, AdmitGuest, MintGuest, InsertLink, RetryCode,
     CreateFails, HearCreated, HearCorrupt, CreateUnheard, SignOut
<1>6. ASSUME NEW u \in Tabs \ {t}, Step(u) PROVE claim'[t] = claim[t]
  BY <1>6 DEF Step, TypeOK, SubmitCreate, RefuseCorrupt, AdmitAccount, AdmitGuest, MintGuest,
     InsertLink, RetryCode, CreateFails, HearCreated, HearCorrupt, CreateUnheard, SignIn, SignOut,
     MoveLinks, RetireGuest, ClaimFails, HearClaimed, ClaimUnheard
<1>7. CASE CorruptStorage \/ UNCHANGED vars
  BY <1>7 DEF CorruptStorage, vars
<1> QED
  BY <1>1, <1>2, <1>3, <1>4, <1>5, <1>6, <1>7 DEF Next, Step

(* ... and of the anchor.                                                  *)
LEMMA AnchorSteps ==
  ASSUME TypeOK, [Next]_vars
  PROVE  \/ UNCHANGED anchor /\ lost \subseteq lost'
         \/ anchor' \in {None, Corrupt} /\ lost' = lost \cup ({anchor} \cap Guests)
         \/ \E t \in Tabs :
              /\ create[t].at = "created" /\ anchor' = create[t].guest
              /\ lost' = lost \cup ({anchor} \cap (Guests \ {anchor'}))
         \/ \E t \in Tabs :
              /\ claim[t].at = "claimed" /\ anchor' = None
              /\ lost' = lost \cup ({anchor} \cap (Guests \ {claim[t].guest}))
<1>1. CASE \E t \in Tabs : HearCreated(t)
  BY <1>1, OwnersDistinct DEF HearCreated, Store
<1>2. CASE \E t \in Tabs : HearCorrupt(t)
  BY <1>2, OwnersDistinct DEF HearCorrupt, Store
<1>3. CASE \E t \in Tabs : HearClaimed(t)
  BY <1>3, OwnersDistinct DEF HearClaimed, Store
<1>4. CASE CorruptStorage
  BY <1>4, OwnersDistinct DEF CorruptStorage, Store
<1>5. CASE ~(\E t \in Tabs : HearCreated(t) \/ HearCorrupt(t) \/ HearClaimed(t)) /\ ~CorruptStorage
  BY <1>5 DEF Next, Step, vars, SubmitCreate, RefuseCorrupt, AdmitAccount, AdmitGuest, MintGuest, InsertLink,
     RetryCode, CreateFails, CreateUnheard, SignIn, SignOut, MoveLinks, RetireGuest, ClaimFails, ClaimUnheard
<1> QED
  BY <1>1, <1>2, <1>3, <1>4, <1>5

-----------------------------------------------------------------------------
(* A taken code costs a try and changes nothing else of a create.          *)
LEMMA RetriedCreate ==
  ASSUME TypeOK, NEW t \in Tabs, RetryCode(t)
  PROVE  /\ create[t].at = "insert" /\ create'[t].at = "insert"
         /\ create'[t].guest = create[t].guest
         /\ create'[t].user = create[t].user
         /\ create'[t].minted = create[t].minted
<1>1. create[t] \in [at : {"insert"}, user : Users \cup {None}, guest : Guests \cup {None},
                     minted : BOOLEAN, alias : Aliases \cup {None}, tries : 0..(MaxTries - 1)]
  BY CreateFields DEF RetryCode, Creates, Idle
<1>2. create'[t] = [create[t] EXCEPT !.tries = create[t].tries + 1]
  BY DEF RetryCode, TypeOK
<1> QED
  BY <1>1, <1>2

(* What the tabs and handlers know of guests stays true.                   *)
LEMMA OnlyMintedStep ==
  ASSUME TypeOK, OnlyMinted, [Next]_vars
  PROVE  OnlyMinted'
<1>1. Minted(anchor)'
  <2>1. \/ anchor' \in {anchor, None, Corrupt}
        \/ \E t \in Tabs : create[t].at = "created" /\ anchor' = create[t].guest
    BY AnchorSteps
  <2> QED
    BY <2>1, MintedKept, OwnersDistinct DEF OnlyMinted, Minted
<1>2. ASSUME NEW t \in Tabs, claim'[t].at # "idle"
      PROVE  claim'[t].guest \in Guests => guests'[claim'[t].guest] # "unminted"
  <2>1. \/ claim'[t] = claim[t]
        \/ claim'[t].guest = anchor
        \/ claim[t].at = "sent" /\ claim'[t].guest = claim[t].guest
        \/ RetireGuest(t) /\ claim'[t].guest = claim[t].guest
    BY <1>2, ClaimSteps
  <2>2. RetireGuest(t) => claim[t].at = "moved"
    BY DEF RetireGuest
  <2> QED
    BY <1>2, <2>1, <2>2, MintedKept DEF OnlyMinted, Minted
<1>3. ASSUME NEW t \in Tabs, create'[t].at \in {"sent", "insert", "created"}
      PROVE  create'[t].guest \in Guests => guests'[create'[t].guest] # "unminted"
  <2>1. CASE create'[t] = create[t]
    BY <1>3, <2>1, MintedKept DEF OnlyMinted, Minted
  <2>2. CASE create'[t].guest \in {anchor, None}
    BY <2>2, MintedKept, OwnersDistinct DEF OnlyMinted, Minted
  <2>3. CASE AdmitAccount(t) /\ create'[t] = Inserting(create[t], None, FALSE)
    BY <2>3, OwnersDistinct DEF Inserting
  <2>4. CASE AdmitGuest(t) /\ create'[t] = Inserting(create[t], create[t].guest, FALSE)
    <3>1. create'[t].guest = create[t].guest /\ create[t].at = "sent"
      BY <2>4 DEF Inserting, AdmitGuest
    <3> QED
      BY <3>1, MintedKept DEF OnlyMinted, Minted
  <2>5. CASE \E g \in Guests : guests'[g] = "live" /\ create'[t] = Inserting(create[t], g, TRUE)
    <3>1. PICK g \in Guests : guests'[g] = "live" /\ create'[t] = Inserting(create[t], g, TRUE)
      BY <2>5
    <3>2. create'[t].guest = g
      BY <3>1 DEF Inserting
    <3> QED
      BY <3>1, <3>2
  <2>6. CASE RetryCode(t)
    <3>1. create'[t].guest = create[t].guest /\ create[t].at = "insert"
      BY <2>6, RetriedCreate
    <3> QED
      BY <3>1, MintedKept DEF OnlyMinted, Minted
  <2>7. CASE InsertLink(t) /\ create'[t].guest = IF create[t].minted THEN create[t].guest ELSE None
    <3>1. create[t].at = "insert" /\ create'[t].guest \in {create[t].guest, None}
      BY <2>7 DEF InsertLink
    <3> QED
      BY <3>1, MintedKept, OwnersDistinct DEF OnlyMinted, Minted
  <2> QED
    BY <1>3, <2>1, <2>2, <2>3, <2>4, <2>5, <2>6, <2>7, CreateSteps
<1> QED
  BY <1>1, <1>2, <1>3 DEF OnlyMinted, Minted

LEMMA KnowsStep ==
  ASSUME TypeOK, OnlyMinted, HandlersKnowGuests, [Next]_vars
  PROVE  HandlersKnowGuests'
<1>1. ASSUME NEW t \in Tabs, create'[t].at = "insert"
      PROVE  /\ create'[t].user = None <=> create'[t].guest # None
             /\ create'[t].minted => create'[t].guest # None
  <2>1. CASE create'[t] = create[t]
    BY <1>1, <2>1 DEF HandlersKnowGuests
  <2>2. CASE AdmitAccount(t) /\ create'[t] = Inserting(create[t], None, FALSE)
    BY <2>2 DEF Inserting, AdmitAccount
  <2>3. CASE AdmitGuest(t) /\ create'[t] = Inserting(create[t], create[t].guest, FALSE)
    BY <2>3, OwnersDistinct DEF Inserting, AdmitGuest
  <2>4. CASE MintGuest(t) /\ \E g \in Guests : create'[t] = Inserting(create[t], g, TRUE)
    BY <2>4, OwnersDistinct DEF Inserting, MintGuest
  <2>5. CASE RetryCode(t)
    BY <2>5, RetriedCreate DEF HandlersKnowGuests
  <2> QED
    BY <1>1, <2>1, <2>2, <2>3, <2>4, <2>5, CreateSteps
<1>2. ASSUME NEW t \in Tabs, create'[t].at \in {"insert", "created"}, create'[t].guest # None
      PROVE  guests'[create'[t].guest] # "unminted"
  <2>1. create'[t].guest \in Guests
    <3>1. create'[t] \in Creates
      BY TypeStep DEF TypeOK
    <3> QED
      BY <1>2, <3>1 DEF Creates, Idle
  <2>2. OnlyMinted'
    BY OnlyMintedStep
  <2> QED
    BY <1>2, <2>1, <2>2 DEF OnlyMinted, Minted
<1>3. ASSUME NEW t \in Tabs, claim'[t].at = "claimed"
      PROVE  guests'[claim'[t].guest] # "live"
  <2>1. CASE claim'[t] = claim[t]
    <3>1. claim[t].at = "claimed" /\ claim[t].guest \in Guests
      BY <1>3, <2>1, ClaimFields
    <3>2. guests[claim[t].guest] = "retired"
      <4>1. guests[claim[t].guest] \in {"unminted", "live", "retired"}
        BY <3>1 DEF TypeOK
      <4> QED
        BY <3>1, <4>1 DEF HandlersKnowGuests, OnlyMinted, Minted
    <3> QED
      BY <2>1, <3>1, <3>2, GuestSteps
  <2>2. CASE RetireGuest(t) /\ claim'[t].guest = claim[t].guest
    <3>1. claim[t].guest \in Guests
      BY <2>2, ClaimFields DEF RetireGuest
    <3> QED
      BY <2>2, <3>1 DEF RetireGuest, TypeOK
  <2> QED
    BY <1>3, <2>1, <2>2, ClaimSteps
<1> QED
  BY <1>1, <1>2, <1>3 DEF HandlersKnowGuests

(* A guest a link is filed under keeps its row: no step files one under a  *)
(* guest without, and a guest with a link is not retired.                  *)
LEMMA RowsStep ==
  ASSUME Known, [Next]_vars
  PROVE  GuestsHaveRows'
<1> USE DEF Known, IInv
<1>1. SUFFICES ASSUME NEW c \in Codes, links'[c].present, links'[c].guest # None
               PROVE  guests'[links'[c].guest] = "live" /\ links'[c].user = None
  BY DEF GuestsHaveRows
<1>2. links'[c] \in Rows
  <2>1. links'[c] \in Rows \cup {Absent}
    BY TypeStep DEF TypeOK
  <2> QED
    BY <1>1, <2>1 DEF Absent
<1>3. PICK g \in Guests : links'[c].guest = g
  BY <1>1, <1>2 DEF Rows
<1>4. guests[g] = "live" => guests'[g] = "live"
  <2>1. SUFFICES ASSUME guests[g] = "live", UNCHANGED links, LinksOf(g) = {} PROVE FALSE
    BY GuestSteps
  <2>2. Belongs(c, g)
    BY <1>1, <1>3, <2>1 DEF Belongs
  <2> QED
    BY <2>1, <2>2 DEF LinksOf
<1>5. CASE \E t \in Tabs : InsertLink(t)
  <2>1. PICK t \in Tabs : InsertLink(t)
    BY <1>5
  <2>2. PICK b \in Codes :
          /\ create[t].guest # None => guests[create[t].guest] = "live"
          /\ links' = [links EXCEPT ![b] = Row(create[t].user, create[t].guest)]
    BY <2>1 DEF InsertLink
  <2>3. CASE c = b
    <3>1. links'[c] = Row(create[t].user, create[t].guest)
      BY <2>2, <2>3 DEF TypeOK
    <3>2. create[t].guest = g /\ links'[c].user = create[t].user
      BY <1>3, <3>1 DEF Row
    <3>3. create[t].user = None
      BY <1>1, <1>3, <2>1, <3>2 DEF HandlersKnowGuests, InsertLink
    <3> QED
      BY <1>1, <1>3, <1>4, <2>2, <3>2, <3>3
  <2>4. CASE c # b
    BY <1>1, <1>3, <1>4, <2>2, <2>4 DEF TypeOK, GuestsHaveRows
  <2> QED
    BY <2>3, <2>4
<1>6. CASE ~(\E t \in Tabs : InsertLink(t))
  <2>1. links'[c] = links[c]
    <3>1. Belongs(c, g)'
      BY <1>1, <1>3 DEF Belongs
    <3> QED
      BY <1>6, <3>1, MoveReferences, OnlyInsertsAndMoves
  <2> QED
    BY <1>1, <1>3, <1>4, <2>1 DEF GuestsHaveRows
<1> QED
  BY <1>5, <1>6

LEMMA InitKnown == Init => Known
<1> SUFFICES ASSUME Init PROVE Known
  OBVIOUS
<1>1. TypeOK
  <2>1. links \in [Codes -> Rows \cup {Absent}]
    BY RowTypes DEF Init
  <2> QED
    BY <2>1, IdleTypes DEF Init, TypeOK, Anchors
<1>2. GuestsHaveRows
  BY DEF Init, GuestsHaveRows, Row, Absent
<1>3. HandlersKnowGuests /\ OnlyMinted
  BY OwnersDistinct DEF Init, HandlersKnowGuests, OnlyMinted, Minted, Idle
<1> QED
  BY <1>1, <1>2, <1>3 DEF Known, IInv

LEMMA KnownStep == Known /\ [Next]_vars => Known'
BY TypeStep, RowsStep, KnowsStep, OnlyMintedStep DEF Known, IInv

LEMMA SpecKnown == Spec => []Known
<1> QED
  BY InitKnown, KnownStep, PTL DEF Spec

(* Types, one owner per link, and what the handlers know of guests.        *)
THEOREM InvariantHolds == Spec => []IInv
<1>1. Known => IInv
  BY DEF Known
<1> QED
  BY <1>1, SpecKnown, PTL

(* A claim that answers has taken every link of its guest, and none is     *)
(* filed under that guest afterwards (url.service.ts:190).                 *)
THEOREM ClaimedCompletelyHolds == Spec => []ClaimedCompletely
<1>1. IInv => ClaimedCompletely
  <2> SUFFICES ASSUME IInv, NEW t \in Tabs, claim[t].at = "claimed", NEW c \in Codes,
                      Belongs(c, claim[t].guest)
               PROVE  FALSE
    BY DEF ClaimedCompletely, LinksOf
  <2>1. claim[t].guest # None
    BY ClaimFields, OwnersDistinct DEF IInv
  <2>2. guests[claim[t].guest] = "live"
    BY <2>1 DEF IInv, GuestsHaveRows, Belongs
  <2> QED
    BY <2>2 DEF IInv, HandlersKnowGuests
<1> QED
  BY <1>1, InvariantHolds, PTL

(* A link's owner changes once, by the claim of the guest it is filed      *)
(* under (url.repository.ts:101, :320).                                    *)
THEOREM OwnedForGoodHolds == Spec => OwnedForGood
<1>1. IInv /\ [Next]_vars =>
        [\A c \in Codes : links[c].present /\ links'[c] # links[c] =>
           /\ links[c].user = None
           /\ \E t \in Tabs :
                /\ claim[t].at = "sent" /\ claim[t].guest = links[c].guest
                /\ links'[c] = Row(claim[t].user, None)]_vars
  BY OwnedStep DEF IInv
<1> QED
  BY <1>1, InvariantHolds, PTL DEF Spec, OwnedForGood

-----------------------------------------------------------------------------
(* Within reach.                                                           *)

(* The browser still holds the identity, or the answer that carries it is  *)
(* on its way, or storage dropped it.                                      *)
Reach(g) ==
  \/ g \in {anchor} \cup lost
  \/ \E t \in Tabs : create[t].at = "created" /\ create[t].guest = g

(* A create names a guest it did not mint itself: that guest is in reach.  *)
Names(t, g) ==
  /\ create[t].at \in {"sent", "insert"} /\ create[t].guest = g
  /\ create[t].at = "insert" => ~create[t].minted

PendingReachable ==
  \A t \in Tabs : \A g \in Guests : Names(t, g) /\ guests[g] = "live" => Reach(g)

(* While its row lives, a guest never goes out of reach: the only anchor   *)
(* cleared on purpose is that of a finished claim, whose row is gone; or   *)
(* it is another tab's, and counted as lost.                               *)
LEMMA ReachKept ==
  ASSUME Known, [Next]_vars, NEW g \in Guests, Reach(g), guests[g] = "live"
  PROVE  Reach(g)'
<1> USE DEF Known, IInv
<1>1. CASE g \in lost
  BY <1>1, AnchorSteps DEF Reach
<1>2. CASE g = anchor
  <2>1. \A t \in Tabs : claim[t].at = "claimed" => claim[t].guest # g
    BY DEF HandlersKnowGuests
  <2> QED
    BY <1>2, <2>1, AnchorSteps DEF Reach
<1>3. ASSUME NEW t \in Tabs, create[t].at = "created", create[t].guest = g
      PROVE  Reach(g)'
  <2>1. CASE create'[t] = create[t]
    BY <1>3, <2>1 DEF Reach
  <2>2. CASE HearCreated(t)
    BY <1>3, <2>2, OwnersDistinct DEF HearCreated, Store, Reach
  <2>3. CASE CreateUnheard(t)
    BY <1>3, <2>3 DEF CreateUnheard, Reach
  <2>4. ~AdmitAccount(t) /\ ~AdmitGuest(t) /\ ~MintGuest(t) /\ ~RetryCode(t) /\ ~InsertLink(t)
    BY <1>3 DEF AdmitAccount, AdmitGuest, MintGuest, RetryCode, InsertLink
  <2> QED
    BY <1>3, <2>1, <2>2, <2>3, <2>4, CreateSteps
<1> QED
  BY <1>1, <1>2, <1>3 DEF Reach

(* A row that lives after the step lived before it, for any guest some tab *)
(* had heard of.                                                           *)
LEMMA LivedBefore ==
  ASSUME Known, [Next]_vars, NEW g \in Guests, guests[g] # "unminted", guests'[g] = "live"
  PROVE  guests[g] = "live"
BY GuestSteps DEF Known, IInv

LEMMA PendingStep ==
  ASSUME Known, PendingReachable, [Next]_vars
  PROVE  PendingReachable'
<1> USE DEF Known, IInv
<1> SUFFICES ASSUME NEW t \in Tabs, NEW g \in Guests, Names(t, g)', guests'[g] = "live"
             PROVE  Reach(g)'
  BY DEF PendingReachable
<1>1. ASSUME Names(t, g) PROVE Reach(g)'
  <2>1. guests[g] # "unminted"
    BY <1>1 DEF Names, OnlyMinted, Minted
  <2> QED
    BY <1>1, <2>1, LivedBefore, ReachKept DEF PendingReachable
<1>2. ASSUME g = anchor PROVE Reach(g)'
  <2>1. guests[g] # "unminted"
    BY <1>2 DEF OnlyMinted, Minted
  <2> QED
    BY <1>2, <2>1, LivedBefore, ReachKept DEF Reach
<1>3. g # None
  BY OwnersDistinct
<1>4. CASE create'[t] = create[t]
  BY <1>1, <1>4 DEF Names
<1>5. CASE create'[t].guest \in {anchor, None}
  BY <1>2, <1>3, <1>5 DEF Names
<1>6. CASE AdmitAccount(t) /\ create'[t] = Inserting(create[t], None, FALSE)
  BY <1>3, <1>6 DEF Names, Inserting
<1>7. CASE AdmitGuest(t) /\ create'[t] = Inserting(create[t], create[t].guest, FALSE)
  <2>1. create'[t].guest = create[t].guest /\ create[t].at = "sent"
    BY <1>7 DEF Inserting, AdmitGuest
  <2> QED
    BY <1>1, <2>1 DEF Names
<1>8. CASE \E h \in Guests : create'[t] = Inserting(create[t], h, TRUE)
  BY <1>8 DEF Names, Inserting
<1>9. CASE RetryCode(t)
  BY <1>1, <1>9, RetriedCreate DEF Names
<1>10. CASE create'[t].at \in {"idle", "corrupt", "created"}
  BY <1>10 DEF Names
<1> QED
  BY <1>4, <1>5, <1>6, <1>7, <1>8, <1>9, <1>10, CreateSteps

LEMMA StrandedStep ==
  ASSUME Known, PendingReachable, StrandedOnlyIfLost, [Next]_vars
  PROVE  StrandedOnlyIfLost'
<1> USE DEF Known, IInv
<1> SUFFICES ASSUME NEW c \in Codes, links'[c].present, links'[c].guest # None
             PROVE  \/ links'[c].guest \in {anchor'} \cup lost'
                    \/ \E t \in Tabs : /\ create'[t].at = "created"
                                       /\ create'[t].guest = links'[c].guest
  BY DEF StrandedOnlyIfLost
<1>1. PICK g \in Guests : links'[c].guest = g /\ Belongs(c, g)'
  <2>1. links'[c] \in Rows \cup {Absent}
    BY TypeStep DEF TypeOK
  <2>2. links'[c] \in Rows
    BY <2>1 DEF Absent
  <2>3. links'[c].guest \in Guests
    BY <2>2 DEF Rows
  <2> QED
    BY <2>3 DEF Belongs
<1> SUFFICES Reach(g)'
  BY <1>1 DEF Reach
<1>2. g # None
  BY OwnersDistinct
<1>3. CASE Belongs(c, g)
  <2>1. Reach(g) /\ guests[g] = "live"
    BY <1>2, <1>3 DEF StrandedOnlyIfLost, GuestsHaveRows, Belongs, Reach
  <2> QED
    BY <2>1, ReachKept
<1>4. CASE ~Belongs(c, g)
  <2>1. PICK t \in Tabs : InsertLink(t) /\ create[t].guest = g /\ guests[g] = "live"
    BY <1>1, <1>4, NewReferences
  <2>2. create[t].at = "insert" /\ create[t].minted \in BOOLEAN
    BY <2>1, CreateFields DEF InsertLink
  <2>3. CASE create[t].minted
    <3>1. create'[t].at = "created" /\ create'[t].guest = g
      BY <2>1, <2>3 DEF InsertLink, TypeOK
    <3> QED
      BY <3>1 DEF Reach
  <2>4. CASE ~create[t].minted
    BY <2>1, <2>2, <2>4, ReachKept DEF PendingReachable, Names
  <2> QED
    BY <2>3, <2>4
<1> QED
  BY <1>3, <1>4

(* An anonymous link stays within its browser's reach, or storage dropped  *)
(* its identity: a failed claim costs nothing (auth-context.tsx:93).       *)
THEOREM StrandedOnlyIfLostHolds == Spec => []StrandedOnlyIfLost
<1>1. Init => PendingReachable /\ StrandedOnlyIfLost
  BY DEF Init, PendingReachable, Names, StrandedOnlyIfLost, Idle, Row, Absent
<1>2. Known /\ PendingReachable /\ StrandedOnlyIfLost /\ [Next]_vars
        => PendingReachable' /\ StrandedOnlyIfLost'
  BY PendingStep, StrandedStep
<1> QED
  BY <1>1, <1>2, SpecKnown, PTL DEF Spec
=============================================================================
