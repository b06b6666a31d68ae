--------------------------- MODULE ClickDelivery ---------------------------
(***************************************************************************)
(* What the asynchronous click path promises the rest of the program: an   *)
(* accepted click is counted at most once however often it is delivered,   *)
(* or it is buried as a dead letter; nothing else is ever counted; and     *)
(* neither outcome is taken back.  How the click travels is not visible.   *)
(***************************************************************************)
EXTENDS Naturals

CONSTANTS
  Events,     (* clicks                                                    *)
  Malformed   (* clicks whose payload the consumer refuses                 *)

VARIABLES
  accepted,   (* clicks whose outbox row has committed                     *)
  counted,    (* per click: its rows in click_events                       *)
  buried      (* clicks dead-lettered at least once                        *)

vars == <<accepted, counted, buried>>

Init ==
  /\ accepted = {}
  /\ counted = [e \in Events |-> 0]
  /\ buried = {}

Accept(e) ==
  /\ e \notin accepted
  /\ accepted' = accepted \cup {e}
  /\ UNCHANGED <<counted, buried>>

(* One batch INSERT: only accepted, well-formed clicks not counted before. *)
Count(S) ==
  /\ S \subseteq accepted \ Malformed
  /\ \A e \in S : counted[e] = 0
  /\ counted' = [e \in Events |-> IF e \in S THEN 1 ELSE counted[e]]
  /\ UNCHANGED <<accepted, buried>>

Bury(S) ==
  /\ S \subseteq accepted
  /\ buried' = buried \cup S
  /\ UNCHANGED <<accepted, counted>>

Next ==
  \/ \E e \in Events : Accept(e)
  \/ \E S \in SUBSET Events : Count(S) \/ Bury(S)

Spec == Init /\ [][Next]_vars
=============================================================================
