---------------------------- MODULE MCClickStats ----------------------------
(* Instances of ClickStats for TLC.                                        *)
EXTENDS ClickStats

(* Two links, one click of each.                                           *)
MCLinks == {"l1", "l2"}
MCLinkOf == [c \in Clicks |-> IF c = 1 THEN "l1" ELSE "l2"]
=============================================================================
