----------------------------- MODULE MCLinkList -----------------------------
(* Instances of LinkList for TLC.                                          *)
EXTENDS LinkList

(* The dashboard asks for five, the list for twenty.                       *)
MCLimits == [dashboard |-> 1, list |-> 2]
=============================================================================
