---------------------------- MODULE MCGuestLinks ----------------------------
(* Small instances of GuestLinks for TLC.                                  *)
EXTENDS GuestLinks, TLC

(* Tabs, accounts, identities and codes without a row are interchangeable. *)
GuestSymmetry ==
  Permutations(Tabs) \cup Permutations(Users) \cup Permutations(Guests)
    \cup Permutations(Codes \ (Legacy \cup Aliases))
=============================================================================
