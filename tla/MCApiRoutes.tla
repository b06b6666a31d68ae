---------------------------- MODULE MCApiRoutes ----------------------------
(* Instances of ApiRoutes for TLC.                                         *)
EXTENDS ApiRoutes

MCBudgets == {"auth:credentials", "urls:write", "urls:read", "urls:guest-create"}

Code(word, lower, generated) == [word |-> word, lower |-> lower, generated |-> generated]

(* A reserved word capitalised, a word that no route of production takes,  *)
(* and a generated code.                                                   *)
MCCodes ==
  {Code("health", FALSE, FALSE), Code("docs", TRUE, FALSE), Code("x7Yz012", FALSE, TRUE)}

MCRoutes ==
  {"login", "me", "logout", "create", "claim", "list", "details", "analytics", "stats",
   "delete", "stream", "no such url route", "root", "link", "health", "ready", "metrics", "docs"}
=============================================================================
