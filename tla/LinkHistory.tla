---------------------------- MODULE LinkHistory ----------------------------
(***************************************************************************)
(* What the redirect path promises about its answers, cache or no cache:   *)
(* an answer about a code is what some row that code has had, now or in    *)
(* the past, means at this instant.  Old rows may answer; but no answer is *)
(* invented or mixed up between codes, and no link redirects after its own *)
(* expiry.                                                                 *)
(***************************************************************************)
CONSTANTS
  Codes, Requests,
  Rows,            (* rows of urls, and the absence of one                 *)
  Absent,          (* the absence of a row                                 *)
  Deadlines,
  Means(_, _),     (* what a row answers once a set of deadlines is past   *)
  Silent           (* no answer                                            *)

VARIABLES
  versions,   (* per code: the rows it has had                             *)
  past,       (* deadlines that have passed                                *)
  answer      (* per request: the answer it is giving                      *)

vars == <<versions, past, answer>>

Init ==
  /\ versions = [c \in Codes |-> {Absent}]
  /\ past = {}
  /\ answer = [r \in Requests |-> Silent]

Change(c, row) ==
  /\ versions' = [versions EXCEPT ![c] = @ \cup {row}]
  /\ UNCHANGED <<past, answer>>

DeadlinePasses(d) ==
  /\ past' = past \cup {d}
  /\ UNCHANGED <<versions, answer>>

Answer(r, c, row) ==
  /\ answer[r] = Silent
  /\ row \in versions[c]
  /\ answer' = [answer EXCEPT ![r] = [code |-> c, says |-> Means(row, past)]]
  /\ UNCHANGED <<versions, past>>

Finish(r) ==
  /\ answer' = [answer EXCEPT ![r] = Silent]
  /\ UNCHANGED <<versions, past>>

Next ==
  \/ \E c \in Codes, row \in Rows : Change(c, row)
  \/ \E d \in Deadlines : DeadlinePasses(d)
  \/ \E r \in Requests : Finish(r) \/ \E c \in Codes, row \in Rows : Answer(r, c, row)

Spec == Init /\ [][Next]_vars
=============================================================================
