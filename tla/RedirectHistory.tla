-------------------------- MODULE RedirectHistory --------------------------
(***************************************************************************)
(* RedirectCache with a history variable, the rows each code has had, and  *)
(* its refinement of LinkHistory.                                          *)
(***************************************************************************)
EXTENDS RedirectCache

VARIABLE versions   (* history, per code: the rows it has had              *)

hvars == <<vars, versions>>

HInit == Init /\ versions = [c \in Codes |-> {Missing}]

HNext ==
  /\ Next
  /\ versions' = [c \in Codes |-> versions[c] \cup {table'[c]}]

HSpec == HInit /\ [][HNext]_hvars

StemsFrom(entry, row) == entry \in {row, Classify(row)}

(* Whatever is cached, read or about to be stored for a code (keys are     *)
(* built and rows read in different calls) stems from a row it has had.    *)
EntriesAreHistoric ==
  /\ \A c \in Codes : table[c] \in versions[c]
  /\ \A c \in Codes :
       cache[c] = Empty \/ \E row \in versions[c] : StemsFrom(cache[c], row)
  /\ \A r \in Requests :
       /\ call[r].at = "row" => call[r].row \in versions[call[r].code]
       /\ call[r].at \in {"hit", "store"} =>
            \E row \in versions[call[r].code] : StemsFrom(call[r].entry, row)

VersionsType == versions \in [Codes -> SUBSET (Links \cup {Missing})]

(* The inductive invariant.                                                *)
HInv == TypeOK /\ VersionsType /\ EntriesAreHistoric

-----------------------------------------------------------------------------
(* What the row, its deadlines past, answers.                              *)
Means(row, gone) ==
  IF row.kind = "missing" THEN Missing
  ELSE IF ~row.active THEN Gone("deactivated")
  ELSE IF row.expires \in gone THEN Gone("expired")
  ELSE [kind |-> "redirect", url |-> row.url]

(* What a request has settled on answering.                                *)
AnswerOf(k) == IF k.at \in {"store", "answer"} THEN k.answer ELSE Idle

History == INSTANCE LinkHistory WITH
  Rows <- Links \cup {Missing}, Absent <- Missing, Silent <- Idle,
  answer <- [r \in Requests |-> AnswerOf(call[r])]

(* Cached or not, a redirect answers what some row its code has had means*)
(* at that instant, as LinkHistory promises.                             *)
HistorySpec == History!Spec
=============================================================================
